# A TLA+ model of the Tabnas language server

TLA+ modules, TLC configurations and TLAPS proofs for the Rust language
server under `src/rs/`: the parse gate, the instance cache, the router, the
server loop and the session around it, the loader that builds grammars, what
is made of a document and its parse, and the views read off it. Paths below are relative to the
repository (`src/`).

## The system

The server speaks LSP over stdin and stdout. It parses documents with
grammars of the Tabnas engine (a library outside this repository) that are
linked into the program, or declared by a workspace manifest
(`.tabnas/lsp.json`) or by the client. It publishes diagnostics after every
edit and answers requests for structure from the last analysis.

| Component | Source | State | Operations | Talks to |
|---|---|---|---|---|
| Mux and gate | `rs/src/instances.rs` | the collector slot; the gate's holder, depth and condition variable | `parse`, `without_collector`, the forwarders | engine runs call back into the forwarders |
| Instance cache | `rs/src/instances.rs` | instances and failure counts by key | `get`, `record_failure`, `invalidate` | calls the loader; called by the loop |
| Router | `rs/src/registry.rs`, `types.rs` | global tier, its index, workspace tier | `put_global`, `resolve`, `set_workspace`, `reloaded_by`; reading manifests and the client's languages | called by the loop |
| Server loop | `rs/src/server.rs`, `documents.rs` | open documents, cached analyses, deadlines, published diagnostics | one handler per method, `analyze_due` | all of the above, and the client |
| Transport and session | `rs/src/jsonrpc.rs`, `server.rs`, `bin/tabnas-lsp.rs` | the channel, `shutdown`, `exited` | the reader thread, `run`, `handle_contained`, `reject` | the client's streams, the loop |
| Loader | `rs/src/loaders.rs` | a compile thread and its budget; nothing kept between builds | firewall, sandbox, compile, compose | files, the engine |
| Documents | `rs/src/documents.rs` | text and a lazy line index | positions, offsets, edits | the loop |
| Trace, outline, semantic tokens | `rs/src/trace.rs`, `outline.rs`, `semantic.rs`, `analyze.rs` | none: functions of collected events | `reconcile`, `outline`, `segments`, `encode` | the analysis |
| Completion, hover, highlight | `rs/src/completion.rs`, `hover.rs`, `highlight.rs` | none | views of the engine and the analysis | the loop |
| TypeScript server | `ts/src/` | the same, on timers | the same | |
| Go server | `go/` | documents and instances; no folders, no manifests | a subset | |
| Generators, editors, CI | `ts/src/generate.js`, `tools/`, `editors/`, `ci/` | none | write files from metadata | |

What is hard, and what makes each component correct:

* **Mux and gate.** Any number of threads parse with instances that write into
  one slot. A call nests inside another on its thread and may unwind. Correct
  means: threads take turns at whole outermost calls, none sleeps on a free
  gate, every parse returns exactly its own events, and no collector is left
  behind.
* **Instance cache.** The key must hold what a build depends on, and the
  prefix that reload matches must release what changed and nothing else.
  Quarantine must begin at the limit and end only with a reload.
* **Router.** Precedence over two tiers, nested folders, disabled entries and
  ties, through a merge that overrides in place. Entries are JSON written by
  hand, with fields absent, null or wrong; one address has many spellings, and
  two functions read them. The tier must be what is declared now, and a folder
  must serve its own documents and no others.
* **Server loop.** Files change between the loop's steps, and the client's
  report comes later. Routes change under documents already analyzed, some
  queued. Results must never be served for another text, the client must not
  keep diagnostics the server has forgotten, and a settled document must show
  what its present text, entry and grammar file give, or these must have been
  tried and have failed.
* **Session.** Two threads and a channel; the stream ends cleanly or inside a
  message, the client may stop reading, handlers panic, input is malformed in
  its headers or its body.
  Every request is answered once and in order, the loop ends for a reason, and
  the exit status tells the truth.
* **Loader.** A file is looked at three times and may change in between; a
  compile cannot be stopped and its answer may come during the next build;
  folders and files may be links;
  trust and the firewall must hold in every lane an entry may come by. A build
  ends, takes only what is its own, and gives the engine only what was vetted.
* **Documents, trace, outline, tokens, views.** Three units of length, two
  kinds of line end, a lazy index, and engine events that are taken back or
  come after their text. The text is the client's, and every range shown is on
  the text it is about.

`PROJECT.json` lists the hazards line by line with the properties that cover
each.

## Modules

| Module | Models | Checked by |
|---|---|---|
| `ParseGate` | mux, activation, gate, condition variable | run `gate`; the two below |
| `SerialParses` | abstract specification of `ParseGate` | refined in run `gate` |
| `ParseGateProofs` | theorems about the gate, the slot behind it, and that the two implement `SerialParses` | TLAPS |
| `InstanceCache` | keys, cache, failures, reload | `cache`, `cache_prefix`, `cache_stack` |
| `InstanceCacheProofs` | theorems about it | TLAPS |
| `Addresses` | a file's address, its spellings, and the program's two readings | through `Entries`, `Router` |
| `AddressesProofs` | lemmas about paths, their readings and folds, which the router's proofs rest on | TLAPS |
| `Entries` | entries as declared, manifests, the tier built of them | through `RouterTiers` |
| `Router` | `put_global`, `resolve`, `tie_break` as operators on the tiers | `router`, and through `LspServer` |
| `RouterTiers` | a router's life: the merge, `initialize`, manifest changes | `router` |
| `RouterTiersProofs` | theorems about the tiers, their ties, and which entry serves | TLAPS |
| `LspServer` | the loop, its handlers, files and watchers; instantiates `Router` and `InstanceCache` | `server`, `server_two`, `server_live` |
| `LspServerProofs` | theorems about it, and that it implements `InstanceCache` | TLAPS |
| `Framing` | header blocks, bodies, what is a message | through `RpcSession` |
| `RpcSession` | reader thread, channel, dispatch, exit status | `rpc`, `rpc_unanswered` |
| `RpcSessionProofs` | theorems about it | TLAPS |
| `Loader` | a build by any lane: sandbox, capped read, repetition bounds, compile thread, firewall, trust | `loader` |
| `LoaderProofs` | theorems about it | TLAPS |
| `Documents` | the text, its line index, positions, offsets, changes | through `Analysis` |
| `Columns` | the two-cursor walk that counts columns; extends `Documents` | through `Analysis` |
| `Trace` | anchoring and reconciling lex events; extends `Documents` | through `Analysis` |
| `Semantic` | token types, pieces, the delta encoding; extends `Trace`, `Columns` | through `Analysis` |
| `Outline` | symbols of rule events, their nesting and ranges; extends `Columns` | through `Analysis` |
| `Views` | a completion's text, the token under the cursor, highlights; extends `Semantic` | through `Analysis` |
| `Analysis` | a document under edit and one parse of it at a time; extends the above | `analysis` |
| `AnalysisProofs` | theorems about the text, the places on it, the token list, and the ranges made of them | TLAPS |

`MCInstanceCache`, `MCRouterTiers`, `MCLspServer`, `MCRpcSession`, `MCLoader`
and `MCAnalysis` give constants their values; `ParseGate` needs only a `.cfg`.

### ParseGate

`holder` and `depth` are `Holder`, `slot` the mux's slot, `stack[t]` the calls
thread `t` is inside of, each with the collector its `Activation` saved. A
step of `Gate::enter`, of `Turn`'s drop or of `Mux::restore` holds one mutex
for its whole length, so each is one action: `Call`, `Enter` or `Wait`,
`Activate`, any number of `Emit`s and nested calls, `Finish` or `Restore` (a
quiet call, or an unwinding parse), `Leave`. `SpuriousWake` is the condition
variable's licence to return unnotified. An event is named by the call whose
engine run announced it, which is all the properties tell apart.

`SerialParses` is what the code promises: no slot and no gate, every call with
a set of events of its own, only the innermost call of the one active thread
announcing. `Serial == INSTANCE SerialParses WITH ...` reads the calls and
their collectors off the stack: the innermost activation's is in the slot, an
outer one's is what the activation inside it saved.

### InstanceCache

The operations are operators on the value of `instances` (a cache and a
failure count by key), so `LspServer` uses the same definitions on its own
variable, and its run checks `ImplementsInstanceCache`. An instance is known
by the entry it was built for (and, in `LspServer`, by how often its file had
been written). A build is an outcome: an instance or none.

### Addresses, Entries, Router, RouterTiers

An address is a record of what the code tells apart: scheme, slashes, host,
the steps of the path and how each is spelled, the extension, a query. `FsPathOf`
and `ExtOf` are how documents are read, `FolderPathOf` (with `Normalized`) how
folders and changed files are. Paths are sequences of names, so containment is
`IsPrefix`; no file and no folder is `NoPath`.

An item of a manifest or of the client's languages has fields that are each
`Absent`, `Null`, `Wrong` (another type) or a value. `EntryOf` reads them as
the accessors of `Entry` do, `ReadManifestLeniently` drops a malformed
manifest whole, and `TierOf` is the tier `rebuild_registry` makes of the
host's entries, the client's and each folder's, in that order. Scopes are
ordered by length as the code does, over entries that contain the same
document: `Candidates` are the entries that may serve it, `Precedes` the order
the code's stable sort puts them in, `Foremost` what a first match in that
order finds. `TieBreak` goes through the `Claimants` of an extension or a media
type, each as often as it lists it. `RouterTiers` merges the declared entries one at a time, is
initialized once, and then takes reports of manifest changes in any spelling
of the file; between a change and its report the disk is ahead of the tier.

### LspServer

One thread runs the loop, so a handler is one action. Between the loop's steps
the clock, the files and the client move: `Expire`, `EditFile`, `EditManifest`,
`Watch`. `queue` is `pending` in deadline order (every schedule uses the same
debounce, so the newest is last), `due` how many of it have expired; `Expire`
may be late, never early. `analyze_due` takes its list once (`batch`) and then
analyzes the documents one by one, with the files changing in between.
`RunAnalysis` is a disjunction by how `run_analysis` ends; `Recovery` is what a
parse with error recovery yields, `ErrorsOf` and `InternalFailure` what the
code takes from it. `DidOpen` may also replace a document that is open, under
a new version. `shown`, `outcome`, `reports` and `missed` are history: what
the client shows, how the last analysis ended and of what text, entry and
state of the grammar file it was, which file changes the client
has still to report, and which it never will because it was not watching yet.
`ServerInv` and `FreshInv` at its end are the inductive invariants of the
proofs; the runs check the properties they hold up. `MCLspServer` has TLC
evaluate `NoneTwice`, the hypothesis of one theorem, on its entries.

### Framing and RpcSession

`Framing` turns an input, a block of header lines and a body, into what the
reader makes of it (`Heard`). A body whose length could not be read stays on
the stream (`adrift`) and runs into the next block's first line. The client
sends inputs by kind (a request, an unknown method, a body that is not JSON or
not an object, an id that is null, ...). `Left` and `Lost` say from the
inputs alone which body is still on the stream and which input it swallows. The reader appends what it heard to
`channel`, an error of the stream last; the loop takes, handles and answers.
What a handler does to the server is `LspServer`'s subject. A log line that
cannot be written is let go; an answer or a notification that cannot ends the
loop with an error.

### Loader

`build` is the one build under way and the step it is at: `Resolve`, `Stat`,
`Read`, `Spawn`, `Receive` or `Expire`, `Install`, or `LoadModule` for an
entry that names a module. Each of these is one call into the filesystem or
the channel, so `Rewrite` (a file replaced or made a link), `GrantTrust` and
`CompileEnds` fall between any two. `compiles` holds the thread of every build
and its own channel: one given up goes on, and its answer may arrive at any
later time. A text is known by its size, its runs of digits, names and the
rest, and what it gives when read as a spec or compiled: a spec, an error, a
panic, or nothing ever. A spec is known by what the firewall finds in it.
`Home` is where a folder really is, which `fs::canonicalize` finds of the
folder an entry declares (one may be a link, or not there); `Leads` follows a
chain of links from a place to a file, or to none if the chain breaks or goes
round. `held` is history: what looks at the disk since the build began would
have found, a look being a place, the file it leads to and the text in that.
In `LspServer` a build is the outcome `Made`.

### Documents, Columns, Trace, Semantic, Outline, Views, Analysis

A text is a sequence of characters known by their kind: `x` (one byte),
`accent` (two bytes, one UTF-16 unit), `astral` (four bytes, two units), `cr`,
`lf`. Offsets are in bytes, `ci` in characters, positions in the units of the
negotiated encoding. The operators are the functions of the source; recursion
is by folds and recursive functions. A sort is `InOrder`, the order of a set in
which each member stands behind as many as come before it, and a filter of the
code is `Kept` or a set: both have a definition the prover can use, which the
built-in sorts and `SelectSeq` have not.

`Analysis` puts a client beside them. `buffer` is what it shows; `Edit` picks
any two places in it, names them in the client's way (beyond the line's end
too) and applies the same change on both sides. The encoding is negotiated
from what the client offers (`Negotiated`). `Lex` announces any token of
the text at any time, since the engine takes back and repeats what it lexed;
`OpenRule` and `CloseRule` announce rules as a stack, at tokens in order. A
rule's token is any stretch of the text, over lines too, or the empty `#ZZ` at
the end of the source (`TokenFrom`).
Everything the server answers is an operator of the document and the events,
so the invariants compare it with the client's own idea of the text
(`ClientPosition`) after every event. `ClientPosition`, `Row` and `Column` are
written from the protocol's and the engine's counting, not from the server's.
`Columns` walks as the source does, with two cursors and a fallback for a
token behind either; the invariants compare its results with `Column`.

## Runs

| Run | Instance | States | Shows |
|---|---|---|---|
| `gate` | 3 threads, 2 calls each, nested 2 deep | 151,209 | turns, wake-ups, own events, empty slot, refinement of `SerialParses`, every call returns |
| `cache` | 5 entries, 4 keys, limit 3 | 6,144 | own grammar, quarantine freezes, narrow reload |
| `cache_prefix` | the same | | counterexample, see Findings |
| `cache_stack` | the same | | counterexample, see Findings |
| `router` | up to 3 declarations, 4 ways to initialize, 4 manifests in each of 2 nested folders, 5 spellings, 7 documents, 3 media types | 4,404 | the tiers are what is declared, precedence, ties, isolation |
| `server` | 1 document, 2 texts (one too large), 3 manifests, 2 file edits, limit 2 | 137,281 | all invariants, quarantine released only by reports, use of the cache |
| `server_two` | 2 documents, 1 text, 3 manifests, 1 edit, limit 1 | 621,489 | a reload or a manifest change reaches both documents of one queue |
| `server_live` | 1 document, 2 manifests, 2 edits, limit 1 | 15,841 | what is scheduled is analyzed; edits reach documents, or were tried and failed |
| `rpc` | 17 kinds of input, 3 a session | 1,591,437 | what is heard is what was sent, answers, reasons to end with their exit status, the end of the stream |
| `rpc_unanswered` | 3 kinds | | counterexample, see Findings |
| `loader` | 11 entries, 3 folders, 3 places, 6 texts, 2 builds, 1 replacement | 113,219 | bounded compiles, own file and text, vetted data, trust, every build ends |
| `analysis` | texts of up to 4 characters, both encodings, parses of 3 lex or 6 rule events | 653,166 | the texts agree; the cursor, tokens, highlights, ranges and outline are where the client shows them |

Bounds. Three threads are the fewest with two sleepers for a notify to choose
between and one thread awake to barge in; two calls each let one nest in the
other. The cache's entries differ in one thing each. Three declarations are an
entry, its override and a competitor for its extension. The router's folders
are nested and each has its manifest; its manifests hold every way an item can
be declared, good and bad, and its documents every way an address can be read
as two. In the server two edits are a change and a
change of it, before or after the first report; two versions are a text and
the text that replaces it, and closing starts again from one. `QuarantineLimit`
is 3 in the code and in `cache`; in the server runs it is 2 or 1, which
reaches quarantine, a failure short of it and its release. Three inputs are
what comes before, the one in question and what comes after.

In `loader` two builds are an abandoned compile and the build it may disturb,
and one replacement falls between any two looks at a file; each text is refused
for one reason or for none, each entry takes one lane or one way out of its
folder. One folder is itself a link to another and one is not there; a place
may hold a link to the file outside, to the other one inside, or to itself, so
that a chain of two leads out or goes round. A folder is not linked elsewhere
while the server runs, and below a folder's real place only files are links.
The caps are small numbers, each with a text within it and one beyond it
(`many` is within every count's bound and beyond the total). In `analysis` a
text of four characters has a line end between characters of different lengths.
Only the texts of `Parsed` are parsed for their tokens and those of `Ruled` for
their rules: of the latter one has a token from a first line to the middle of a
second, one a line end that starts after a character of two units, and each
ends its source on another column; and only before the index is built, which no
parse reads; three lex events are a token, one that takes its place and one
that was beside it; six rule events are three nested rules, one deeper than the
`MaxDepth` of the run. A rule that makes no symbol matches no tokens there: the
outline would not see them.

Fairness. `ParseGate`: a thread at the gate or in a call keeps running, and an
engine run ends; nothing is assumed about which waiter a notify picks or about
who gets a mutex first. `LspServer`: the loop runs (`WF` of its own steps: it
never waits on anything but input or a deadline), time passes (`WF` of
`Expire`), and a report the client sends is handled (`SF`: messages are taken
in order, so it waits only for those before it). No fairness on edits, on
requests, or on analyses ending well. `RpcSession`: both threads run.
`Loader`: the building thread runs and its budget ends (`WF` of its own steps);
nothing is assumed of the compiles, which may never end.

Deadlock is checked in every run; `Over` and `Ended` are the states in which
the program has nothing left to do.

What some properties do not say. `BuiltFromOwnText` says that the declared path
led to the file at some time during the build, and that a look at the file
found the text at some time during it: between the two the file may itself
become a link, and what is read is what is then behind it. `SettledIsFresh`
does not say that old diagnostics go when a grammar is refused. `run_analysis`
returns and leaves them (`server.rs` 676-683), and a completion that builds the
grammar later does not schedule the document (754). What it says of such a
document is that its last analysis was of the text it has, by the entry that
serves it, from the grammar file as it is (but for a change the client has not
reported), and that the failure is still on the entry's count: a change of any of these must have scheduled it.
`EditsAreReloaded` makes the same exception, and only for a failure of the
edited grammar (`TriedAndFailed`). `DiagnosticsAccounted` keeps of a parse's
errors whether there are any, so that one listed twice is shown once is not
stated. `RangesCoverTheirText` has a symbol end where the code ends it, which
is not always its last token's end: `outline` adds the token's length, or 1 if
it is empty, to the column the token starts at, so a token that goes on below
its line ends there at the end of that line or past it, and one past the end of
the source lies one past the text. A client takes a place past a line's end for
the end (`IsTakenFor`). `OutlineIsNesting` leaves out rules that their spans
cannot tell apart, since the code nests by spans (`ToldApart`). `HeardAsSent`
is about inputs that come when no body is adrift: after one, a client that
writes `Content-Length` first and only is not heard again until a block starts
with another line, although `jsonrpc.rs` 248-251 has reading go on at the next
block. `FolderIsolation` and `TiersAreDeclared` are about what is declared: an
item of a manifest that sets `_scope` itself is scoped as it says, and one of
the client's that sets `_source` is of that tier.

What the two readings of an address do not agree on is modelled as it is:
`file:/`, a remote host, a query and dot segments are read by one and not by
the other, a folder given as a bare path is not normalized, and an extension
escaped in its address is matched as it is written (`Undecoded`).

## Faulty forms

Beside some definitions stands a faulty form that no action uses, named for a
mistake (`NotifyNobody`, `KeyIsPrefix`, `RebuildKeepsOld`, ...). Put in place
of the definition, each makes the property it is listed with in `PROJECT.json`
fail in its run: no property there holds whatever the code does.

## Findings

* `cache_prefix`. `entry_prefix` holds the routing scope and not the sandbox
  folder. Two session-wide entries of different folders that agree otherwise
  share a prefix, so reloading one releases the other, although the comment
  says a key matches a prefix exactly when it was made for that entry.
* `cache_stack`. The prefix leaves out `base`, `stack` and `syncGroups`, which
  the loader composes the instance from, so two entries that differ only there
  share an instance, although the comment says entries loading different
  grammars never do.
* `rpc_unanswered`. The notification methods, `initialized` and `exit` return
  without an answer even when they carry an id, although the comment on
  `handle` says a request is always answered.

## Proofs

TLAPS proves the theorems below for every value of the constants, under the
assumptions listed after them. A name in the second column that a run checks
is in that run's configuration; the theorem says of every instance what the
run says of one.

| Theorem | Proves | Of |
|---|---|---|
| `ParseGateProofs!GateCorrect` | `GateInv` | threads take turns |
| `TypesHold`, `TurnsAreTaken`, `WakeupsArrive` | `TypeOK`, `TakesTurns`, `NoLostWakeup` | the same |
| `SlotCorrect` | `SlotInv` | where each collector is |
| `ParsesCollectTheirOwn`, `SlotIsLeftEmpty` | `CollectsOwnEvents`, `SlotEmptyWhenFree` | the same |
| `SlotsActAsCollectors` | `ImplementsSerialParses` | the mux is a collector for every call |
| `InstanceCacheProofs!CacheCorrect` | `CacheInv` | instances lie under their own keys |
| `OwnGrammarIsServed`, `QuarantineIsKept`, `ReloadReleasesOwn` | `ServesOwnGrammar`, `QuarantineFreezes`, `ReloadIsNarrow` | keys, the limit, reload |
| `RouterTiersProofs!TiersCorrect` | `TierInv` | the index and the order of the merge |
| `GlobalTierIsMerged`, `TiesAreReported` | `GlobalIsMerged`, `TiesReported` | overriding in place; who wins a tie |
| `TiersServe` | `ServedInv` | what the workspace tier is made of |
| `MostSpecific` | `MostSpecificServes`, given `GivenTidily` | which entry serves a document |
| `FoldersAreIsolated` | `FolderIsolation` | whom a folder's change may touch |
| `TiersAreAsDeclared` | `TiersAreDeclared` | the tiers are what is declared, whichever way it was reported |
| `LspServerProofs!ServerCorrect` | `ServerInv` | queue, cache, results |
| `CurrentIsServed`, `PublishedIsShown`, `StaleIsReloaded`, `QuarantineHolds` | `ServedIsCurrent`, `DiagnosticsAccounted`, `StaleIsReported`, `ReleaseNeedsReport` | the same |
| `InstancesAreACache` | `ImplementsInstanceCache` | the loop uses `InstanceCache` |
| `SettledCorrect`, `SettledShowsItsOwn` | `FreshInv`, `SettledIsFresh`, given `NoneTwice` | what a settled document's last analysis was of, and what it shows |
| `RpcSessionProofs!SessionCorrect` | `SessionInv` | from the stream to the answer |
| `InputsAreHeard`, `RequestsHaveTheirTurn`, `SessionEndsRightly` | `HeardAsSent`, `AnsweredInOrder`, `EndsForAReason` | the same |
| `LoaderProofs!LoaderCorrect` | `LoaderInv` | what a build knows of its file and text |
| `AbandonedAreBounded`, `BuildsTakeTheirOwn`, `FirewallIsPassed`, `TrustIsAsked` | `CompilesAreBounded`, `BuiltFromOwnText`, `DataIsVetted`, `ModulesArePermitted` | the same |
| `AnalysisProofs!TextsAgree` | `InSync` | edits, the line index |
| `DiagnosticsAreOnTheirText`, `CursorIsWhereItIs` | `DiagnosticsCoverTheirText`, `PlacesAreUnderstood` | places to positions and back |
| `ListKeepsContract`, `TokensAreOnTheirText` | `ReconciledIsContract`, `TokensOnTheirText` | the token list of a parse |
| `CursorIsOnItsToken` | `CursorIsUnderstood` | completion, the token under the cursor and its range |
| `RangesAreOnTheirText` | `RangesCoverTheirText` | diagnostics' and symbols' ranges; the column walk |
| `OutlineIsOfTheRules` | `OutlineIsNesting` | which symbols are listed, and inside which |

`GlobalIsMerged` is a part of `TiersAreDeclared`; `DiagnosticsCoverTheirText`
and `PlacesAreUnderstood` are parts of `RangesCoverTheirText` and
`CursorIsUnderstood`, there only looked at when nothing is being parsed, and
proved during a parse too. TLC evaluated every inductive invariant on its component's instance
before it was proved.

*Assumptions.* Each is an `ASSUME` TLC evaluates in the module's runs.
`GateAssumption`: bounds are naturals, nobody is not a thread.
`CacheAssumption`: the limit is at least 1 (the code's is 3), and no build is
the sign for none. `TiersAssumption`: declarations are sequences, extensions
and media types are lists, and the sign for no extension is not one of them.
`WorkspaceAssumption` says the same of the host's entries and of items of
manifests and of the client, and more: documents are named by addresses,
folders by `file:` addresses or bare paths (by what else a client may name a
folder the two readings do not agree), and a manifest lies in a folder's plain
path. `NameAssumption`: the value that stands for no path is not one, and a
name has a length, which is 0 for the empty name and no other.
`ServerAssumption`: finitely many documents, so that everything may be
scheduled at once; the client's and the manifests' entries are sequences; a
manifest's entries are stamped as workspace entries, which
`read_workspace_manifest` does to each; and the signs for nothing are not
values. `SessionAssumption`: a block has header lines, and one that gives a
length has a body. `LoaderAssumption`: a link leads to a place, a file has a
text, a text that gives a spec gives one of `Doc`. `AnalysisAssumption`: texts
are sequences of characters in which every `\r` is of a `\r\n` (`CrBeforeLf`).

`NoneTwice` is not an assumption of the module but a hypothesis of two
theorems: of the entries declared at one time, no two agree in all that
`entry_prefix` puts together. The comment there takes it for granted and the
code does not enforce it. Without it `SettledIsFresh` may fail: a reload
requested for one entry clears the quarantine of the other, whose documents
are not scheduled with it. `cache_prefix` and `cache_stack` show entries that
agree in this way.

`GivenTidily`, of `MostSpecific`, is one too: no folder or scope is spelled in
a roundabout way. The code orders candidates by the characters of their
scopes' paths (`registry.rs`, `resolve`), and a path with `..` in it or with a
separator doubled is longer without being deeper; the folder inside it would
lose to it. A client or a manifest may spell one so, which is why this is a
hypothesis and no assumption of the module; the instance of run `router`, whose
folders come in every other spelling, has TLC evaluate it.

*The gate.* `GateInv` is `TypeOK`, `AtTheGate`, `TakesTurns` and
`NoLostWakeup`. `TakesTurns` carries itself and the others: a thread with a
call open is the holder and does not sleep, and the depth is the length of its
stack, so when `Leave` finds depth 1 the stack it leaves is empty and the gate
may be freed. `AtTheGate` is needed for types (a call is numbered before it is
pushed). `NoLostWakeup` survives `Enter` because the gate is then not free,
`Wait` because it was not, and `Leave` because it makes a sleeper try again;
no step but `Enter`, which takes the gate, stops a thread from trying. The
proof has a step per action in each of `TypeStep`, `TurnStep`, `WakeupStep`.

*The slot.* `CollectsOwnEvents` says nothing about a call that has not
returned, so it is not inductive. `SlotInv` adds `SavedCollectors`: for every
call whose activation is in force, its collector (the slot's value for the
innermost, what the activation just inside it saved for the others) holds
exactly what its own engine run announced, and under the outermost call there
is none. By `TakesTurns` only the holder's stack is not empty, so
each action is a fact about one sequence of frames: the lemmas `SavedEnter`,
`SavedActivate`, `SavedEmit`, `SavedPutBack` and `SavedPop`, which mention no
variable. `SlotStep` applies them. The refinement has such lemmas too: what is
open on a stack (`OpenOf`) is a function of the stack and the
slot, an action does to it what one of `SerialParses`' actions says or
nothing, and by `GateInv` every other thread has nothing open.

*The cache.* `ServesOwnGrammar` looks an instance up by the entry asking;
`UnderOwnKey` says that what lies under a key was built for an entry with that
key, and the key names load, options and folder. Counts stay within the limit
because `get` leaves a quarantined key alone.

*The router.* `IsIndexed` says that `byId` and `global` are each other's
inverse, so an override in place moves nothing; `KeepsOrder` that ids stand in
the order of their first declarations; `LastWins` that an id's entry is the
last declared. `GlobalIsMerged` counts: the ids that come no later than one
are, by `KeepsOrder`, those indexed no higher, and `CountedByIndex` has them in
bijection with the positions up to its own. For ties, `IsIndexed` makes the
claimants as many as their positions (`OneOfMany`), and `FlatHasAll` says what
`FlattenSeq`, a recursive function, is made of.

`ServedInv` is what a document can be routed by: every entry of the workspace
tier has lists for its claims and a path or nothing for its scope. From it,
`AppliesWhereItIs` (for a document's address and a scope, the code's comparison
of normalized paths is containment on disk) and `ForemostIs` (what a first
match in the sorted order finds is a candidate no other precedes), with
`LongerIsDeeper`: of two tidy scopes a document is in, the longer is the
deeper. For `FolderIsolation`, an entry of a folder does not apply outside it,
so a document there is resolved among the others (`ElsewhereServes`), and
taking entries away that do not apply leaves the foremost where it was
(`ForemostInPart`). `TakenInv` is what `TiersAreDeclared` needs while the disk
is ahead: the tier is the one made of some earlier disk, which is the present
one in every folder whose change has been reported. `ReportIsHeard` shows that
every spelling of a manifest's file is recognized.

*The server.* `ServerInv` is proved in three parts that use one another's
previous state. `QueueSide`: the queue holds open documents, each once, and the
batch is a prefix of what is due. `CacheSide`: instances lie under their own
keys (`UnderOwnKey`), are built for declared entries, and are stale only as
`StaleIsReported` says; `WritesAreEdits` keeps a build from being ahead of its
file. `ResultSide`: `ServedIsCurrent` compares texts but the code compares
versions, so it needs `NeverAhead`, that an analysis is never of a later
version and of the same version only if it is of the same text;
`DiagnosticsAccounted` is inductive with the types. `CacheMoves` maps each of
the loop's actions to an action of `InstanceCache` or to a stutter.

`SettledIsFresh` is about a document no step need touch: what another
document's analysis, a completion, a reload or a manifest change does must
either leave its route, its grammar file, its entry's count if that explains
what it shows, and a quarantine as they are, or schedule it. A completion may
build what an analysis was refused: that takes nothing off the count and
schedules nobody.
`RunAnalysis` establishes it (`AnalysisIsFresh`); the lemmas `SparesIfTold`,
`SparesIfUsed` and `EditSpares` say of each other step that it spares every
document it does not schedule; `FreshKept` concludes. It takes `RoutesExplain`
because a document may open before the client has initialized.

*The session.* The index of an input ties the parts together. `InChannel`: the
channel holds the indices read and not taken, and an error last; `LeftOver`:
`adrift` is what `Left` says of the inputs read, from which `HeardAsSent`;
`StopsAtEnd`, `ErrorEnds` and `Told`: how the reader stops and when the loop
knows of a shutdown, from which `EndsForAReason`.

*The loader.* The text a build has read may no longer be on the disk, and the
answer on its channel may be late. `HoldsItsText` carries what remains known
from look to look: the file is in the entry's folder and where its declared
path led in one look of `held`, the text is what another look found in that
file, is within the caps, is what the
build's own compile compiles, and gives the spec that will be installed.
`KeepsToLane` says which steps an entry's lane has.

*The document.* `Kept` is inductive: the document's text is the buffer, no `\r`
of it stands alone (an edit may not part a `\r\n`, see `Stops`), and an index,
if there is one, is that text's. An edit keeps it because a place is taken for
what it is, however it is named: `OffsetOfPlace`. That rests on the index
(`IndexOfPlace`: the line of a place starts after the line end before it, and
no later line starts as early), on the span of a line, whose end the place may
not be beyond and is at if the line is (`SpanOfPlace`), and on lengths that
grow with every character (`UnitsGrow`, `UnitsOfPart`, `CharsAtBytes`).
`PositionOfPlace` and `SiteOfPlace` are the ways back.

*The token list.* `ParsedInv` adds that each event is a token of the text,
reported where it begins or where it ends. `AnchorPuts` puts it on its text:
if it was reported late its text is not also where it was reported, or what
is there is that text again. The reconciliation keeps disjoint intervals for
the claims (`Apart`); `ShadowedIsCovered` and `ClaimCovers` show that a lookup
of the last one at or before an offset answers whether any claim covers it, and
`SiftedAre` that what is covered is what the tokens kept so far span, from
which the contract's own recursion keeps the same ones (`TheKeptAre`).
`RanksOrder` is the sort. Because spans are apart, no two tokens begin at one
offset, so the order is one.

*The ranges.* `RuledInv` adds that a rule's event carries a stretch of the text,
or none. `ColumnsAreCounted` is about the walk of
`Columns`, and of nothing else: whatever the tokens and the order they come in,
each gets the column it would get by itself, because a cursor always holds the
length before it and moves only forwards. Then a symbol's places are their
tokens' (`SlotsArePlaced`). For the end of the last: on one line, as many units
on as the token is long is where it ends; over lines, the token's length is at
least that of its part on the first, so its end is that line's end as the client
takes it (`EndIsOnLine`, `RunIsTakenToItsEnd`).

*The outline.* `OutlineIsNesting` says nothing of rules still open, so it is
not inductive. `NestedInv` is: rules are numbered as they open (`Numbered`),
close once, under their names, and innermost first (`Matched`), their tokens
come in the order of the text (`Passes`), a forced close has none, and the next
token comes no earlier than the cursor. `NestingIsKept` has a step per event.
`ClosedAreSymbols` says that a rule that opened on a token and closed on one or
was forced is a symbol, once, and no other is; `SpanEnds` of what stretch: from the token it opened on to the one it closed on, or to
nowhere if it was forced.
`SpansTellNesting`: of two that `ToldApart` sets apart, one encloses the other
by spans exactly if it was open around it. `SortedVisits` is the sort, and
`WalkKeeps` an induction over the visits: everything listed that encloses a
symbol still to come is on the stack, each inside the one below, so popping
what does not enclose a symbol leaves what does, and the limit on depth leaves
out exactly those with too much around them (`DeepInShallow`).

A lone `\r` is where this would end: the code takes one that ends
the text for part of a line's end, so a client that shows it as content cannot
name the place after it (`documents.rs` 430-434 tests both).

Recursive functions (`UnitsTo`, `LineStarts`, the walks of `Columns`, `Trace`
and `Outline`, `Without` in `LspServer`, `FlattenSeq`) are reasoned about by
induction told with sets: `Induction`, a set of naturals that has 0 and
every successor has all, follows from the well-foundedness of `<`. That there
is such a function at all is `Recursion`. A fold of the community modules is
one too, told of the operator it is used with (`FoldIsDefined`).

## Only model-checked

* Liveness and the temporal properties under fairness (`CallsReturn`,
  `ScheduledIsAnalyzed`, `EditsAreReloaded`, `EndOfStreamEndsServer`,
  `BuildsEnd`): out of the prover's reach.
* `HighlightsAreTokens`. It is not true for every value of the constants: the
  end of source is a token without text, and a host's override that colours
  `#ZZ` would have it highlighted with a length of 1 that is no piece of a
  line. No type the instance gives colours it; the code's own tables do not
  either.

## Not modelled, and why

* The engine: a dependency. Its parse is an outcome and the events it
  announces.
* In the loader: building without a compile budget (a host's choice), linking
  modules after the start, the fleet's tables, and the scan that turns a text
  into digits, names and the rest.
* In the documents: `position_from_engine` (used by hosts only) and a lone
  `\r`, which the code's own comment sets apart. In the semantic tokens, the
  32-bit limits of the wire. In the views, labels and kinds of items, and
  whether a highlight is `partial`.
* In the addresses: drive letters and UNC roots, and the parsing of an escape
  (`percent_decode` takes what Rust's number parser takes, `%+5` too).
* In the framing: a `Content-Length` that is not its body's length.
* Between modules: `LspServer` takes a build and an analysis as outcomes;
  `Loader` and `Analysis` say what those outcomes may be. A parse stopped at
  its deadline is one that ends in an error.
* A client that opens a document it has open, under the version it has:
  `didOpen` then keeps the old analysis (see the hazards).
* The TypeScript server: the same handlers on one event loop, with a timer per
  document, no size limit, no parse deadline and no choice of encoding. It
  differs in what a settled document shows: one that loses its route keeps its
  diagnostics, and entries that differ only in `load` share an instance. Its
  `offsetAt` is not clamped to the line.
* The Go server: one goroutine, each change analyzed as it is handled, keyed by
  language id, without folders or reload. It has no interleaving to check.
* Generators, editors, CI: batch programs and files.

## Plan

Done, in this order: `ParseGate` with its abstract specification and proofs,
`InstanceCache`, `Router`, `LspServer`, `RpcSession`, `Loader`, then
`Documents`, `Trace`, `Semantic` and `Outline` under `Analysis`; then
`Addresses` and `Entries` under `RouterTiers`, `Framing` under `RpcSession`,
`Columns` and `Views` under `Analysis`, and in `LspServer` the forms of error
recovery and reopened documents. Then the proofs: the refinement of
`SerialParses`; `InstanceCache`, `Loader`, `LspServer` (its invariants, its use
of the cache, what a settled document shows), `RpcSession`, the router's merge
and ties, which entry serves and what the tiers hold, and in `Analysis` the
text, the places on it, the token list, the ranges and the outline.

Left: a proof of `HighlightsAreTokens` for grammars that leave the end of
source uncoloured, by induction on the pieces of a token, on its tokens and on
the delta encoding.
