---------------------------- MODULE RouterTiers ----------------------------
(* The life of a router: Router::new merges the global entries one by one,  *)
(* initialize builds the workspace tier of what the client opens, and every *)
(* reported change of a manifest builds it again.                           *)
EXTENDS Router, Entries, FiniteSets

CONSTANTS
    Doc,            \* the documents that may be routed
    Media,          \* the media types a host may know
    Declarations,   \* the bundled-then-user sequences a router may start from
    Host,           \* config.workspace_entries
    Setups,         \* what a client initializes with: [opened, root, languages]
    Folder,         \* the folders that have a manifest, by their paths
    Contents,       \* what a manifest may be
    Spelling,       \* how the client may spell a file it reports
    MaxEdits        \* bound: manifests edited and not yet reported

(* Every entry that may be declared.                                        *)
Given == UNION {Range(s) : s \in Declarations}

ASSUME TiersAssumption ==
    /\ \A s \in Declarations : s \in Seq(Given)
    /\ \A e \in Given : /\ e.exts \in Seq(Range(e.exts)) /\ e.media \in Seq(Range(e.media))
                        /\ NoExt \notin Range(e.exts)

ManifestName == <<".tabnas", "lsp.json">>

(* What a workspace entry has to be for a document to be routed by it, and  *)
(* an item for an entry to be made of it.                                   *)
IsServed(e) ==
    /\ e.exts \in Seq(Range(e.exts)) /\ NoExt \notin Range(e.exts)
    /\ ScopeOf(e) \in Path \cup {NoPath}

IsItem(item) ==
    item # Wrong => /\ DOMAIN item = {"name", "languageId", "extensions", "mediaTypes", "pluginKind",
                                      "enabled", "load", "source", "dir", "scope"}
                    /\ {item.dir, item.scope} \subseteq Path \cup {Absent, Null, Wrong}
                    /\ \/ item.extensions \in {Absent, Null, Wrong}
                       \/ /\ item.extensions \in Seq(Range(item.extensions))
                          /\ NoExt \notin Range(item.extensions)

(* A folder is opened by a file: address or by its path, which has no host, *)
(* and nothing escaped in it.                                               *)
IsFolderAddress(uri) ==
    /\ IsAddress(uri)
    /\ \/ uri.scheme = "file"
       \/ /\ uri.scheme = "" /\ uri.host = "" /\ uri.steps # <<>>
          /\ \A i \in DOMAIN uri.steps : uri.steps[i].as \notin {"joined", "broken"}

ASSUME WorkspaceAssumption ==
    /\ Absent # Null /\ \A value \in {Absent, Null, Wrong} : value \notin Path
    /\ Cwd \in Path /\ Range(ManifestName) \subseteq Name
    /\ \A doc \in Doc : IsAddress(doc.uri)
    /\ Host \in Seq(Range(Host)) /\ \A e \in Range(Host) : IsServed(e)
    /\ \A given \in Setups :
          /\ given.opened \in Seq(Range(given.opened)) /\ given.languages \in Seq(Range(given.languages))
          /\ \A uri \in Range(given.opened) : IsFolderAddress(uri)
          /\ given.root = Absent \/ IsFolderAddress(given.root)
          /\ \A item \in Range(given.languages) : IsItem(item)
    /\ \A content \in Contents :
          /\ content.languages \in Seq(Range(content.languages))
          /\ \A item \in Range(content.languages) : IsItem(item)
    /\ \A folder \in Folder : folder \in Path /\ Normalized(folder) = folder

VARIABLES
    declared,       \* the entries merged so far
    incoming,       \* those still to merge
    setup,          \* what the client initialized with, Absent before it did
    folders,        \* Server.workspace_folders
    client,         \* Server.init_languages
    manifests,      \* the manifests on disk
    unreported      \* the folders whose manifests changed since they were reported

session == <<setup, folders, client>>
vars    == <<tiers, declared, incoming, session, manifests, unreported>>

Init ==
    /\ global = <<>>
    /\ byId = [id \in {} |-> 0]
    /\ workspace = Host
    /\ declared = <<>>
    /\ incoming \in Declarations
    /\ setup = Absent /\ folders = <<>> /\ client = <<>>
    /\ manifests \in [Folder -> Contents]
    /\ unreported = {}

(* One turn of Router::new's loop.                                          *)
Merge ==
    /\ incoming # <<>>
    /\ PutGlobal(Head(incoming))
    /\ declared' = Append(declared, Head(incoming))
    /\ incoming' = Tail(incoming)
    /\ UNCHANGED <<workspace, session, manifests, unreported>>

Initialize ==
    /\ incoming = <<>> /\ setup = Absent
    /\ setup' \in Setups
    /\ folders' = WorkspaceFolders(setup'.opened, setup'.root)
    /\ client' = InitEntries(setup'.languages, folders')
    /\ workspace' = TierOf(Host, client', folders', manifests)
    /\ UNCHANGED <<global, byId, declared, incoming, manifests, unreported>>

(* An editor writes a manifest, and the client tells of it when it may.     *)
EditManifest(folder, content) ==
    /\ setup # Absent
    /\ Cardinality(unreported) < MaxEdits
    /\ content # manifests[folder]
    /\ manifests' = [manifests EXCEPT ![folder] = content]
    /\ unreported' = unreported \cup {folder}
    /\ UNCHANGED <<tiers, declared, incoming, session>>

Spelled(path, how) ==
    [scheme  |-> IF how = "bare" THEN "" ELSE "file",
     slashes |-> how # "short",
     host    |-> IF how = "local" THEN "localhost" ELSE "",
     steps   |-> [i \in DOMAIN path |->
                     [name |-> path[i], as |-> IF how = "escaped" THEN "escaped" ELSE "plain"]],
     ext     |-> [name |-> "json", as |-> "plain"],
     tail    |-> ""]

(* did_change_watched_files: only a manifest changes the routing.           *)
Report(folder, how) ==
    /\ folder \in unreported
    /\ LET changed == FolderPathOf(Spelled(folder \o ManifestName, how))
           isManifest == \E i \in DOMAIN folders :
                            Normalized(folders[i] \o ManifestName) = Normalized(changed)
       IN  workspace' = IF changed # NoPath /\ isManifest
                        THEN TierOf(Host, client, folders, manifests) ELSE workspace
    /\ unreported' = unreported \ {folder}
    /\ UNCHANGED <<global, byId, declared, incoming, session, manifests>>

Next ==
    \/ Merge \/ Initialize
    \/ \E folder \in Folder :
          \/ \E content \in Contents : EditManifest(folder, content)
          \/ \E how \in Spelling : Report(folder, how)

Spec == Init /\ [][Next]_vars
----------------------------------------------------------------------------
(* The global tier has one entry per language id, the last one declared, at *)
(* the place of the first: a user entry overrides a bundled one without     *)
(* changing which entry an extension tie names first, and the index finds   *)
(* every entry where it is.                                                 *)
GlobalIsMerged ==
    LET FirstOf(id) == CHOOSE i \in DOMAIN declared : declared[i].id = id
                          /\ \A j \in 1..(i - 1) : declared[j].id # id
        LastOf(id)  == CHOOSE i \in DOMAIN declared : declared[i].id = id
                          /\ \A j \in (i + 1)..Len(declared) : declared[j].id # id
        Spot(id)  == Cardinality({other \in DOMAIN byId : FirstOf(other) <= FirstOf(id)})
    IN  /\ Len(global) = Cardinality(DOMAIN byId)
        /\ \A id \in DOMAIN byId : /\ byId[id] = Spot(id)
                                   /\ global[Spot(id)] = declared[LastOf(id)]

(* The folders the client has open, by what its addresses mean.             *)
Opened ==
    LET named == {Place(setup.opened[i]) : i \in DOMAIN setup.opened} \ {NoPath}
    IN  IF named # {} \/ setup.root = Absent THEN named ELSE {Place(setup.root)} \ {NoPath}

(* What a manifest declares, if nothing in it is malformed: whatever it     *)
(* says of where an item is from.                                           *)
DeclaredIn(manifest) ==
    IF manifest.is = "list" /\ \A item \in Range(manifest.languages) :
          item # Wrong /\ IsEntry([item EXCEPT !.source = "workspace", !.dir = <<>>])
    THEN {[id |-> EntryOf(item).id, exts |-> EntryOf(item).exts] : item \in Range(manifest.languages)}
    ELSE {}

(* Once a manifest's last change is reported, however the client spells the *)
(* folder and the file, what the tier has of the folder is what the         *)
(* manifest declares: all of it, or nothing if any of it is malformed, and  *)
(* whatever the manifests of other folders are.                             *)
ManifestsAreTaken ==
    setup # Absent => \A folder \in Folder \ unreported :
        LET own == {i \in (Len(Host) + Len(client) + 1)..Len(workspace) :
                       Normalized(workspace[i].dir) = folder}
        IN  {[id |-> workspace[i].id, exts |-> workspace[i].exts] : i \in own} =
                IF folder \in Opened THEN DeclaredIn(manifests[folder]) ELSE {}

(* Both tiers are what has been declared.                                   *)
TiersAreDeclared == GlobalIsMerged /\ ManifestsAreTaken

UsualDoc == {doc \in Doc : IsUsual(doc.uri)}

(* Where an entry applies and a document is, whatever their spelling.       *)
AppliesAt(e, uri) ==
    \/ ScopeOf(e) = NoPath
    \/ Place(uri) # NoPath /\ IsPrefix(Normalized(ScopeOf(e)), Place(uri))

Depth(e) == IF ScopeOf(e) = NoPath THEN 0 ELSE 1 + Len(Normalized(ScopeOf(e)))

(* The workspace entry that serves a document is one whose folder the       *)
(* document is in on disk, and no other that fits as well is of a deeper    *)
(* folder; a fit by language id beats any by extension; the global tier is  *)
(* asked only when no workspace entry fits.                                 *)
Fits(doc, here) ==
    LET named == {e \in here : e.id = doc.id}
    IN  IF named # {} THEN named ELSE {e \in here : doc.uri.ext.name \in Range(e.exts)}

IsBest(r, fits) ==
    IF fits = {} THEN r.via \notin {"workspace-languageId", "workspace-extension"}
    ELSE r.entry \in fits /\ \A e \in fits : Depth(e) <= Depth(r.entry)

MostSpecificServes ==
    \A doc \in UsualDoc :
        IsBest(Resolve(doc),
               Fits(doc, {e \in Range(workspace) : e.routable /\ AppliesAt(e, doc.uri)}))

(* What every state needs for it, and the theorem about it assumes: that no *)
(* folder is spelled in a roundabout way.  Candidates are ordered by the    *)
(* characters of their folders, and a way round is longer than it is deep.  *)
IsTidyScope(path) == path = NoPath \/ IsTidy(path)

GivenTidily ==
    /\ \A e \in Range(Host) : IsTidyScope(ScopeOf(e))
    /\ \A given \in Setups :
          /\ \A uri \in Range(given.opened) : IsTidyScope(FolderPathOf(uri))
          /\ given.root = Absent \/ IsTidyScope(FolderPathOf(given.root))
    /\ \A content \in Contents : \A item \in Range(content.languages) :
          item = Wrong \/ item.scope \in {Absent, Null, Wrong} \/ IsTidy(item.scope)

(* Whatever a folder's entries become, unless they choose a scope of their  *)
(* own, a document outside the folder is served as it was.                  *)
Outside(folder) ==
    {doc \in UsualDoc : ~(Place(doc.uri) # NoPath /\ IsPrefix(folder, Place(doc.uri)))}

Elsewhere(tier, folder) ==
    Kept(tier, {i \in DOMAIN tier : ~(/\ tier[i].scope.kind = "dir" /\ tier[i].dir # NoPath
                                     /\ Normalized(tier[i].dir) = folder)})

FolderIsolation ==
    [][UNCHANGED <<global, byId>> => \A folder \in Folder :
          Elsewhere(workspace', folder) = Elsewhere(workspace, folder)
              => \A doc \in Outside(folder) : Resolve(doc)' = Resolve(doc)]_workspace

(* A tie, by extension or by media type, is reported with every claimant    *)
(* exactly when more than one enabled global entry makes the claim; the     *)
(* first declared wins it, and an entry found any other way is never        *)
(* ambiguous.  A media type is asked only for a document nothing claims.    *)
Claiming(field, wanted) == {e \in Range(global) : e.routable /\ Claims(e, field, wanted) > 0}

NamesAll(r, claimants) ==
    /\ r.entry \in claimants
    /\ \A e \in claimants : byId[r.entry.id] <= byId[e.id]
    /\ ToSet(r.ambiguous) = IF Cardinality(claimants) > 1 THEN {e.id : e \in claimants} ELSE {}

IsReported(r, byExt, byMedia) ==
    CASE r.via = "extension" -> NamesAll(r, byExt)
      [] r.via = "mediaType" -> byExt = {} /\ NamesAll(r, byMedia)
      [] OTHER -> r.ambiguous = <<>> /\ (r.via = "none" => byExt \cup byMedia = {})

TiesReported ==
    \A doc \in Doc, type \in Media :
        IsReported(ResolveWithMediaType(doc, type), Claiming("exts", ExtOf(doc.uri)),
                   IF type.essence = "" THEN {} ELSE Claiming("media", type.essence))
----------------------------------------------------------------------------
(* What makes GlobalIsMerged inductive, and TiesReported provable: the      *)
(* index is of the tier it is kept for, one entry an id; ids stand in it as *)
(* they were first declared, and for each the entry it was declared as      *)
(* last.                                                                    *)
IsIndexed ==
    /\ global \in Seq(Given) /\ declared \in Seq(Given) /\ incoming \in Seq(Given)
    /\ DOMAIN byId = {declared[i].id : i \in DOMAIN declared}
    /\ \A id \in DOMAIN byId : byId[id] \in DOMAIN global
    /\ \A i \in DOMAIN global : global[i].id \in DOMAIN byId /\ byId[global[i].id] = i
    /\ \A id \in DOMAIN byId : global[byId[id]].id = id

IsFirst(i) == \A j \in 1..(i - 1) : declared[j].id # declared[i].id
IsLast(i)  == \A j \in (i + 1)..Len(declared) : declared[j].id # declared[i].id

KeepsOrder ==
    \A i, j \in DOMAIN declared :
        IsFirst(i) /\ IsFirst(j) /\ i < j => byId[declared[i].id] < byId[declared[j].id]

LastWins == \A i \in DOMAIN declared : IsLast(i) => global[byId[declared[i].id]] = declared[i]

TierInv == IsIndexed /\ KeepsOrder /\ LastWins
============================================================================
