------------------------------ MODULE Entries ------------------------------
(* The workspace tier as it is declared: the JSON of a manifest or of the   *)
(* client's languages read into entries (Entry, Load and Scope of           *)
(* rs/src/types.rs), and the tier the server builds of them (initialize,    *)
(* rebuild_registry and read_workspace_manifest of rs/src/server.rs).       *)
(*                                                                          *)
(* An item is Wrong, no object at all, or the fields it is declared with,   *)
(* each Absent, Null, Wrong (a value of another type) or its value.  A name *)
(* is <<"@tabnas/", base>> or <<base>>; a media type [essence, parameters]. *)
EXTENDS Addresses

CONSTANTS
    Absent, Null, Wrong,
    Cwd         \* the directory the server runs in

Silent(value) == value \in {Absent, Null}

Declared(value, default) == IF Silent(value) \/ value = "" THEN default ELSE value
ListOf(value)            == IF Silent(value) THEN <<>> ELSE value

(* Load::from_value: the lane of a load object, [spec, grammar, module].    *)
LaneOf(load) ==
    IF load = Wrong THEN Wrong
    ELSE IF ~Silent(load.spec)    THEN [lane |-> "spec", of |-> load.spec]
    ELSE IF load.grammar = Wrong  THEN Wrong
    ELSE IF ~Silent(load.grammar) THEN [lane |-> "grammar", of |-> load.grammar]
    ELSE IF load.module = Wrong   THEN Wrong
    ELSE [lane |-> "module", of |-> IF Silent(load.module) THEN <<"">> ELSE load.module]

(* Whether the fields have the types of the registry's.                     *)
IsEntry(fields) ==
    /\ \A f \in DOMAIN fields : fields[f] # Wrong
    /\ fields.source # Null
    /\ Silent(fields.load) \/ LaneOf(fields.load) # Wrong

(* Entry, as its accessors read it.                                         *)
EntryOf(fields) ==
    LET name == IF Silent(fields.name) THEN <<"">> ELSE fields.name IN
    [id        |-> Declared(fields.languageId, Last(name)),
     exts      |-> ListOf(fields.extensions),
     media     |-> ListOf(fields.mediaTypes),
     routable  |-> fields.enabled # FALSE /\ Declared(fields.pluginKind, "grammar") # "modifier",
     load      |-> IF Silent(fields.load) THEN [lane |-> "module", of |-> name]
                   ELSE LaneOf(fields.load),
     workspace |-> fields.source = "workspace",
     dir       |-> IF Silent(fields.dir) THEN NoPath ELSE fields.dir,
     scope     |-> IF fields.scope = Absent    THEN [kind |-> "dir", folder |-> NoPath]
                   ELSE IF fields.scope = Null THEN [kind |-> "session", folder |-> NoPath]
                   ELSE [kind |-> "folder", folder |-> fields.scope]]

(* read_workspace_manifest, of a manifest [is, languages]: "list" if it can *)
(* be read and has a list of languages.  One that is malformed, in whatever *)
(* item, is ignored whole.                                                  *)
Stamped(item, folder) ==
    IF item = Wrong THEN Wrong ELSE [item EXCEPT !.source = "workspace", !.dir = folder]

ReadManifestLeniently(folder, manifest) ==
    LET items   == IF manifest.is = "list" THEN manifest.languages ELSE <<>>
        good == Kept([i \in DOMAIN items |-> Stamped(items[i], folder)],
                     {i \in DOMAIN items : items[i] # Wrong /\ IsEntry(Stamped(items[i], folder))})
    IN  [i \in DOMAIN good |-> EntryOf(good[i])]

ReadManifest(folder, manifest) ==
    LET items   == IF manifest.is = "list" THEN manifest.languages ELSE <<>>
        stamped == [i \in DOMAIN items |-> Stamped(items[i], folder)]
    IN  IF \A i \in DOMAIN items : items[i] # Wrong /\ IsEntry(stamped[i])
        THEN [i \in DOMAIN items |-> EntryOf(stamped[i])] ELSE <<>>

(* initialize: the folders the client opens, else its root.                 *)
WorkspaceFolders(opened, root) ==
    LET paths   == [i \in DOMAIN opened |-> FolderPathOf(opened[i])]
        folders == Kept(paths, {i \in DOMAIN paths : paths[i] # NoPath})
    IN  IF folders # <<>> THEN folders
        ELSE IF root = Absent \/ FolderPathOf(root) = NoPath THEN <<>> ELSE <<FolderPathOf(root)>>

(* init_language_entry: what an item says of itself wins, but everywhere is *)
(* where it is routed.  One that is malformed is ignored.                   *)
InitEntries(items, folders) ==
    LET dir == IF folders = <<>> THEN Cwd ELSE folders[1]
        Own(value, stamp) == IF value = Absent THEN stamp ELSE value
        stamped == [i \in DOMAIN items |->
                       IF items[i] = Wrong THEN Wrong
                       ELSE [items[i] EXCEPT !.source = Own(@, "workspace"), !.dir = Own(@, dir),
                                             !.scope = Null]]
        good == Kept(stamped, {i \in DOMAIN items : items[i] # Wrong /\ IsEntry(stamped[i])})
    IN  [i \in DOMAIN good |-> EntryOf(good[i])]

(* rebuild_registry: the host's entries, the client's, and each folder's as *)
(* its manifest declares them now.                                          *)
TierOf(host, client, folders, manifests) ==
    LET Of(folder) == IF Normalized(folder) \in DOMAIN manifests
                      THEN ReadManifest(folder, manifests[Normalized(folder)]) ELSE <<>>
    IN  host \o client \o FlattenSeq([i \in DOMAIN folders |-> Of(folders[i])])
============================================================================
