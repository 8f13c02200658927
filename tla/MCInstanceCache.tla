-------------------------- MODULE MCInstanceCache --------------------------
(* InstanceCache over entries of one language id that differ in one thing   *)
(* each: the file, the routing scope, the sandbox folder, the plugin stack. *)
EXTENDS InstanceCache

FolderA == <<"/", "a">>
FolderB == <<"/", "b">>

Declared(load, layers, kind, dir) ==
    [id |-> "dsl", options |-> "none", load |-> load, layers |-> layers,
     scope |-> [kind |-> kind, folder |-> <<>>], dir |-> dir,
     exts |-> {}, routable |-> TRUE, workspace |-> TRUE]

MCNoPath == <<>>
MCEntry  == { Declared("g", "none", "dir", FolderA),
              Declared("h", "none", "dir", FolderB),
              Declared("g", "none", "session", FolderA),
              Declared("g", "none", "session", FolderB),
              Declared("g", "other", "dir", FolderA) }
MCBuild  == [entry : MCEntry]
============================================================================
