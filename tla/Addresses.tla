----------------------------- MODULE Addresses -----------------------------
(* The addresses a client uses, and the two readings the program has of     *)
(* them: fs_path_of and ext_of of rs/src/registry.rs for the documents it   *)
(* routes, folder_path_of of rs/src/server.rs for folders and changed files.*)
(* On POSIX: drive letters and UNC roots are left out.                      *)
(*                                                                          *)
(* An address is [scheme, slashes, host, steps, ext, tail]: the scheme, ""  *)
(* for a bare path; whether // follows it; the host; the steps of the path, *)
(* each a name and how it is spelled; the extension, and how it is spelled; *)
(* and what follows the path, a query or a fragment.  Spelled "plain",      *)
(* "upper" (in capitals), "escaped" (with escapes in it), "joined" (after   *)
(* an escaped separator), "broken" (an escape that is none).                *)
(*                                                                          *)
(* A path is the sequence of its names, "", "." and ".." among them.        *)
EXTENDS Naturals, Sequences, SequencesExt

CONSTANTS
    Name,       \* the names paths are made of
    NoPath,     \* an address that names no file; an entry that has no folder
    NoExt       \* an address without an extension

Path == Seq(Name)

ASSUME NameAssumption ==
    /\ NoPath \notin Path
    /\ \A name \in Name : Len(name) \in Nat /\ (Len(name) = 0 <=> name = "")

IsAddress(uri) ==
    uri.steps \in Seq(Range(uri.steps)) /\ \A i \in DOMAIN uri.steps : uri.steps[i].name \in Name

(* The elements of a sequence at some of its places, in their order.        *)
Kept(s, places) ==
    LET kept[n \in 0..Len(s)] ==
            IF n = 0 THEN <<>>
            ELSE IF n \in places THEN Append(kept[n - 1], s[n]) ELSE kept[n - 1]
    IN  kept[Len(s)]

Names(uri) == [i \in DOMAIN uri.steps |-> uri.steps[i].name]

Has(uri, how) == \E i \in DOMAIN uri.steps : uri.steps[i].as = how

(* fs_path_of: any host, and a query as part of the last name.              *)
FsPathOf(uri) ==
    IF uri.scheme # "file" \/ ~uri.slashes \/ uri.steps = <<>> \/ Has(uri, "broken") THEN NoPath
    ELSE [Names(uri) EXCEPT ![Len(uri.steps)] = IF uri.tail = "" THEN @ ELSE @ \o uri.tail]

(* ext_of, of the address as it is spelled: in lower case, not decoded.     *)
Undecoded == "undecoded"

ExtOf(uri) ==
    IF uri.ext.name # NoExt /\ (uri.ext.as = "escaped" \/ uri.tail # "")
    THEN Undecoded ELSE uri.ext.name

(* contains: the folder may be spelled with separators after it.            *)
Trimmed(path) ==
    LET n == SelectLastInSeq(path, LAMBDA name : name # "") IN SubSeq(path, 1, n)

Inside(folder, path) == path # NoPath /\ IsPrefix(Trimmed(folder), path)

(* js_length of a path.                                                     *)
Length(path) == FoldLeft(LAMBDA sum, name : sum + 1 + Len(name), 0, path)

(* normalize: lexically, of an absolute path.                               *)
Normalized(path) ==
    LET Step(out, name) ==
            CASE name \in {"", "."} -> out
              [] name = ".."        -> IF out = <<>> THEN out ELSE Front(out)
              [] OTHER              -> Append(out, name)
    IN  FoldLeft(Step, <<>>, path)

(* folder_path_of: what is no file: address is a path as it stands.         *)
FolderPathOf(uri) ==
    CASE uri.scheme = ""                 -> IF uri.steps = <<>> THEN NoPath ELSE Names(uri)
      [] uri.scheme \notin {"", "file"}  -> <<uri.scheme>> \o Names(uri)
      [] uri.scheme = "file"             ->
            IF uri.host \notin {"", "localhost"} \/ Has(uri, "joined") \/ Has(uri, "broken")
            THEN NoPath ELSE Normalized(Names(uri))
----------------------------------------------------------------------------
(* What an address means, whoever reads it: the file it names, if any.      *)
Place(uri) ==
    IF uri.scheme \notin {"file", ""} \/ uri.host \notin {"", "localhost"}
       \/ Has(uri, "joined") \/ Has(uri, "broken")
    THEN NoPath ELSE Normalized(Names(uri))

(* The addresses editors make of the files they have open: no host or this  *)
(* one, no step that is none, escapes or not but in the extension, which    *)
(* ext_of does not decode.                                                  *)
IsUsual(uri) ==
    /\ uri.scheme # "" /\ uri.tail = "" /\ uri.ext.as # "escaped"
    /\ uri.scheme = "file" => /\ uri.slashes /\ uri.host \in {"", "localhost"} /\ uri.steps # <<>>
                              /\ \A i \in DOMAIN uri.steps :
                                    /\ uri.steps[i].as \in {"plain", "escaped"}
                                    /\ uri.steps[i].name \notin {"", ".", ".."}

(* A folder spelled as it is on disk but for a separator at the end.        *)
IsTidy(path) == \A k \in DOMAIN path : path[k] \notin {".", ".."} /\ (path[k] = "" => k = Len(path))
============================================================================
