------------------------------ MODULE Router -------------------------------
(* The router of rs/src/registry.rs: a global tier keyed by language id,    *)
(* bundled entries overridden by user ones, and a workspace tier of entries *)
(* scoped to a folder or to none; and the order in which a document's       *)
(* language id and extension are tried against them.                        *)
(*                                                                          *)
(* An entry is a record with at least [id, exts, media, routable, scope,    *)
(* dir], its extensions and media types in the order declared; a document   *)
(* is [id, uri].                                                            *)
(*                                                                          *)
(* Next to some definitions stands a faulty form no action uses, named for  *)
(* the mistake: what the properties below are there to catch.               *)
EXTENDS Addresses, FiniteSets

CONSTANTS
    NoEntry         \* Resolution.entry = None

VARIABLES
    global,         \* Router.global, in first-declared order
    byId,           \* Router.by_id: language id -> position in global
    workspace       \* Router.workspace, in the order given

tiers == <<global, byId, workspace>>

(* scope_of: where an entry applies, NoPath for everywhere.                 *)
ScopeOf(e) ==
    CASE e.scope.kind = "dir"     -> e.dir
      [] e.scope.kind = "session" -> NoPath
      [] OTHER                    -> e.scope.folder

(* put_global: an entry with a known language id takes the old one's place. *)
PutFirstWins(e) ==
    IF e.id \in DOMAIN byId
    THEN UNCHANGED <<global, byId>>
    ELSE /\ global' = Append(global, e)
         /\ byId' = [id \in DOMAIN byId \cup {e.id} |->
                        IF id = e.id THEN Len(global) + 1 ELSE byId[id]]

PutGlobal(e) ==
    IF e.id \in DOMAIN byId
    THEN /\ global' = [global EXCEPT ![byId[e.id]] = e]
         /\ byId' = byId
    ELSE /\ global' = Append(global, e)
         /\ byId' = [id \in DOMAIN byId \cup {e.id} |->
                        IF id = e.id THEN Len(global) + 1 ELSE byId[id]]
----------------------------------------------------------------------------
(* Router::resolve.                                                         *)

Found(e, via)  == [entry |-> e, via |-> via, ambiguous |-> <<>>]
NotFound       == [entry |-> NoEntry, via |-> "none", ambiguous |-> <<>>]
Routable(e)    == e.routable

(* The workspace entries that may serve a document: those of the folders it *)
(* is in, and those of no folder.                                           *)
AppliesAnywhere(e, path) == Routable(e)

Applies(e, path) ==
    /\ Routable(e)
    /\ ScopeOf(e) = NoPath \/ Inside(ScopeOf(e), path)

Candidates(uri) == {i \in DOMAIN workspace : Applies(workspace[i], FsPathOf(uri))}

(* Most specific first: longest scope first, those of no folder last, and   *)
(* otherwise in the order given (a stable sort).                            *)
IsScoped(i) == ScopeOf(workspace[i]) # NoPath
Reach(i)    == IF IsScoped(i) THEN 1 + Length(ScopeOf(workspace[i])) ELSE 0

PrecedesAsGiven(i, j) == IF IsScoped(i) = IsScoped(j) THEN i < j ELSE IsScoped(i)

Precedes(i, j) == Reach(i) > Reach(j) \/ (Reach(i) = Reach(j) /\ i < j)

(* The first of some candidates, as a set of one, or none.                  *)
Foremost(fits) == {i \in fits : \A j \in fits \ {i} : Precedes(i, j)}

(* An entry claims an extension or a media type as often as it lists it, in *)
(* whatever letters; of a media type only the essence counts.               *)
EssenceOf(type) == type.essence

Claims(e, field, wanted) ==
    Cardinality({k \in DOMAIN e[field] :
                    wanted = IF field = "media" THEN EssenceOf(e[field][k]) ELSE e[field][k]})

ClaimantsAll(field, wanted) == {i \in DOMAIN global : Claims(global[i], field, wanted) > 0}

Claimants(field, wanted) ==
    {i \in DOMAIN global : Routable(global[i]) /\ Claims(global[i], field, wanted) > 0}

(* tie_break: the first claimant wins, and every claim of another is named. *)
TieBreak(field, wanted, via) ==
    LET claimants == Claimants(field, wanted)
        first     == {i \in claimants : \A j \in claimants : i <= j}
        Named(i)  == [n \in 1..Claims(global[i], field, wanted) |-> global[i].id]
        others    == FlattenSeq([i \in DOMAIN global |->
                                    IF i \in claimants \ first THEN Named(i) ELSE <<>>])
    IN  IF first = {} THEN NotFound
        ELSE LET best == global[CHOOSE i \in first : TRUE]
             IN  [Found(best, via) EXCEPT !.ambiguous =
                     IF others = <<>> THEN <<>> ELSE <<best.id>> \o others]

(* The workspace by language id, then by extension; the global tier by      *)
(* language id, then by extension: the first that finds an entry.           *)
Resolve(doc) ==
    LET ext    == ExtOf(doc.uri)
        here   == Candidates(doc.uri)
        named  == Foremost({i \in here : workspace[i].id = doc.id})
        serves == Foremost({i \in here : ext # NoExt /\ Claims(workspace[i], "exts", ext) > 0})
    IN  IF named # {} THEN Found(workspace[CHOOSE i \in named : TRUE], "workspace-languageId")
        ELSE IF serves # {} THEN Found(workspace[CHOOSE i \in serves : TRUE], "workspace-extension")
        ELSE IF doc.id \in DOMAIN byId /\ Routable(global[byId[doc.id]])
             THEN Found(global[byId[doc.id]], "languageId")
        ELSE IF ext = NoExt THEN NotFound ELSE TieBreak("exts", ext, "extension")

(* resolve_with_media_type: for hosts that know a document's media type.    *)
ResolveMediaType(type) ==
    IF EssenceOf(type) = "" THEN NotFound ELSE TieBreak("media", EssenceOf(type), "mediaType")

ResolveWithMediaType(doc, type) ==
    LET r == Resolve(doc) IN IF r = NotFound THEN ResolveMediaType(type) ELSE r
============================================================================
