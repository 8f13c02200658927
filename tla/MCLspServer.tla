---------------------------- MODULE MCLspServer ----------------------------
(* LspServer over files of one workspace folder whose manifest declares no  *)
(* language, one, or a stricter one that also takes over the extension a    *)
(* bundled language serves.                                                 *)
EXTENDS LspServer

Folder == <<"w">>

Of(id, exts, options, load, dir, isWorkspace) ==
    [id |-> id, options |-> options, load |-> load, layers |-> "none",
     scope |-> [kind |-> "dir", folder |-> NoPath], dir |-> dir,
     exts |-> exts, media |-> <<>>, routable |-> TRUE, workspace |-> isWorkspace]

Bundled == Of("bundled", <<"y">>, "none", "linked", NoPath, FALSE)
Dsl     == Of("dsl", <<"x">>, "none", "dsl.abnf", Folder, TRUE)
Strict  == Of("dsl", <<"x", "y">>, "strict", "dsl.abnf", Folder, TRUE)

Plain(name) == [name |-> name, as |-> "plain"]

In(folder, name, ext) ==
    [scheme |-> "file", slashes |-> TRUE, host |-> "", steps |-> <<Plain(folder), Plain(name)>>,
     ext |-> Plain(ext), tail |-> ""]

MCOneUri    == {"mine"}
MCUri       == {"mine", "theirs"}
MCAbout     == [u \in Uri |-> [id |-> "plaintext", uri |-> In("w", u, IF u = "mine" THEN "x" ELSE "y")]]
MCGlobal    == <<Bundled>>
MCSession   == <<>>
MCManifest  == {"absent", "plain", "strict"}
MCTwo       == {"absent", "plain"}
MCLanguages == [m \in Manifest |-> CASE m = "absent" -> <<>>
                                       [] m = "plain"  -> <<Dsl>>
                                       [] OTHER        -> <<Strict>>]
MCFile      == {<<Folder, "dsl.abnf">>}

(* What SettledCorrect takes of the entries holds of these.                 *)
ASSUME EntriesAreToldApart == NoneTwice
============================================================================
