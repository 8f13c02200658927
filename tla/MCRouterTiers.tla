--------------------------- MODULE MCRouterTiers ---------------------------
(* RouterTiers over two language ids, two extensions and a folder inside    *)
(* another, opened and reported in every spelling.                          *)
EXTENDS RouterTiers

Outer == <<"w">>
Inner == <<"w", "sub">>

MCName == {"w", "sub", "f", "wide", "x", "", ".", "..", ".tabnas", "lsp.json"}

Json == [essence |-> "json", parameters |-> FALSE]
Utf8 == [essence |-> "json", parameters |-> TRUE]
None == [essence |-> "", parameters |-> FALSE]

GlobalEntry(id, exts, media, routable) ==
    [id |-> id, exts |-> exts, media |-> media, routable |-> routable,
     load |-> [lane |-> "module", of |-> <<id>>], workspace |-> FALSE,
     scope |-> [kind |-> "dir", folder |-> NoPath], dir |-> NoPath]

Shared == { GlobalEntry("a", <<"x">>, <<Json>>, TRUE),       GlobalEntry("a", <<"y">>, <<>>, FALSE),
            GlobalEntry("b", <<"x", "x">>, <<Utf8>>, TRUE),  GlobalEntry("b", <<"y", "x">>, <<>>, TRUE) }

MCDeclarations == {<<>>} \cup
    {s \in [1..3 -> Shared] : s[1].id = s[3].id /\ s[1] # s[3] /\ s[2].id # s[1].id /\ s[2].routable}

(* Items as a manifest or a client declares them.                           *)
Item == [name |-> Absent, languageId |-> Absent, extensions |-> Absent, mediaTypes |-> Absent,
         pluginKind |-> Absent, enabled |-> Absent, load |-> Absent,
         source |-> Absent, dir |-> Absent, scope |-> Absent]

Load(spec, grammar, module) == [spec |-> spec, grammar |-> grammar, module |-> module]

DslA   == [Item EXCEPT !.name = <<"@tabnas/", "a">>, !.languageId = "", !.extensions = <<"x">>,
                       !.load = Load(Absent, <<"a.abnf">>, Absent)]
DslB   == [Item EXCEPT !.languageId = "b", !.extensions = <<"y", "x">>, !.source = "bundled",
                       !.load = Load(Null, Absent, <<"b">>)]
Off    == [Item EXCEPT !.name = <<"a">>, !.extensions = <<"x">>, !.pluginKind = "modifier"]
Lost   == [Item EXCEPT !.name = <<"a">>, !.load = Load(Absent, Wrong, <<"a">>)]
Every  == [Item EXCEPT !.name = <<"b">>, !.extensions = <<"x">>, !.scope = Null]

MCContents == { [is |-> "missing",  languages |-> <<>>],
                [is |-> "list", languages |-> <<DslA, Off>>],
                [is |-> "list", languages |-> <<DslB, Lost>>],
                [is |-> "list", languages |-> <<DslB, Every>>] }

MCHost == <<>>

Bare(path)     == [Spelled(path, "bare") EXCEPT !.steps = @ \o <<[name |-> "", as |-> "plain"]>>]
Remote(path)   == [Spelled(path, "plain") EXCEPT !.host = "elsewhere"]
Dotted(path)   == [Spelled(path, "plain") EXCEPT !.steps = <<[name |-> "x", as |-> "plain"],
                                                            [name |-> "..", as |-> "plain"]>> \o @]

MCSetups == {
    [opened |-> <<Spelled(Outer, "escaped"), Dotted(Inner)>>, root |-> Absent, languages |-> <<Lost>>],
    [opened |-> <<Bare(Outer)>>, root |-> Spelled(Inner, "plain"), languages |-> <<DslB, Wrong>>],
    [opened |-> <<Remote(Outer)>>, root |-> Spelled(Inner, "local"), languages |-> <<>>],
    [opened |-> <<>>, root |-> Absent, languages |-> <<DslA>>] }

MCFolder   == {Outer, Inner}
MCSpelling == {"plain", "escaped", "local", "short", "bare"}
MCMedia    == {Json, Utf8, None}

Of(uri, ext, as) == [uri EXCEPT !.ext = [name |-> ext, as |-> as]]

MCDoc == { [id |-> "plaintext", uri |-> Of(Spelled(<<"w", "sub", "f">>, "escaped"), "x", "upper")],
           [id |-> "a",         uri |-> Of(Spelled(<<"w", "sub", "f">>, "plain"), "y", "plain")],
           [id |-> "plaintext", uri |-> Of(Spelled(<<"w", "f">>, "local"), "x", "plain")],
           [id |-> "b",         uri |-> Of(Spelled(<<"wide", "f">>, "plain"), "x", "plain")],
           [id |-> "plaintext", uri |-> Of([Spelled(<<"f">>, "bare") EXCEPT !.scheme = "untitled"],
                                           NoExt, "plain")],
           [id |-> "a",         uri |-> Of(Dotted(<<"w", "f">>), "x", "escaped")],
           [id |-> "plaintext", uri |-> [Remote(<<"w", "f">>) EXCEPT !.tail = "?q"]] }

(* The folders are spelled as MostSpecific assumes.                         *)
ASSUME TidyAssumption == GivenTidily
============================================================================
