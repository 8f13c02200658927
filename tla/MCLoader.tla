------------------------------ MODULE MCLoader -----------------------------
(* Loader over a workspace folder /w, which is also /v, and a folder /o     *)
(* beside it.  A place may hold a link to the one outside, or to another in *)
(* the workspace or itself; the texts are each refused, or not, for one     *)
(* reason.                                                                  *)
EXTENDS Loader

Inside    == <<"w", "g.abnf">>
InsideToo == <<"w", "g.ebnf">>
Outside   == <<"o", "g.abnf">>
MCPlace   == {Inside, InsideToo, Outside}

MCHome == [folder \in {<<"w">>, <<"v">>, <<"gone">>} |->
              IF folder = <<"gone">> THEN NoPath ELSE <<"w">>]

MCExtension == [p \in MCPlace |-> IF p = InsideToo THEN ".ebnf" ELSE ".abnf"]

Clean(rules) == [faults |-> {}, rules |-> rules, alts |-> 1, accepted |-> TRUE]
Poisoned     == [Clean(1) EXCEPT !.faults = {"poisoned"}]

Digits(n)  == [is |-> "digits", n |-> n]
Name       == [is |-> "name", n |-> 0]
Rest       == [is |-> "rest", n |-> 0]

(* `plain` names a rule a9; `many` is over the total, though no count is    *)
(* over the bound; `never` is one that the caps let through all the same.   *)
MCFacts ==
    [plain    |-> [bytes |-> 1, items |-> <<Name, Digits(9), Rest, Digits(2)>>,
                   gives |-> "spec", spec |-> Clean(1)],
     large    |-> [bytes |-> 3, items |-> <<>>, gives |-> "spec", spec |-> Clean(1)],
     many     |-> [bytes |-> 1, items |-> <<Digits(2), Rest, Digits(1), Rest, Digits(2)>>,
                   gives |-> "spec", spec |-> Clean(2)],
     poisoned |-> [bytes |-> 1, items |-> <<>>, gives |-> "spec", spec |-> Poisoned],
     panic    |-> [bytes |-> 1, items |-> <<>>, gives |-> "panic", spec |-> Nothing],
     never    |-> [bytes |-> 2, items |-> <<>>, gives |-> "never", spec |-> Nothing]]
MCText == DOMAIN MCFacts

MCNode == {NoNode} \cup {[is |-> "file", text |-> t, to |-> NoPath] : t \in MCText}
                   \cup {[is |-> "link", text |-> Nothing, to |-> p] : p \in {InsideToo, Outside}}

(* At first there is a plain text outside, and anything in g.abnf.          *)
MCDisk == {d \in [MCPlace -> MCNode] : /\ d[Outside].text = "plain"
                                       /\ d[InsideToo].text = "many"}

Relative(path) == [absolute |-> FALSE, path |-> path]

Declared ==
    [load |-> "grammar", name |-> "dsl", file |-> Relative(<<"g.abnf">>), dir |-> <<"w">>,
     workspace |-> TRUE, isGrammar |-> TRUE, base |-> {}, stack |-> Nothing,
     options |-> Clean(0), inline |-> Nothing]

Files == { Declared,
           [Declared EXCEPT !.file = Relative(<<"x", "..", ".", "g.ebnf">>), !.dir = <<"v">>],
           [Declared EXCEPT !.file = Relative(<<"..", "o", "g.abnf">>)],
           [Declared EXCEPT !.load = "spec", !.file = [absolute |-> TRUE, path |-> Inside]] }

Others == { [Declared EXCEPT !.load = "inline", !.inline = Poisoned],
            [Declared EXCEPT !.load = "inline", !.inline = Clean(1), !.stack = {"gone"}],
            [Declared EXCEPT !.load = "module", !.name = "json", !.base = {"jsonic"}],
            [Declared EXCEPT !.load = "module", !.name = "json", !.workspace = FALSE,
                             !.options = Poisoned],
            [Declared EXCEPT !.load = "null", !.name = "json"],
            [Declared EXCEPT !.dir = NoPath],
            [Declared EXCEPT !.dir = <<"gone">>] }

MCEntry == Files \cup Others
MCLinked == {"json", "jsonic"}
============================================================================
