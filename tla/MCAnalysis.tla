----------------------------- MODULE MCAnalysis ----------------------------
(* Analysis of short texts with characters of every length and line end.    *)
EXTENDS Analysis

MCOpened   == {<<>>, <<"x", "cr", "lf", "astral">>, <<"astral", "accent", "x">>}
MCInserted == {<<>>, <<"accent">>, <<"lf">>, <<"cr", "lf">>}
MCParsed   == {<<"x", "cr", "lf", "astral">>, <<"astral", "accent", "x">>,
                <<"astral", "lf", "accent">>}
MCRuled    == {<<"cr", "lf", "astral">>, <<"astral", "lf">>, <<"astral", "accent">>}
MCLate     == {"#ST"}

MCLegend     == {"string", "number"}
MCConvention == [n \in {"#ST", "ID", "#ZZ"} |->
                    CASE n = "#ST" -> "string" [] n = "ID" -> "string" [] OTHER -> ""]
MCOverride   == [n \in {"#ST", "ID", "#ZZ"} |-> IF n = "ID" THEN "bold" ELSE ""]

MCRule     == {"map", "val"}
MCOutlined == {"map"}
============================================================================
