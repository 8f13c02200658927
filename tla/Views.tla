------------------------------- MODULE Views -------------------------------
(* rs/src/completion.rs, hover.rs and highlight.rs: what the server and its *)
(* hosts read off a document and its analysis, at the client's cursor or    *)
(* for the whole text.  Hover describes no token yet; the token and its     *)
(* range are what a description will be shown with.                         *)
EXTENDS Semantic

(* completion: the text before the cursor, which the engine continues.      *)
Prefix(doc, position) == Take(doc.text, CharsTo(doc.text, OffsetAt(doc, position)))

(* token_at: the first token listed whose source covers the cursor, if any. *)
TokenAtItsEnd(reconciled, doc, position) ==
    LET offset == OffsetAt(doc, position)
        Covers(token) == token.si <= offset /\ offset <= token.si + token.len
    IN  {reconciled[k] : k \in {SelectInSeq(reconciled, Covers)} \ {0}}

TokenUnder(reconciled, doc, position) ==
    LET offset == OffsetAt(doc, position)
        Covers(token) == token.si <= offset /\ offset < token.si + token.len
    IN  {reconciled[k] : k \in {SelectInSeq(reconciled, Covers)} \ {0}}

TokenRange(token, doc) ==
    [start |-> PositionAt(doc, token.si),
     end   |-> PositionAt(doc, Least(token.si + token.len, ByteLen(doc.text)))]

(* highlight: the pieces as stretches of the text, in bytes.                *)
Spans(segments) ==
    {[start |-> s.start, end |-> s.end, kind |-> s.type] : s \in ToSet(segments)}
============================================================================
