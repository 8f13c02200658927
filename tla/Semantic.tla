------------------------------ MODULE Semantic -----------------------------
(* rs/src/semantic.rs and the encoding of rs/src/analyze.rs: the reconciled *)
(* tokens as line-local pieces, and the pieces as the integers of           *)
(* textDocument/semanticTokens.                                             *)
EXTENDS Trace, Columns

CONSTANTS
    Legend,     \* the token types the client knows
    Override,   \* of an entry: token name to type, "" for none
    Convention  \* the defaults and the prefixes: token name to type, "" for none

Uncoloured == ""

(* token_type: the entry's override if it names a type, else the convention;*)
(* a type outside the legend is no colour.                                  *)
TokenType(name) ==
    LET type == IF Override[name] # "" THEN Override[name] ELSE Convention[name]
    IN  IF type \in Legend THEN type ELSE Uncoloured

(* The lines of a token's source, each with the offset it begins at.  The   *)
(* ends of lines are not the token's.                                       *)
Lines(token) ==
    LET starts   == InOrder({0} \cup {n \in DOMAIN token.src : token.src[n] = "lf"}, <)
        till(i)  == IF i = Len(starts) THEN Len(token.src) ELSE starts[i + 1] - 1
        cr(i)    == Len(starts) > 1 /\ till(i) > starts[i] /\ token.src[till(i)] = "cr"
    IN  [i \in DOMAIN starts |->
            [src   |-> SubSeq(token.src, starts[i] + 1, IF cr(i) THEN till(i) - 1 ELSE till(i)),
             start |-> token.si + ByteLen(Take(token.src, starts[i]))]]

(* The pieces of one token: the first has the column the engine's count     *)
(* gives, the others begin their lines.                                     *)
Pieces(token, at, text) ==
    LET lines == Lines(token)
        bytes(i) == IF Len(lines) = 1 THEN Span(token) ELSE ByteLen(lines[i].src)
    IN  [i \in DOMAIN lines |->
            [row     |-> token.ri - 1 + i - 1,
             chars   |-> IF i = 1 THEN at.chars ELSE 0,
             col     |-> IF i = 1 THEN at.column ELSE 0,
             len     |-> IF Len(lines) = 1 /\ token.src = <<>> THEN 1
                         ELSE Measure("utf-16", lines[i].src),
             start   |-> lines[i].start,
             end     |-> Least(lines[i].start + bytes(i), ByteLen(text)),
             type    |-> TokenType(token.name)]]

(* Emitter::emit: in order, and nothing empty.                              *)
Emit(out, piece) ==
    IF piece.len < 1 \/ (out # <<>> /\ (\/ piece.row < Last(out).row
                                        \/ piece.row = Last(out).row /\ piece.col < Last(out).col))
    THEN out ELSE Append(out, piece)

Segments(reconciled, text) ==
    LET IsColoured(token) == TokenType(token.name) # Uncoloured
        coloured == SelectSeq(reconciled, IsColoured)
        columns  == ColumnsOf("utf-16", text, coloured)
    IN  FoldLeft(LAMBDA out, i : FoldLeft(Emit, out, Pieces(coloured[i], columns[i], text)),
                 <<>>, [i \in DOMAIN coloured |-> i])

(* byte_tokens: the same, counted in bytes.                                 *)
ByteTokens(segments, text) ==
    [i \in DOMAIN segments |->
        [segments[i] EXCEPT !.col = ColumnBefore(text, "utf-8", segments[i].start, segments[i].chars),
                            !.len = Max({1, segments[i].end - segments[i].start})]]

(* encode: each position by its distance from the one before, a column from *)
(* the line's start when the line is another.                               *)
ColumnStepOfLine(t, p) == t.col
ColumnStep(t, p) == IF t.row # p.row THEN t.col ELSE t.col - p.col

Encode(tokens) ==
    LET ordered   == FoldLeft(Emit, <<>>, tokens)
        Before(i) == IF i = 1 THEN [row |-> 0, col |-> 0] ELSE ordered[i - 1]
    IN  [i \in DOMAIN ordered |->
            LET t == ordered[i]
            IN  [dRow |-> t.row - Before(i).row, dCol |-> ColumnStep(t, Before(i)),
                 len |-> t.len, type |-> t.type]]

(* semantic_tokens_of_reconciled: the data, in the document's encoding.     *)
SemanticData(reconciled, doc) ==
    LET segments == Segments(reconciled, doc.text)
    IN  Encode(IF doc.encoding = "utf-8" THEN ByteTokens(segments, doc.text) ELSE segments)
============================================================================
