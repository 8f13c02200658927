------------------------------ MODULE Columns ------------------------------
(* The Columns of rs/src/semantic.rs and rs/src/outline.rs: the columns of  *)
(* many tokens in one pass over the text.  Two cursors go forwards, one to  *)
(* each token and one to where its column is counted from; a token that     *)
(* would take either back is measured by itself.                            *)
EXTENDS Documents

(* A cursor: the characters before it, and their length.                    *)
AtStart == [chars |-> 0, units |-> 0]
NoWalk  == [at |-> AtStart, from |-> AtStart]

Advanced(encoding, text, cursor, chars) ==
    [chars |-> chars, units |-> cursor.units + Measure(encoding, SubSeq(text, cursor.chars + 1, chars))]

(* Columns::column, of a token at an offset with the engine's column: the   *)
(* walk as it leaves it, the column and the characters it counts.           *)
ColumnAt(encoding, text, walk, si, ci) ==
    LET n     == CharsTo(text, si)
        chars == Least(ci - 1, n)
        at    == Advanced(encoding, text, walk.at, n)
        from  == Advanced(encoding, text, walk.from, n - chars)
        Measured(to) == [walk |-> to, chars |-> chars,
                         column |-> ColumnBefore(text, encoding, si, ci - 1)]
    IN  IF n < walk.at.chars                THEN Measured(walk)
        ELSE IF n - chars < walk.from.chars THEN Measured([walk EXCEPT !.at = at])
        ELSE [walk |-> [at |-> at, from |-> from], chars |-> chars,
              column |-> at.units - from.units]

(* The columns of the tokens, in the order visited.                         *)
ColumnsOf(encoding, text, tokens) ==
    LET Visit(done, token) ==
            LET c == ColumnAt(encoding, text, done.walk, token.si, token.ci)
            IN  [walk |-> c.walk,
                 columns |-> Append(done.columns, [column |-> c.column, chars |-> c.chars])]
        after[n \in 0..Len(tokens)] ==
            IF n = 0 THEN [walk |-> NoWalk, columns |-> <<>>] ELSE Visit(after[n - 1], tokens[n])
    IN  after[Len(tokens)].columns
============================================================================
