----------------------------- MODULE Documents -----------------------------
(* Doc of rs/src/documents.rs: the text of a document with its line index,  *)
(* the conversions between byte offsets, engine places and the client's     *)
(* positions, and the edits of didChange.                                   *)
(*                                                                          *)
(* A text is a sequence of characters, of which only the lengths and the    *)
(* line ends matter.  An offset counts bytes, a client's position units of  *)
(* the encoding it negotiated.                                              *)
EXTENDS Naturals, Sequences, SequencesExt, FiniteSetsExt

Char     == {"x", "accent", "astral", "lf", "cr"}
Encoding == {"utf-8", "utf-16"}

UnitsOf(encoding, c) ==
    CASE c = "astral"                       -> IF encoding = "utf-8" THEN 4 ELSE 2
      [] c = "accent" /\ encoding = "utf-8" -> 2
      [] OTHER                              -> 1

(* A set as a sequence, in a strict order of it.                            *)
InOrder(S, Before(_, _)) ==
    [k \in 1..Cardinality(S) |-> CHOOSE s \in S : Cardinality({r \in S : Before(r, s)}) = k - 1]

(* The length of the first n characters, and of all.                        *)
UnitsTo(encoding, s) ==
    LET to[n \in 0..Len(s)] == IF n = 0 THEN 0 ELSE to[n - 1] + UnitsOf(encoding, s[n])
    IN  to

Measure(encoding, s) == UnitsTo(encoding, s)[Len(s)]
ByteLen(s)           == Measure("utf-8", s)

Take(text, n) == SubSeq(text, 1, n)

(* The number of characters before an offset, which is clamped into the     *)
(* text and moved back to a character's start.                              *)
CharsTo(text, offset) ==
    LET bytes == UnitsTo("utf-8", text)
    IN  Cardinality({n \in 1..Len(text) : bytes[n] <= offset})

Boundary(text, offset) == UnitsTo("utf-8", text)[CharsTo(text, offset)]

(* The byte offset of the pos-th character, or the text's length.           *)
ByteOfScalar(text, pos) == ByteLen(Take(text, IF pos <= Len(text) THEN pos ELSE Len(text)))

Between(text, from, to) == SubSeq(text, CharsTo(text, from) + 1, CharsTo(text, to))

(* A document; an index that is not built is empty, which no index is.      *)
NoIndex == <<>>
Doc     == [text : Seq(Char), starts : Seq(Nat), encoding : Encoding]

(* Where lines start: at the start, and after every \n.                     *)
LineStarts(text) ==
    LET bytes == UnitsTo("utf-8", text)
        to[n \in 0..Len(text)] ==
            IF n = 0 THEN <<0>>
            ELSE IF text[n] = "lf" THEN Append(to[n - 1], bytes[n]) ELSE to[n - 1]
    IN  to[Len(text)]

(* Doc::line_starts: the index, built now if it was not.                    *)
Starts(doc)  == IF doc.starts = NoIndex THEN LineStarts(doc.text) ELSE doc.starts
Indexed(doc) == [doc EXCEPT !.starts = Starts(doc)]

LastLine(doc) == Len(Starts(doc)) - 1
Least(a, b)   == IF a < b THEN a ELSE b

LineOf(doc, offset) == Cardinality({i \in DOMAIN Starts(doc) : Starts(doc)[i] <= offset}) - 1

(* Doc::line_span: a line without its \n or \r\n; past the last, the last.  *)
LineSpan(doc, line) ==
    LET n     == Least(line, LastLine(doc)) + 1
        start == Starts(doc)[n]
        end   == IF n = Len(Starts(doc)) THEN ByteLen(doc.text) ELSE Starts(doc)[n + 1] - 1
        cr    == end > start /\ doc.text[CharsTo(doc.text, end)] = "cr"
    IN  [start |-> start, end |-> IF cr THEN end - 1 ELSE end]

(* Doc::offset_at: the first offset of the line that has the character's    *)
(* units before it, or the line's end.                                      *)
OffsetAtSpills(doc, position) ==
    LET start == Starts(doc)[Least(position.line, LastLine(doc)) + 1]
    IN  Boundary(doc.text, start + position.character)

OffsetAt(doc, position) ==
    LET span    == LineSpan(doc, position.line)
        first   == CharsTo(doc.text, span.start)
        reached == {n \in first..CharsTo(doc.text, span.end) :
                       Measure(doc.encoding, SubSeq(doc.text, first + 1, n)) >= position.character}
    IN  IF reached = {} THEN span.end ELSE ByteLen(Take(doc.text, Min(reached)))

PositionAt(doc, offset) ==
    LET at    == Boundary(doc.text, offset)
        line  == LineOf(doc, at)
        start == Starts(doc)[line + 1]
    IN  [line |-> line, character |-> Measure(doc.encoding, Between(doc.text, start, at))]

(* Doc::column_before: the length of up to n characters before an offset.   *)
ColumnBefore(text, encoding, at, n) ==
    LET chars == CharsTo(text, at)
    IN  Measure(encoding, SubSeq(text, chars - Least(n, chars) + 1, chars))

(* Doc::position_from_site: the engine's row, and what its column counts.   *)
PositionFromSite(doc, si, row, col) ==
    [line      |-> Least(row - 1, LastLine(doc)),
     character |-> ColumnBefore(doc.text, doc.encoding, si, col - 1)]

(* Doc::range_from: a diagnostic's place; pos and len count characters.     *)
RangeFromBytes(doc, row, col, pos, len) ==
    LET from == ByteOfScalar(doc.text, pos)
    IN  [start |-> PositionFromSite(doc, from, row, col), end |-> PositionAt(doc, from + len)]

RangeFrom(doc, row, col, pos, len) ==
    LET from == ByteOfScalar(doc.text, pos)
        till == ByteOfScalar(doc.text, CharsTo(doc.text, from) + len)
    IN  [start |-> PositionFromSite(doc, from, row, col), end |-> PositionAt(doc, till)]

(* Doc::update: the new text, and no index.                                 *)
Update(doc, text) == [doc EXCEPT !.text = text, !.starts = NoIndex]

(* Doc::apply_change: a ranged change splices; a full one is an Update.     *)
ApplyChange(doc, range, text) ==
    Update(doc, Take(doc.text, CharsTo(doc.text, OffsetAt(doc, range.start)))
                    \o text
                    \o SubSeq(doc.text, CharsTo(doc.text, OffsetAt(doc, range.end)) + 1,
                              Len(doc.text)))
============================================================================
