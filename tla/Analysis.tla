------------------------------ MODULE Analysis -----------------------------
(* A document under edit and what one parse of it yields: the client's      *)
(* buffer beside the server's Doc, the events the engine announces, and the *)
(* diagnostics' ranges, semantic tokens and outline made of them.  Every    *)
(* result is a function of the document and the events, so the properties   *)
(* hold it, at every state, against what the client has on its screen.      *)
(*                                                                          *)
(* The engine and the client are not of this repository.  A client counts   *)
(* lines by \n and \r\n and never addresses the middle of a \r\n; the       *)
(* engine's columns count characters since the last line break.             *)
EXTENDS Outline, Views

CONSTANTS
    Opened,     \* the texts a document is opened with
    Inserted,   \* the texts an edit puts in
    Parsed,     \* bound: the texts parsed for their tokens
    Ruled,      \* bound: the texts parsed for their rules
    Late,       \* the tokens reported after their text
    Rule,       \* the grammar's rules
    MaxText,    \* bound: characters of a text that edits make
    MaxLex,     \* bound: lex events of a parse
    MaxRules    \* bound: rule events of a parse

(* Every \r of a text is of a \r\n.                                          *)
CrBeforeLf(text) == \A n \in DOMAIN text : text[n] = "cr" => n < Len(text) /\ text[n + 1] = "lf"

ASSUME AnalysisAssumption ==
    /\ Opened \cup Inserted \cup Parsed \cup Ruled \subseteq Seq(Char)
    /\ \A text \in Opened \cup Inserted : CrBeforeLf(text)
    /\ Outlined \subseteq Rule
    /\ {MaxText, MaxLex, MaxRules, MaxDepth} \subseteq Nat

VARIABLES
    buffer,     \* the text the client shows
    doc,        \* the server's document
    more,       \* whether a didChange is half applied
    lex,        \* the lex events of the parse so far
    rules,      \* its rule events so far
    cursor      \* where the next rule may open or close, past the last token matched

vars == <<buffer, doc, more, lex, rules, cursor>>

Fresh == [open |-> 0, close |-> 0, past |-> 0]

(* negotiate_encoding: of what the client offers at initialize.             *)
Negotiated(offered) == IF "utf-8" \in offered THEN "utf-8" ELSE "utf-16"

Init ==
    /\ buffer \in Opened
    /\ \E offered \in SUBSET {"utf-8", "utf-16", "utf-32"} :
          doc = [text |-> buffer, starts |-> NoIndex, encoding |-> Negotiated(offered)]
    /\ more = FALSE
    /\ lex = <<>> /\ rules = <<>> /\ cursor = Fresh
----------------------------------------------------------------------------
(* The client: where it may put its cursor, and what it calls that place.   *)
Stops(text) == {n \in 0..Len(text) : ~(0 < n /\ n < Len(text) /\ text[n] = "cr" /\ text[n + 1] = "lf")}

LineHead(text, n) == SelectLastInSeq(Take(text, n), Newline)

ClientPosition(encoding, text, n) ==
    [line      |-> Cardinality({k \in 1..n : text[k] = "lf"}),
     character |-> Measure(encoding, SubSeq(text, LineHead(text, n) + 1, n))]

(* At a line's end a client may name any character beyond it.               *)
AtLineEnd(text, n) == n = Len(text) \/ LineBreak(text[n + 1])

Named(encoding, text, n) ==
    LET p == ClientPosition(encoding, text, n)
    IN  {p} \cup (IF AtLineEnd(text, n) THEN {[p EXCEPT !.character = @ + 3]} ELSE {})

(* The server takes no message while it parses.                             *)
Still == lex = <<>> /\ rules = <<>>

(* One of the changes of a didChange, which the server applies in order; it *)
(* looks at no position in between.                                         *)
Edit(text) ==
    /\ Still
    /\ \E n, m \in Stops(buffer) :
          /\ n <= m /\ Len(buffer) - (m - n) + Len(text) <= MaxText
          /\ buffer' = Take(buffer, n) \o text \o SubSeq(buffer, m + 1, Len(buffer))
          /\ \E start \in Named(doc.encoding, buffer, n), end \in Named(doc.encoding, buffer, m) :
                doc' = ApplyChange(doc, [start |-> start, end |-> end], text)
    /\ more' \in BOOLEAN
    /\ UNCHANGED <<lex, rules, cursor>>

Replace(text) ==
    /\ Still
    /\ buffer' = text
    /\ doc' = Update(doc, text)
    /\ more' \in BOOLEAN
    /\ UNCHANGED <<lex, rules, cursor>>

(* Any handler that converts a position builds the index.                   *)
Query ==
    /\ ~more /\ Still
    /\ doc' = Indexed(doc)
    /\ UNCHANGED <<buffer, more, lex, rules, cursor>>
----------------------------------------------------------------------------
(* The engine: a token from the n-th character to the m-th, at its row and  *)
(* column; reported after its text if its matcher builds it there.          *)
Row(text, n)    == Cardinality({k \in 1..n : text[k] = "lf"}) + 1
Column(text, n) == n - LineHead(text, n) + 1

TokenAt(text, name, at, n, m) ==
    LET src == SubSeq(text, n + 1, m)
    IN  [name |-> name, si |-> ByteLen(Take(text, at)), ri |-> Row(text, at),
         ci |-> Column(text, at), len |-> ByteLen(src), src |-> src]

(* Bound: and no request has built the index yet, which no parse reads.     *)
Parsing == ~more /\ doc.starts = NoIndex

(* A token is lexed, or lexed again otherwise, after an error or a failed   *)
(* guess; the end of the source is an empty one.                            *)
Lex(name) ==
    /\ rules = <<>> /\ Len(lex) < MaxLex
    /\ Parsing /\ doc.text \in Parsed
    /\ \E n, m \in Stops(doc.text) :
          /\ n <= m /\ (n = m) = (name = "#ZZ")
          /\ \E at \in {n} \cup (IF name \in Late THEN {m} ELSE {}) :
                lex' = Append(lex, TokenAt(doc.text, name, at, n, m))
    /\ UNCHANGED <<buffer, doc, more, rules, cursor>>

Opens   == {n \in DOMAIN rules : rules[n].state = "open"}
Closes  == {n \in DOMAIN rules : rules[n].state = "close"}
Standing == {rules[n].i : n \in Opens} \ {rules[n].i : n \in Closes}

(* Rules open and close as a stack, at tokens in order: one may open at the *)
(* token its parent did, and close at the one its child did.  A token is    *)
(* any stretch of the text, over lines too, or the empty one that ends the  *)
(* source.  (Bound: rules that make no symbol match no tokens, which the    *)
(* outline would not see.)                                                  *)
Token(run) ==
    TokenAt(doc.text, IF run[1] = run[2] THEN "#ZZ" ELSE "#OB", run[1], run[1], run[2])

TokenFrom(least) ==
    {run \in Stops(doc.text) \X Stops(doc.text) :
        /\ run[1] < run[2] \/ (run[1] = run[2] /\ run[1] = Len(doc.text))
        /\ run[1] >= least
        /\ run[1] >= cursor.past \/ run = <<cursor.close, cursor.past>>}

Announce(event) ==
    /\ lex = <<>> /\ Len(rules) < MaxRules
    /\ Parsing /\ doc.text \in Ruled
    /\ rules' = Append(rules, event)
    /\ UNCHANGED <<buffer, doc, more, lex>>

OpenRule(name) ==
    LET Event(token) == [i |-> Cardinality(Opens) + 1, name |-> name, state |-> "open",
                         token |-> token, forced |-> FALSE]
    IN  \/ Announce(Event(NoToken)) /\ UNCHANGED cursor
        \/ /\ name \in Outlined
           /\ \E run \in TokenFrom(cursor.open) :
                 /\ Announce(Event(Token(run)))
                 /\ cursor' = [open |-> run[1], close |-> run[1], past |-> run[2]]

CloseRule ==
    /\ Standing # {}
    /\ LET i    == Max(Standing)
           name == rules[CHOOSE n \in Opens : rules[n].i = i].name
           Event(token, forced) ==
               [i |-> i, name |-> name, state |-> "close", token |-> token, forced |-> forced]
       IN  \/ /\ \E forced \in BOOLEAN : Announce(Event(NoToken, forced))
              /\ UNCHANGED cursor
           \/ /\ name \in Outlined
              /\ \E run \in TokenFrom(cursor.close) :
                    /\ Announce(Event(Token(run), FALSE))
                    /\ cursor' = [open |-> run[1] + 1, close |-> run[1], past |-> run[2]]

(* The results are made, the outline's positions among them.                *)
EndParse ==
    /\ lex # <<>> \/ rules # <<>>
    /\ lex' = <<>> /\ rules' = <<>> /\ cursor' = Fresh
    /\ doc' = Indexed(doc)
    /\ UNCHANGED <<buffer, more>>

Next ==
    \/ \E text \in Inserted : Edit(text)
    \/ \E text \in Opened : Replace(text)
    \/ Query
    \/ \E name \in DOMAIN Convention : Lex(name)
    \/ \E name \in Rule : OpenRule(name)
    \/ CloseRule
    \/ EndParse

Spec == Init /\ [][Next]_vars
----------------------------------------------------------------------------
(* The server's text is what the client shows, after any edits at any       *)
(* places it may name, several to a notification; an index left standing is *)
(* of that text, where its lines start.                                     *)
InSync ==
    /\ doc.text = buffer
    /\ doc.starts # NoIndex =>
           ToSet(doc.starts) = {ByteLen(Take(buffer, n)) : n \in
               {n \in 0..Len(buffer) : n = 0 \/ buffer[n] = "lf"}}

Reconciled == Reconcile(lex, doc.text)

(* Wherever their matchers report them, the tokens of the list are on their *)
(* text, with the row and the column of it.                                 *)
TokensOnTheirText ==
    \A t \in ToSet(Reconciled) :
        LET n == CharsTo(doc.text, t.si)
        IN  /\ Holds(doc.text, t.si, t.src)
            /\ t.ri = Row(doc.text, n) /\ t.ci = Column(doc.text, n)

(* The contract of the lex stream: of the tokens announced, those that no   *)
(* token kept later claims the start of, by position.                       *)
ReconciledIsContract ==
    LET list == Reconciled
        at   == [n \in DOMAIN lex |-> Anchor(lex[n], doc.text)]
        Kept[n \in DOMAIN lex] ==
            \A m \in (n + 1)..Len(lex) :
                Kept[m] => ~(at[m].si <= at[n].si /\ at[n].si < at[m].si + Span(at[m]))
    IN  /\ ToSet(list) = {at[n] : n \in {n \in DOMAIN lex : Kept[n]}}
        /\ \A k \in 1..(Len(list) - 1) : list[k].si < list[k + 1].si

(* What the client makes of the data: stretches of its lines.               *)
Shown ==
    LET Show(screen, d) ==
            LET start == [line      |-> screen.at.line + d.dRow,
                          character |-> d.dCol + IF d.dRow = 0 THEN screen.at.character ELSE 0]
            IN  [at    |-> start,
                 shown |-> screen.shown \cup {[start |-> start, len |-> d.len, type |-> d.type]}]
    IN  FoldLeft(Show, [at |-> [line |-> 0, character |-> 0], shown |-> {}],
                 SemanticData(Reconciled, doc)).shown

(* The lines of a token on the client's screen.                             *)
LinesOf(token) ==
    LET n == CharsTo(buffer, token.si)
        m == n + Len(token.src)
    IN  {[start |-> ClientPosition(doc.encoding, buffer, run[1]),
          len   |-> Measure(doc.encoding, SubSeq(buffer, run[1] + 1, run[2])),
          type  |-> TokenType(token.name)] :
            run \in {r \in (n..m) \X (n..m) :
                        /\ r[1] < r[2]
                        /\ \A k \in (r[1] + 1)..r[2] : ~LineBreak(buffer[k])
                        /\ r[1] = n \/ LineBreak(buffer[r[1]])
                        /\ r[2] = m \/ LineBreak(buffer[r[2] + 1])}}

Coloured == {t \in ToSet(Reconciled) : TokenType(t.name) # Uncoloured}

(* A span of the text as a stretch of the client's screen.                  *)
Stretch(span) == [start |-> ClientPosition(doc.encoding, buffer, CharsTo(buffer, span.start)),
                  len   |-> Measure(doc.encoding, Between(buffer, span.start, span.end)),
                  type  |-> span.kind]

(* What the client highlights is lines of tokens, exactly; unless the       *)
(* tokens overlap, every line of every one; and the bytes a host highlights *)
(* are the same.                                                            *)
HighlightsAreTokens ==
    \E tokens \in {Coloured}, shown \in {Shown} :
        LET lines == UNION {LinesOf(t) : t \in tokens} IN
        /\ shown \subseteq lines
        /\ {Stretch(span) : span \in Spans(Segments(Reconciled, doc.text))} = shown
        /\ (\A s, t \in tokens : s.si < t.si => s.si + s.len <= t.si) => shown = lines

Symbols == OutlineOf(rules)

(* The rules a rule opened inside of, of those that make a symbol with room *)
(* for others.                                                              *)
Around(i) ==
    LET Opening(j) == Min({n \in Opens : rules[n].i = j})
        Closing(j) == Max({n \in Closes : rules[n].i = j})
    IN  {s.i : s \in {s \in ToSet(Closed(rules)) :
                         /\ Opening(s.i) < Opening(i) /\ Closing(i) < Closing(s.i)
                         /\ ~rules[Closing(s.i)].forced}}

(* The outline is the nesting of the rules as the parse had them open, a    *)
(* forced one apart, to the depth allowed: no symbol is lost, doubled or    *)
(* put inside another it was not in.  Spans cannot tell apart two rules     *)
(* that open at one token if they end at one too or one was forced.         *)
Forced(s) == \E n \in Closes : rules[n].i = s.i /\ rules[n].forced

ToldApart ==
    \A s, t \in ToSet(Closed(rules)) :
        s # t /\ s.open.si = t.open.si => s.end.si # t.end.si /\ ~Forced(s)

OutlineIsNesting ==
    LET symbols == Symbols
        listed  == {s.symbol : s \in ToSet(symbols)}
    IN  ToldApart =>
            /\ listed = {s \in ToSet(Closed(rules)) : Cardinality(Around(s.i)) < MaxDepth}
            /\ Len(symbols) = Cardinality(listed)
            /\ \A s \in ToSet(symbols) : {w.i : w \in ToSet(s.within)} = Around(s.symbol.i)

(* The stretch of the client's screen from the n-th character to the m-th.  *)
OnScreen(n, m) == [start |-> ClientPosition(doc.encoding, buffer, n),
                   end   |-> ClientPosition(doc.encoding, buffer, m)]

IsUnder(n, token) ==
    LET from == CharsTo(buffer, token.si) IN from <= n /\ n < from + Len(token.src)

OnItsText(token, range) ==
    LET from == CharsTo(buffer, token.si) IN range = OnScreen(from, from + Len(token.src))

(* Wherever the client has its cursor and however it names the place, the   *)
(* engine continues the text before it.                                     *)
PlacesAreUnderstood(indexed) ==
    \A n \in Stops(buffer) : \A place \in Named(doc.encoding, buffer, n) :
        Prefix(indexed, place) = Take(buffer, n)

(* That, and what is under the cursor is a token on the character there,    *)
(* with the range it has on the screen; none only if no token of the list   *)
(* has that character.                                                      *)
CursorIsUnderstood ==
    \E list \in {Reconciled}, indexed \in {Indexed(doc)} :
        /\ Still => PlacesAreUnderstood(indexed)
        /\ lex # <<>> => \A n \in Stops(buffer) :
               \E under \in {TokenUnder(list, indexed, ClientPosition(doc.encoding, buffer, n))} :
                  /\ \A t \in under : IsUnder(n, t) /\ OnItsText(t, TokenRange(t, indexed))
                  /\ under = {} => \A t \in ToSet(list) : ~IsUnder(n, t)

(* A diagnostic the engine makes about any stretch of the text is shown on  *)
(* it, whatever characters and line ends are in it and before it.           *)
DiagnosticsCoverTheirText ==
    \A n, m \in Stops(buffer) : n <= m =>
        RangeFrom(doc, Row(buffer, n), Column(buffer, n), n, m - n) = OnScreen(n, m)

(* The client takes a place for the n-th character's: past a line's end it  *)
(* may be any character, which is the end.                                  *)
IsTakenFor(place, n) ==
    LET p == ClientPosition(doc.encoding, buffer, n)
    IN  /\ place.line = p.line
        /\ \/ place.character = p.character
           \/ AtLineEnd(buffer, n) /\ place.character >= p.character

(* Where a token ends, or the line it starts on if it goes on below that.   *)
EndOnItsLine(token) ==
    LET n == CharsTo(buffer, token.si)
        m == n + Len(token.src)
    IN  Min({k \in n..m : k = m \/ AtLineEnd(buffer, k)})

(* That (a diagnostic's range is not of the events: looked at when there    *)
(* are none); and a symbol is shown from its first token to its last, of    *)
(* any length and on any lines: to the end of the last, or of the line that *)
(* one starts on, since outline adds its length, 1 if it is empty, to the   *)
(* character it starts at.                                                  *)
RangesCoverTheirText ==
    /\ Still => DiagnosticsCoverTheirText
    /\ LET symbols == Closed(rules)
           ranges  == Ranges(symbols, doc)
       IN  \A n \in DOMAIN symbols :
              /\ ranges[n].start = ClientPosition(doc.encoding, buffer, CharsTo(buffer, symbols[n].open.si))
              /\ IsTakenFor(ranges[n].end, EndOnItsLine(symbols[n].end))
============================================================================
