------------------------------ MODULE Outline ------------------------------
(* rs/src/outline.rs: the rule events of a parse as nested symbols.         *)
EXTENDS Columns

CONSTANTS
    Outlined,   \* the rules that make a symbol
    MaxDepth,   \* MAX_OUTLINE_DEPTH
    NoToken     \* no matched token

(* The symbols of the events, in the order they closed: from the token a    *)
(* rule opened at to the one it closed at.  A forced close has none, and    *)
(* its symbol ends where it began.                                          *)
Listed(done, e) ==
    LET begun     == {o \in done.open : o.i = e.i}
        rest      == done.open \ begun
        Symbol(o) == [i |-> o.i, open |-> o.token, end |-> IF e.token = NoToken THEN o.token ELSE e.token]
    IN  IF e.name \notin Outlined \/ (e.state = "open" /\ e.token = NoToken) THEN done
        ELSE IF e.state = "open"
             THEN [done EXCEPT !.open = rest \cup {[i |-> e.i, token |-> e.token]}]
        ELSE IF e.token = NoToken /\ ~e.forced THEN [done EXCEPT !.open = rest]
        ELSE [open |-> rest, closed |-> done.closed \o SetToSeq({Symbol(o) : o \in begun})]

Closed(events) ==
    LET after[n \in 0..Len(events)] ==
            IF n = 0 THEN [open |-> {}, closed |-> <<>>] ELSE Listed(after[n - 1], events[n])
    IN  after[Len(events)].closed

(* The ranges of the symbols, each to the end of its last token: the tokens *)
(* are visited in the order of the text.                                    *)
Ranges(symbols, doc) ==
    LET token    == [slot \in 1..(2 * Len(symbols)) |->
                        IF slot % 2 = 1 THEN symbols[(slot + 1) \div 2].open ELSE symbols[slot \div 2].end]
        Before(a, b) == token[a].si < token[b].si \/ (token[a].si = token[b].si /\ a < b)
        order    == InOrder(DOMAIN token, Before)
        columns  == ColumnsOf(doc.encoding, doc.text, [k \in DOMAIN order |-> token[order[k]]])
        place    == [slot \in DOMAIN token |->
                        [line      |-> Least(token[slot].ri - 1, LastLine(doc)),
                         character |-> columns[CHOOSE k \in DOMAIN order : order[k] = slot].column]]
    IN  [n \in DOMAIN symbols |->
            [start |-> place[2 * n - 1],
             end   |-> [place[2 * n] EXCEPT
                           !.character = @ + Max({1, Measure(doc.encoding, symbols[n].end.src)})]]]

(* By start, the wider first; what ties in both keeps its order.            *)
InOrderOfStart(symbols) ==
    LET Before(m, n) ==
            LET a == symbols[m].open.si
                b == symbols[n].open.si
            IN  a < b \/ (a = b /\ m < n)
        order == InOrder(DOMAIN symbols, Before)
    IN  [k \in DOMAIN symbols |-> symbols[order[k]]]

Sorted(symbols) ==
    LET Before(m, n) ==
            LET a == symbols[m]
                b == symbols[n]
            IN  \/ a.open.si < b.open.si
                \/ a.open.si = b.open.si /\ a.end.si > b.end.si
                \/ a.open.si = b.open.si /\ a.end.si = b.end.si /\ m < n
        order == InOrder(DOMAIN symbols, Before)
    IN  [k \in DOMAIN symbols |-> symbols[order[k]]]

Encloses(a, b) == a.open.si <= b.open.si /\ b.end.si <= a.end.si

(* nest: the stack walk.  A symbol is listed with the symbols it is inside  *)
(* of, outermost first, unless they are too many.                           *)
Nest(symbols) ==
    LET Walk(done, symbol) ==
            LET around == {k \in DOMAIN done.stack : Encloses(done.stack[k], symbol)}
                stack  == Take(done.stack, IF around = {} THEN 0 ELSE Max(around))
            IN  IF Len(stack) >= MaxDepth THEN [done EXCEPT !.stack = stack]
                ELSE [stack |-> Append(stack, symbol),
                      listed |-> Append(done.listed, [symbol |-> symbol, within |-> stack])]
        sorted == Sorted(symbols)
        after[n \in 0..Len(sorted)] ==
            IF n = 0 THEN [stack |-> <<>>, listed |-> <<>>] ELSE Walk(after[n - 1], sorted[n])
    IN  after[Len(sorted)].listed

OutlineOf(events) == Nest(Closed(events))
============================================================================
