------------------------------- MODULE Trace -------------------------------
(* rs/src/trace.rs: the lex events of a parse, in the order announced, and  *)
(* the token list they stand for.  An event is a TokenPoint: [name, si, ri, *)
(* ci, len, src], its offset and length in bytes, row and column from one.  *)
EXTENDS Documents

Span(event) == IF event.len = 0 THEN 1 ELSE event.len

(* Whether the text holds src at an offset.                                 *)
Holds(text, at, src) ==
    LET n == CharsTo(text, at)
    IN  /\ ByteLen(Take(text, n)) = at
        /\ n + Len(src) <= Len(text)
        /\ SubSeq(text, n + 1, n + Len(src)) = src

Newline(c)   == c = "lf"
LineBreak(c) == c \in {"lf", "cr"}

(* anchor: a token its matcher reported after its text, put on it.  Its     *)
(* column goes back by its length, or is counted from the last line break   *)
(* if it spans lines.                                                       *)
MovedByLength(event, text) ==
    [event EXCEPT !.si = @ - event.len, !.ci = @ - Len(event.src)]

Moved(event, text) ==
    LET start  == event.si - event.len
        before == Take(text, CharsTo(text, start))
        from   == SelectLastInSeq(before, LineBreak)
        spans  == \E i \in DOMAIN event.src : LineBreak(event.src[i])
        lfs    == Cardinality({i \in DOMAIN event.src : Newline(event.src[i])})
    IN  [event EXCEPT !.si = start,
                      !.ri = IF @ > lfs THEN @ - lfs ELSE 0,
                      !.ci = IF spans \/ @ <= Len(event.src) THEN Len(before) - from + 1
                             ELSE @ - Len(event.src)]

Anchor(event, text) ==
    IF /\ event.len > 0 /\ event.len <= event.si
       /\ ~Holds(text, event.si, event.src)
       /\ Holds(text, event.si - event.len, event.src)
    THEN Moved(event, text) ELSE event

(* claim: add a span to the disjoint claimed ones, absorbing those it       *)
(* touches.                                                                 *)
Touched(claimed, start, end) == {c \in claimed : c.start <= end /\ c.end >= start}

ClaimApart(claimed, start, end) == claimed \cup {[start |-> start, end |-> end]}

Claim(claimed, start, end) ==
    LET all == Touched(claimed, start, end)
    IN  (claimed \ all) \cup {[start |-> Min({c.start : c \in all} \cup {start}),
                               end   |-> Max({c.end : c \in all} \cup {end})]}

(* Whether the claimed span that begins last at or before an offset reaches *)
(* past it.                                                                 *)
Shadowed(claimed, si) ==
    LET before == {c \in claimed : c.start <= si}
    IN  before # {} /\ si < (CHOOSE c \in before : \A d \in before : d.start <= c.start).end

(* An event at its place, if no newer kept one shadows it.                  *)
Sift(done, at) ==
    IF Shadowed(done.claimed, at.si) THEN done
    ELSE [claimed |-> Claim(done.claimed, at.si, at.si + Span(at)), kept |-> done.kept \cup {at}]

(* reconcile_in: the events newest first.                                   *)
Reconcile(events, text) ==
    LET done[n \in 0..Len(events)] ==
            IF n = 0 THEN [claimed |-> {}, kept |-> {}]
            ELSE Sift(done[n - 1], Anchor(events[Len(events) + 1 - n], text))
    IN  InOrder(done[Len(events)].kept, LAMBDA a, b : a.si < b.si)
============================================================================
