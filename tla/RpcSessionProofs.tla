--------------------------- MODULE RpcSessionProofs ---------------------------
(* The session, for any inputs and any number of them.  SessionInv follows  *)
(* an input from the stream to its answer: what is left on the stream, how  *)
(* it was heard, where it stands in the channel, what is answered, and how  *)
(* the loop may have ended.                                                 *)
EXTENDS RpcSession, TLAPS, SequenceTheorems

Line == {"length", "badLength", "other"}

(* The header lines of the inputs sent.                                     *)
LEMMA Headers ==
    ASSUME TypeOK, NEW i \in 1..Len(sent)
    PROVE  sent[i].headers \in Seq(Line) /\ sent[i].headers # <<>>
  <1>1. sent[i] \in Inputs
    BY DEF TypeOK
  <1> QED BY <1>1, SessionAssumption DEF Line

(* A block whose first line is another's is framed as the rest of it is.    *)
LEMMA RestFrames ==
    ASSUME NEW lines \in Seq(Line), lines # <<>>
    PROVE  /\ IsFramed(Tail(lines)) => IsFramed(lines)
           /\ IsFramed(<<"other">> \o Tail(lines)) <=> IsFramed(Tail(lines))
  <1>1. Tail(lines) \in Seq(Line) /\ Len(Tail(lines)) = Len(lines) - 1
        /\ \A i \in 1..(Len(lines) - 1) : Tail(lines)[i] = lines[i + 1]
    BY HeadTailProperties
  <1> DEFINE rest == Tail(lines)
             all  == <<"other">> \o rest
  <1> HIDE DEF rest
  <1>2. all \in Seq(Line) /\ Len(all) = Len(rest) + 1 /\ all[1] = "other"
        /\ \A i \in 1..Len(rest) : all[i + 1] = rest[i]
    <2>1. <<"other">> \in Seq(Line) /\ Len(<<"other">>) = 1 /\ <<"other">>[1] = "other"
      BY DEF Line
    <2>2. rest \in Seq(Line) /\ Len(rest) \in Nat
      BY <1>1 DEF rest
    <2>3. \A i \in 1..(1 + Len(rest)) : all[i] = IF i <= 1 THEN "other" ELSE rest[i - 1]
      <3>1. \A i \in 1..(1 + Len(rest)) : i <= 1 => i = 1
        OBVIOUS
      <3> QED BY <2>1, <2>2, <3>1, ConcatProperties
    <2> QED BY <2>1, <2>2, <2>3, ConcatProperties
  <1>3. rest \in Seq(Line) /\ DOMAIN rest = 1..Len(rest)
    <2>1. rest \in Seq(Line)
      BY <1>1 DEF rest
    <2> QED BY <2>1
  <1>0. PICK n : n = Len(rest) /\ n \in Nat /\ Len(lines) = n + 1 /\ Len(all) = n + 1
    <2>1. Len(rest) \in Nat
      BY <1>3
    <2>2. Len(lines) \in Nat /\ Len(rest) = Len(lines) - 1
      BY <1>1 DEF rest
    <2>3. Len(lines) = Len(rest) + 1
      BY <2>1, <2>2
    <2> QED BY <1>2, <2>1, <2>3
  <1>4. ASSUME IsFramed(rest) PROVE IsFramed(lines)
    <2>1. PICK i \in 1..Len(rest) : rest[i] = "length" /\ \A j \in 1..Len(rest) : j > i => rest[j] = "other"
      BY <1>4, <1>3 DEF IsFramed
    <2>2. \A j \in 1..Len(lines) : j > i + 1 => lines[j] = "other"
      <3> TAKE j \in 1..Len(lines)
      <3> HAVE j > i + 1
      <3>1. j - 1 \in 1..Len(rest) /\ j - 1 > i /\ (j - 1) + 1 = j
        BY <1>1 DEF rest
      <3> QED BY <3>1, <2>1, <1>1 DEF rest
    <2>3. i + 1 \in 1..Len(lines) /\ lines[i + 1] = "length"
      BY <2>1, <1>1 DEF rest
    <2> QED BY <2>2, <2>3 DEF IsFramed
  <1>7. DOMAIN all = 1..Len(all)
    BY <1>2
  <1> HIDE DEF all
  <1>5. ASSUME IsFramed(rest) PROVE IsFramed(all)
    <2>1. PICK i \in 1..Len(rest) : rest[i] = "length" /\ \A j \in 1..Len(rest) : j > i => rest[j] = "other"
      BY <1>5, <1>3 DEF IsFramed
    <2>2. \A j \in 1..Len(all) : j > i + 1 => all[j] = "other"
      <3> TAKE j \in 1..Len(all)
      <3> HAVE j > i + 1
      <3>1. i \in 1..n /\ j \in 1..(n + 1)
        BY <1>0
      <3>2. j - 1 \in 1..n /\ j - 1 > i /\ (j - 1) + 1 = j
        BY <1>0, <3>1
      <3>3. rest[j - 1] = "other" /\ all[(j - 1) + 1] = rest[j - 1]
        BY <1>0, <1>2, <2>1, <3>2
      <3> QED BY <3>2, <3>3
    <2>3. i + 1 \in 1..Len(all) /\ all[i + 1] = "length"
      <3>1. i \in 1..n
        BY <1>0
      <3>2. i + 1 \in 1..(n + 1)
        BY <1>0, <3>1
      <3> QED BY <1>0, <1>2, <2>1, <3>2
    <2> QED BY <1>7, <2>2, <2>3 DEF IsFramed
  <1>6. ASSUME IsFramed(all) PROVE IsFramed(rest)
    <2>1. PICK i \in 1..Len(all) : all[i] = "length" /\ \A j \in 1..Len(all) : j > i => all[j] = "other"
      BY <1>6, <1>7 DEF IsFramed
    <2>0. i \in 1..(n + 1) /\ i # 1
      BY <2>1, <1>0, <1>2
    <2>2. i # 1 /\ i - 1 \in 1..Len(rest) /\ (i - 1) + 1 = i
      <3>1. i - 1 \in 1..n /\ (i - 1) + 1 = i
        BY <1>0, <2>0
      <3> QED BY <1>0, <2>0, <3>1
    <2>3. \A j \in 1..Len(rest) : j > i - 1 => rest[j] = "other"
      <3> TAKE j \in 1..Len(rest)
      <3> HAVE j > i - 1
      <3>1. j \in 1..n
        BY <1>0
      <3>2. j + 1 \in 1..(n + 1) /\ j + 1 > i
        BY <1>0, <2>0, <3>1
      <3>3. all[j + 1] = "other" /\ all[j + 1] = rest[j]
        BY <1>0, <1>2, <2>1, <3>2
      <3> QED BY <3>3
    <2>4. rest[i - 1] = "length"
      BY <2>1, <2>2, <1>2
    <2> QED BY <2>2, <2>3, <2>4, <1>3 DEF IsFramed
  <1> QED BY <1>4, <1>5, <1>6 DEF all, rest

(* A body is left after an input if it strays there, or ran on so far.      *)
LEMMA LeftNext ==
    ASSUME TypeOK, NEW n \in 1..Len(sent)
    PROVE  Left(n) <=> Strays(n) \/ (Left(n - 1) /\ RunsOn(n))
  <1>1. ASSUME Strays(n) PROVE Left(n)
    <2>1. n \in 1..n /\ \A k \in (n + 1)..n : RunsOn(k)
      OBVIOUS
    <2> QED BY <1>1, <2>1 DEF Left
  <1>2. ASSUME Left(n - 1), RunsOn(n) PROVE Left(n)
    <2>1. PICK j \in 1..(n - 1) : Strays(j) /\ \A k \in (j + 1)..(n - 1) : RunsOn(k)
      BY <1>2 DEF Left
    <2>2. \A k \in (j + 1)..n : RunsOn(k)
      <3> TAKE k \in (j + 1)..n
      <3>1. k = n \/ k \in (j + 1)..(n - 1)
        OBVIOUS
      <3> QED BY <3>1, <2>1, <1>2
    <2>3. j \in 1..n
      OBVIOUS
    <2> QED BY <2>1, <2>2, <2>3 DEF Left
  <1>3. ASSUME Left(n), ~Strays(n) PROVE Left(n - 1) /\ RunsOn(n)
    <2>1. PICK j \in 1..n : Strays(j) /\ \A k \in (j + 1)..n : RunsOn(k)
      BY <1>3 DEF Left
    <2>2. j # n
      BY <2>1, <1>3
    <2>3. j \in 1..(n - 1) /\ n \in (j + 1)..n
      BY <2>2
    <2>4. \A k \in (j + 1)..(n - 1) : RunsOn(k)
      <3> TAKE k \in (j + 1)..(n - 1)
      <3>1. k \in (j + 1)..n
        OBVIOUS
      <3> QED BY <3>1, <2>1
    <2> QED BY <2>1, <2>3, <2>4 DEF Left
  <1> QED BY <1>1, <1>2, <1>3

(* What is sent later changes nothing of what was.                          *)
LEMMA SentStays ==
    ASSUME Len(sent) \in Nat, \A i \in 1..Len(sent) : sent'[i] = sent[i]
    PROVE  /\ \A n \in 0..Len(sent) : Left(n)' <=> Left(n)
           /\ \A i \in 1..Len(sent) : (Lost(i)' <=> Lost(i)) /\ (IsOwed(i)' <=> IsOwed(i))
  <1>1. \A i \in 1..Len(sent) : (Strays(i)' <=> Strays(i)) /\ (RunsOn(i)' <=> RunsOn(i))
    BY DEF Strays, RunsOn
  <1>2. ASSUME NEW n \in 0..Len(sent) PROVE Left(n)' <=> Left(n)
    <2>1. \A j \in 1..n : /\ j \in 1..Len(sent)
                          /\ \A k \in (j + 1)..n : k \in 1..Len(sent)
      OBVIOUS
    <2>2. \A j \in 1..n : (\A k \in (j + 1)..n : RunsOn(k))' <=> (\A k \in (j + 1)..n : RunsOn(k))
      BY <1>1, <2>1
    <2> QED BY <1>1, <2>1, <2>2 DEF Left
  <1>3. ASSUME NEW i \in 1..Len(sent) PROVE Lost(i)' <=> Lost(i)
    <2>1. i - 1 \in 0..Len(sent)
      OBVIOUS
    <2>2. Left(i - 1)' <=> Left(i - 1)
      BY <1>2, <2>1
    <2> QED BY <2>2 DEF Lost
  <1> QED BY <1>2, <1>3 DEF IsOwed
-----------------------------------------------------------------------------
LEMMA SessionInit == Init => SessionInv
  <1> SUFFICES ASSUME Init PROVE SessionInv
    OBVIOUS
  <1>1. TypeOK
    <2>1. /\ sent \in Seq(Inputs) /\ heard \in Seq({Heard(in, a) : in \in Inputs, a \in BOOLEAN})
          /\ channel \in Seq(Nat) /\ answers \in Seq([to : Nat, reply : Reply])
      BY DEF Init
    <2>2. read <= Len(sent) /\ taken \in 0..read
      BY DEF Init, read
    <2>3. /\ adrift \in BOOLEAN /\ error \in BOOLEAN /\ shutdown \in BOOLEAN /\ exited \in BOOLEAN
          /\ reachable \in BOOLEAN
      BY Zenon DEF Init
    <2> QED BY <2>1, <2>2, <2>3 DEF Init, TypeOK
  <1>2. InChannel
    BY DEF Init, InChannel, read, Failed
  <1>3. LeftOver /\ HeardAsSent
    BY DEF Init, LeftOver, HeardAsSent, Left, read
  <1>4. StopsAtEnd /\ ErrorEnds /\ Told
    BY DEF Init, StopsAtEnd, ErrorEnds, Told
  <1>5. AnsweredInOrder
    BY DEF Init, AnsweredInOrder
  <1>6. loop # "over"
    BY DEF Init
  <1> QED BY <1>1, <1>2, <1>3, <1>4, <1>5, <1>6 DEF SessionInv

(* What the head of the channel is: the next input, or Io at its end.       *)
LEMMA HeadIsNext ==
    ASSUME TypeOK, InChannel, channel # <<>>
    PROVE  /\ Head(channel) # Io => Head(channel) = taken + 1 /\ taken < read
           /\ Head(channel) = Io => taken = read /\ Failed
  <1>1. /\ Head(channel) = channel[1] /\ Len(channel) \in Nat \ {0}
        /\ taken \in Nat /\ read \in Nat /\ taken <= read
    BY DEF TypeOK, read
  <1>2. CASE taken < read
    <2>1. 1 \in 1..(read - taken)
      BY <1>1, <1>2
    <2>2. channel[1] = taken + 1 /\ taken + 1 # 0
      BY <1>1, <2>1 DEF InChannel
    <2> QED BY <1>1, <1>2, <2>2 DEF Io
  <1>3. CASE taken = read
    <2>1. Failed /\ channel[Len(channel)] = Io /\ Len(channel) = 1
      BY <1>1, <1>3 DEF InChannel, Failed
    <2> QED BY <1>1, <1>3, <2>1
  <1> QED BY <1>1, <1>2, <1>3

(* An error once made stays one.                                            *)
LEMMA ErrorStays ==
    ASSUME error \in BOOLEAN, error' = error \/ error' = TRUE
    PROVE  error' \in BOOLEAN
  <1>1. CASE error' = error
    BY <1>1
  <1>2. CASE error' = TRUE
    BY <1>2
  <1> QED BY <1>1, <1>2

LEMMA TypeStep == TypeOK /\ InChannel /\ [Next]_vars => TypeOK'
  <1> SUFFICES ASSUME TypeOK, InChannel, [Next]_vars PROVE TypeOK'
    OBVIOUS
  <1> USE DEF read
  <1>1. ASSUME NEW in \in Inputs, Send(in) PROVE TypeOK'
    BY <1>1 DEF TypeOK, Send, reading, server
  <1>2. ASSUME NEW how \in {"closed", "cut"}, EndStream(how) PROVE TypeOK'
    BY <1>2 DEF TypeOK, EndStream, reading, server
  <1>3. CASE Leave
    <2>1. reachable' \in BOOLEAN
      BY <1>3, Zenon DEF Leave
    <2> QED BY <1>3, <2>1 DEF TypeOK, Leave, reading, server
  <1>4. CASE ReadMessage
    <2>1. CASE loop = "over"
      BY <1>4, <2>1 DEF TypeOK, ReadMessage, client, server
    <2>2. CASE loop # "over"
      <3> DEFINE Hears == {Heard(in, a) : in \in Inputs, a \in BOOLEAN}
                 h == Heard(sent[read + 1], adrift)
      <3>1. h \in Hears
        <4>1. sent[read + 1] \in Inputs /\ adrift \in BOOLEAN
          BY <1>4 DEF ReadMessage, TypeOK
        <4>2. \E in \in Inputs, a \in BOOLEAN : h = Heard(in, a)
          BY <4>1
        <4> QED BY <4>2
      <3>2. heard \in Seq(Hears) /\ heard' = Append(heard, h) /\ Len(heard) \in Nat
        BY <1>4, <2>2 DEF ReadMessage, TypeOK
      <3> HIDE DEF h, Hears
      <3>3. heard' \in Seq(Hears) /\ read' = read + 1
        BY <3>1, <3>2
      <3>4. adrift' \in BOOLEAN
        BY <1>4, <2>2 DEF ReadMessage, LeavesBody
      <3>5. channel' \in Seq(Nat)
        <4>1. channel \in Seq(Nat) /\ read + 1 \in Nat
          BY <3>2 DEF TypeOK
        <4>2. channel' = Append(channel, read + 1)
          BY <1>4, <2>2 DEF ReadMessage
        <4>3. PICK c, r : c = channel /\ r = read + 1
          OBVIOUS
        <4>4. Append(c, r) \in Seq(Nat)
          BY <4>1, <4>3
        <4> QED BY <4>2, <4>3, <4>4
      <3>6. taken' \in 0..read' /\ read' <= Len(sent')
        BY <1>4, <3>2, <3>3 DEF ReadMessage, TypeOK, client, server
      <3> QED BY <1>4, <2>2, <3>3, <3>4, <3>5, <3>6 DEF TypeOK, ReadMessage, client, server, Hears
    <2> QED BY <2>1, <2>2
  <1>5. CASE ReadEnd
    <2>1. channel' \in Seq(Nat)
      BY <1>5 DEF TypeOK, ReadEnd, Io
    <2> QED BY <1>5, <2>1 DEF TypeOK, ReadEnd, client, server
  <1>6. CASE Turn
    <2>1. error' \in BOOLEAN
      <3>1. error' = error \/ error' = TRUE
        BY <1>6, Zenon DEF Turn
      <3>2. error \in BOOLEAN
        BY DEF TypeOK
      <3> QED BY <3>1, <3>2, ErrorStays
    <2>2. loop' \in {"top", "waiting", "over"}
      BY <1>6 DEF Turn
    <2> QED BY <1>6, <2>1, <2>2 DEF TypeOK, Turn, client, reading
  <1>7. CASE Take
    <2>1. Head(channel) = taken + 1 /\ taken < read /\ channel # <<>>
      BY <1>7, HeadIsNext DEF Take
    <2>2. /\ loop' \in {"top", "over"}
          /\ error' = error \/ error' = TRUE
          /\ shutdown' \in BOOLEAN /\ exited' \in BOOLEAN
          /\ answers' = answers
             \/ \E reply \in Reply : answers' = Append(answers, [to |-> taken + 1, reply |-> reply])
      <3>1. PICK m \in {heard[Head(channel)]}, reply \in Replies(heard[Head(channel)]) :
              /\ shutdown' = (shutdown \/ Asks(m, "shutdown"))
              /\ exited' = (exited \/ Asks(m, "exit"))
              /\ IF reply = "none"
                 THEN /\ UNCHANGED answers
                      /\ \/ loop' = "top" /\ UNCHANGED error
                         \/ Notifies(m) /\ ~reachable /\ loop' = "over" /\ error' = TRUE
                 ELSE IF reachable
                 THEN /\ answers' = Append(answers, [to |-> Head(channel), reply |-> reply])
                      /\ loop' = "top" /\ UNCHANGED error
                 ELSE loop' = "over" /\ error' = TRUE /\ UNCHANGED answers
        BY <1>7 DEF Take
      <3>2. reply \in Reply
        BY <3>1 DEF Replies
      <3>3. loop' \in {"top", "over"}
        BY <3>1
      <3>4. error' = error \/ error' = TRUE
        BY <3>1, Zenon
      <3>5. shutdown' \in BOOLEAN /\ exited' \in BOOLEAN
        BY <3>1, Zenon
      <3>6. answers' = answers \/ answers' = Append(answers, [to |-> taken + 1, reply |-> reply])
        BY <2>1, <3>1
      <3> QED BY <3>2, <3>3, <3>4, <3>5, <3>6
    <2>3. answers' \in Seq([to : Nat, reply : Reply])
      <3>1. answers \in Seq([to : Nat, reply : Reply]) /\ taken + 1 \in Nat
        BY DEF TypeOK
      <3>2. \A reply \in Reply : [to |-> taken + 1, reply |-> reply] \in [to : Nat, reply : Reply]
        BY <3>1
      <3> DEFINE Answers == [to : Nat, reply : Reply]
      <3>3. \A a \in Answers : Append(answers, a) \in Seq(Answers)
        BY <3>1
      <3> QED BY <2>2, <3>1, <3>2, <3>3
    <2>4. channel' \in Seq(Nat) /\ taken' \in 0..read
      BY <1>7, <2>1 DEF Take, TypeOK
    <2>5. error' \in BOOLEAN
      <3>1. error \in BOOLEAN
        BY DEF TypeOK
      <3> QED BY <2>2, <3>1, ErrorStays
    <2>6. loop' \in {"top", "waiting", "over"}
      BY <2>2
    <2> QED BY <1>7, <2>2, <2>3, <2>4, <2>5, <2>6 DEF TypeOK, Take, client
  <1>8. CASE TakeError
    BY <1>8 DEF TypeOK, TakeError, client
  <1>9. CASE TakeClosed \/ TakeTimeout
    BY <1>9 DEF TypeOK, TakeClosed, TakeTimeout, client, reading
  <1>10. CASE UNCHANGED vars
    BY <1>10 DEF TypeOK, vars, client, reading, server
  <1> QED BY <1>1, <1>2, <1>3, <1>4, <1>5, <1>6, <1>7, <1>8, <1>9, <1>10
          DEF Next, ReaderStep, ServerStep, Ended
-----------------------------------------------------------------------------
(* What is heard.                                                           *)
LEMMA SentGrows ==
    ASSUME TypeOK, [Next]_vars
    PROVE  /\ Len(sent) \in Nat /\ \A i \in 1..Len(sent) : sent'[i] = sent[i]
           /\ sent' = sent \/ stream = "open"
  <1>1. ASSUME NEW in \in Inputs, Send(in)
        PROVE  (\A i \in 1..Len(sent) : sent'[i] = sent[i]) /\ stream = "open"
    BY <1>1 DEF Send, TypeOK
  <1>2. ASSUME ~\E in \in Inputs : Send(in) PROVE sent' = sent
    BY <1>2 DEF Next, EndStream, Leave, ReaderStep, ReadMessage, ReadEnd, ServerStep, Turn, Take,
                TakeError, TakeClosed, TakeTimeout, Ended, vars, client
  <1> QED BY <1>1, <1>2 DEF TypeOK

LEMMA ReadingOnly ==
    ASSUME [Next]_vars, ~(ReadMessage /\ loop # "over")
    PROVE  heard' = heard /\ (adrift' <=> adrift)
  BY DEF Next, Send, EndStream, Leave, ReaderStep, ReadMessage, ReadEnd, ServerStep, Turn, Take,
         TakeError, TakeClosed, TakeTimeout, Ended, vars, client, reading

LEMMA HearingStep ==
    TypeOK /\ LeftOver /\ HeardAsSent /\ [Next]_vars => LeftOver' /\ HeardAsSent'
  <1> SUFFICES ASSUME TypeOK, LeftOver, HeardAsSent, [Next]_vars
               PROVE  LeftOver' /\ HeardAsSent'
    OBVIOUS
  <1>1. /\ \A i \in 1..Len(sent) : sent'[i] = sent[i]
        /\ \A n \in 0..Len(sent) : Left(n)' <=> Left(n)
        /\ \A i \in 1..Len(sent) : Lost(i)' <=> Lost(i)
    BY SentGrows, SentStays
  <1>2. read \in Nat /\ read \in 0..Len(sent) /\ DOMAIN heard = 1..read
    BY DEF TypeOK, read
  <1>3. CASE heard' = heard /\ (adrift' <=> adrift)
    <2>1. LeftOver'
      BY <1>1, <1>2, <1>3 DEF LeftOver, read
    <2>2. HeardAsSent'
      <3> SUFFICES ASSUME NEW i \in 1..read PROVE Lost(i)' \/ heard[i] = Heard(sent'[i], FALSE)
        BY <1>2, <1>3 DEF HeardAsSent
      <3>1. i \in 1..Len(sent)
        BY <1>2
      <3> QED BY <1>1, <1>2, <3>1 DEF HeardAsSent
    <2> QED BY <2>1, <2>2
  <1>4. CASE ReadMessage /\ loop # "over"
    <2> DEFINE n  == read + 1
               in == sent[n]
    <2>1. /\ n \in 1..Len(sent) /\ sent' = sent
          /\ heard' = Append(heard, Heard(in, adrift))
          /\ adrift' <=> LeavesBody(in, adrift)
      BY <1>2, <1>4 DEF ReadMessage, client
    <2>2. /\ read' = n /\ DOMAIN heard' = 1..n /\ heard'[n] = Heard(in, adrift)
          /\ \A i \in 1..read : heard'[i] = heard[i]
      BY <1>2, <2>1 DEF read, TypeOK
    <2>3. /\ IsFramed(Tail(in.headers)) => IsFramed(in.headers)
          /\ IsFramed(<<"other">> \o Tail(in.headers)) <=> IsFramed(Tail(in.headers))
      BY <2>1, Headers, RestFrames
    <2>4. adrift <=> Left(n - 1)
      BY <1>2 DEF LeftOver
    <2>5. Left(n) <=> Strays(n) \/ (Left(n - 1) /\ RunsOn(n))
      BY <2>1, LeftNext
    <2>6. LeavesBody(in, adrift) <=> Left(n)
      <3>1. CASE adrift
        BY <2>3, <2>4, <2>5, <3>1 DEF LeavesBody, LinesRead, Strays, RunsOn
      <3>2. CASE ~adrift
        BY <2>4, <2>5, <3>2 DEF LeavesBody, LinesRead, Strays
      <3> QED BY <3>1, <3>2
    <2>7. Lost(n) \/ Heard(in, adrift) = Heard(in, FALSE)
      <3>1. CASE adrift
        BY <2>3, <2>4, <3>1 DEF Heard, LinesRead, Lost
      <3>2. CASE ~adrift
        <4>1. LinesRead(in, adrift) = LinesRead(in, FALSE)
          BY <3>2 DEF LinesRead
        <4> QED BY <4>1 DEF Heard
      <3> QED BY <3>1, <3>2
    <2> HIDE DEF n, in
    <2>8. LeftOver'
      BY <1>1, <2>1, <2>2, <2>6 DEF LeftOver
    <2>9. HeardAsSent'
      <3> SUFFICES ASSUME NEW i \in 1..n PROVE Lost(i)' \/ heard'[i] = Heard(sent[i], FALSE)
        BY <2>1, <2>2 DEF HeardAsSent
      <3>1. Lost(i)' <=> Lost(i)
        BY <1>1, <2>1
      <3>2. CASE i = n
        <4>1. heard'[i] = Heard(sent[i], adrift)
          BY <2>2, <3>2 DEF in
        <4>2. Lost(i) \/ Heard(sent[i], adrift) = Heard(sent[i], FALSE)
          BY <2>7, <3>2 DEF in
        <4> QED BY <3>1, <4>1, <4>2
      <3>3. CASE i \in 1..read
        <4>1. Lost(i) \/ heard[i] = Heard(sent[i], FALSE)
          BY <1>2, <3>3 DEF HeardAsSent
        <4> QED BY <2>2, <3>1, <3>3, <4>1
      <3>4. i = n \/ i \in 1..read
        BY <1>2 DEF n
      <3> QED BY <3>2, <3>3, <3>4
    <2> QED BY <2>8, <2>9
  <1> QED BY <1>3, <1>4, ReadingOnly
-----------------------------------------------------------------------------
(* The channel, and how the loop ends.                                      *)

(* What a step of Take does, by what the handler replied.                   *)
LEMMA TakeEffect ==
    ASSUME TypeOK, InChannel, Take
    PROVE  /\ channel # <<>> /\ channel' = Tail(channel) /\ taken' = taken + 1
           /\ taken + 1 \in 1..read /\ loop = "waiting"
           /\ UNCHANGED <<sent, stream, reachable, heard, adrift, reader>>
           /\ \E reply \in Replies(heard[taken + 1]) :
                /\ shutdown' <=> shutdown \/ Asks(heard[taken + 1], "shutdown")
                /\ exited => exited'
                /\ \/ loop' = "over" /\ error' /\ ~reachable /\ answers' = answers
                   \/ /\ loop' = "top" /\ error' = error
                      /\ reply = "none" => answers' = answers
                      /\ reply # "none" =>
                            answers' = Append(answers, [to |-> taken + 1, reply |-> reply])
  <1>1. Head(channel) = taken + 1 /\ taken < read /\ channel # <<>>
    BY HeadIsNext DEF Take
  <1>2. taken + 1 \in 1..read
    BY <1>1 DEF TypeOK, read
  <1>3. UNCHANGED <<sent, stream, reachable, heard, adrift, reader>>
    BY DEF Take, client
  <1>4. channel' = Tail(channel) /\ taken' = taken + 1 /\ loop = "waiting"
    BY DEF Take
  <1>5. PICK m \in {heard[taken + 1]}, reply \in Replies(heard[taken + 1]) :
          /\ shutdown' = (shutdown \/ Asks(m, "shutdown"))
          /\ exited' = (exited \/ Asks(m, "exit"))
          /\ IF reply = "none"
             THEN /\ UNCHANGED answers
                  /\ \/ loop' = "top" /\ UNCHANGED error
                     \/ Notifies(m) /\ ~reachable /\ loop' = "over" /\ error' = TRUE
             ELSE IF reachable
             THEN /\ answers' = Append(answers, [to |-> taken + 1, reply |-> reply])
                  /\ loop' = "top" /\ UNCHANGED error
             ELSE loop' = "over" /\ error' = TRUE /\ UNCHANGED answers
    BY <1>1 DEF Take
  <1>6. m = heard[taken + 1]
    OBVIOUS
  <1>7. /\ shutdown' <=> shutdown \/ Asks(heard[taken + 1], "shutdown")
        /\ exited => exited'
    BY <1>5, <1>6, Zenon
  <1>8. \/ loop' = "over" /\ error' /\ ~reachable /\ answers' = answers
        \/ /\ loop' = "top" /\ error' = error
           /\ reply = "none" => answers' = answers
           /\ reply # "none" =>
                 answers' = Append(answers, [to |-> taken + 1, reply |-> reply])
    BY <1>5, Zenon
  <1> QED BY <1>1, <1>2, <1>3, <1>4, <1>7, <1>8

LEMMA ChannelStep == TypeOK /\ InChannel /\ [Next]_vars => InChannel'
  <1> SUFFICES ASSUME TypeOK, InChannel, [Next]_vars PROVE InChannel'
    OBVIOUS
  <1>1. /\ read \in Nat /\ taken \in Nat /\ taken <= read
        /\ channel \in Seq(Nat) /\ Len(channel) \in Nat
    BY DEF TypeOK, read
  <1>2. CASE UNCHANGED <<heard, channel, taken, reader>>
    BY <1>2 DEF InChannel, Failed, read
  <1>3. CASE ReadMessage
    <2>1. CASE loop = "over"
      BY <1>3, <2>1 DEF ReadMessage, InChannel, Failed, read, server
    <2>2. CASE loop # "over"
      <3>1. /\ channel' = Append(channel, read + 1) /\ taken' = taken
            /\ reader = "reading" /\ heard' = Append(heard, Heard(sent[read + 1], adrift))
        BY <1>3, <2>2 DEF ReadMessage, server
      <3>2. read' = read + 1
        BY <3>1 DEF TypeOK, read
      <3>3. Len(channel) = read - taken
        BY <3>1 DEF InChannel
      <3>4. /\ Len(channel') = Len(channel) + 1 /\ channel'[Len(channel) + 1] = read + 1
            /\ \A k \in 1..Len(channel) : channel'[k] = channel[k]
        BY <1>1, <3>1
      <3>5. \A k \in 1..(read' - taken') : channel'[k] = taken' + k
        <4> TAKE k \in 1..(read' - taken')
        <4>1. k \in 1..(read - taken) \/ k = (read - taken) + 1
          BY <1>1, <3>1, <3>2
        <4>2. CASE k \in 1..(read - taken)
          BY <3>1, <3>3, <3>4, <4>2 DEF InChannel
        <4>3. CASE k = (read - taken) + 1
          BY <1>1, <3>1, <3>3, <3>4, <4>3
        <4> QED BY <4>1, <4>2, <4>3
      <3>6. Len(channel') = read' - taken'
        BY <1>1, <3>1, <3>2, <3>3, <3>4
      <3> QED BY <3>5, <3>6 DEF InChannel
    <2> QED BY <2>1, <2>2
  <1>4. CASE ReadEnd
    <2>1. /\ taken' = taken /\ read' = read /\ reader = "reading" /\ reader' = "stopped"
          /\ channel' = channel \/ channel' = Append(channel, Io)
      BY <1>4 DEF ReadEnd, server, read
    <2>2. Len(channel) = read - taken
      BY <2>1 DEF InChannel
    <2>3. CASE channel' = channel
      BY <2>1, <2>2, <2>3 DEF InChannel
    <2>4. CASE channel' = Append(channel, Io)
      <3>1. /\ Len(channel') = read - taken + 1 /\ channel'[Len(channel')] = Io
            /\ \A k \in 1..(read - taken) : channel'[k] = channel[k]
        BY <1>1, <2>2, <2>4 DEF Io
      <3> QED BY <2>1, <3>1 DEF InChannel, Failed
    <2> QED BY <2>1, <2>3, <2>4
  <1>5. CASE Take
    <2>1. /\ channel' = Tail(channel) /\ taken' = taken + 1 /\ read' = read
          /\ taken + 1 <= read /\ channel # <<>> /\ reader' = reader
      BY <1>1, <1>5, TakeEffect DEF read
    <2>2. /\ Len(channel') = Len(channel) - 1
          /\ \A k \in 1..(Len(channel) - 1) : channel'[k] = channel[k + 1]
      BY <1>1, <2>1, HeadTailProperties
    <2>3. Len(channel) >= read - taken
      BY <1>1 DEF InChannel, Failed
    <2>4. \A k \in 1..(read' - taken') : channel'[k] = taken' + k
      <3> TAKE k \in 1..(read' - taken')
      <3>1. k + 1 \in 1..(read - taken) /\ k \in 1..(Len(channel) - 1)
        BY <1>1, <2>1, <2>3
      <3>2. channel[k + 1] = taken + (k + 1)
        BY <3>1 DEF InChannel
      <3> QED BY <1>1, <2>1, <2>2, <3>1, <3>2
    <2>5. CASE Len(channel) = read - taken
      BY <1>1, <2>1, <2>2, <2>4, <2>5 DEF InChannel
    <2>6. CASE Failed /\ channel[Len(channel)] = Io /\ reader = "stopped"
      <3>1. Len(channel) - 1 \in 1..(Len(channel) - 1)
        BY <1>1, <2>1, <2>6 DEF Failed
      <3>2. channel'[Len(channel')] = channel[Len(channel)]
        BY <1>1, <2>2, <3>1
      <3>3. Failed'
        BY <1>1, <2>1, <2>2, <2>6 DEF Failed
      <3> QED BY <2>1, <2>4, <2>6, <3>2, <3>3 DEF InChannel, Io
    <2> QED BY <2>5, <2>6 DEF InChannel
  <1>6. CASE TakeError
    <2>1. /\ channel # <<>> /\ channel' = Tail(channel) /\ taken' = taken /\ read' = read
          /\ taken = read /\ Len(channel) = read - taken + 1
      BY <1>6, HeadIsNext DEF TakeError, read, Failed
    <2>2. Len(channel') = read' - taken'
      BY <1>1, <2>1, HeadTailProperties
    <2>3. 1..(read' - taken') = {}
      BY <1>1, <2>1
    <2> QED BY <2>2, <2>3 DEF InChannel
  <1> QED BY <1>2, <1>3, <1>4, <1>5, <1>6
          DEF Next, Send, EndStream, Leave, ReaderStep, ServerStep, Turn, TakeClosed, TakeTimeout,
              Ended, vars, reading, server

(* Once over the loop does nothing more.                                    *)
LEMMA OverStays ==
    ASSUME [Next]_vars, loop = "over"
    PROVE  /\ loop' = "over" /\ UNCHANGED <<taken, error, shutdown, exited, answers, heard>>
           /\ reachable' => reachable
  BY DEF Next, Send, EndStream, Leave, ReaderStep, ReadMessage, ReadEnd, ServerStep, Turn, Take,
         TakeError, TakeClosed, TakeTimeout, Ended, vars, client, reading, server

(* The client and the reader leave the server as it is, a step of the       *)
(* server's other than Take only says how it goes on.                       *)
LEMMA OthersLeave ==
    ASSUME [Next]_vars, ~Take
    PROVE  /\ UNCHANGED <<taken, shutdown, exited, answers>>
           /\ error => error'
           /\ reachable' => reachable
  BY DEF Next, Send, EndStream, Leave, ReaderStep, ReadMessage, ReadEnd, ServerStep, Turn,
         TakeError, TakeClosed, TakeTimeout, Ended, vars, client, reading, server

(* Errors are the loop's last word.                                         *)
LEMMA ErrorStep == TypeOK /\ InChannel /\ ErrorEnds /\ [Next]_vars => ErrorEnds'
  <1> SUFFICES ASSUME TypeOK, InChannel, ErrorEnds, [Next]_vars PROVE ErrorEnds'
    OBVIOUS
  <1>1. CASE loop = "over"
    BY <1>1, OverStays DEF ErrorEnds
  <1>2. CASE Take
    BY <1>2, TakeEffect DEF ErrorEnds
  <1>3. CASE loop # "over" /\ ~Take
    <2>1. ~error
      BY <1>3 DEF ErrorEnds
    <2>2. error' = error \/ loop' = "over"
      BY <1>3 DEF Next, Send, EndStream, Leave, ReaderStep, ReadMessage, ReadEnd, ServerStep, Turn,
             TakeError, TakeClosed, TakeTimeout, Ended, vars, client, reading, server
    <2> QED BY <2>1, <2>2 DEF ErrorEnds
  <1> QED BY <1>1, <1>2, <1>3

LEMMA StopStep ==
    TypeOK /\ InChannel /\ LeftOver /\ StopsAtEnd /\ [Next]_vars => StopsAtEnd'
  <1> SUFFICES ASSUME TypeOK, InChannel, LeftOver, StopsAtEnd, [Next]_vars,
                      (reader = "stopped")', (loop # "over")'
               PROVE  /\ read' = Len(sent') /\ stream' # "open"
                      /\ Failed' <=> EndsInside'
    BY DEF StopsAtEnd
  <1>1. loop # "over"
    BY OverStays
  <1>2. Left(Len(sent))' <=> Left(Len(sent))
    <2>1. CASE sent' = sent
      BY <2>1 DEF Left, Strays, RunsOn
    <2>2. CASE sent' # sent
      <3>1. /\ stream = "open" /\ reader = "stopped"
        BY <2>2 DEF Next, Send, EndStream, Leave, ReaderStep, ReadMessage, ReadEnd, ServerStep, Turn,
             Take, TakeError, TakeClosed, TakeTimeout, Ended, vars, client, reading
      <3> QED BY <1>1, <3>1 DEF StopsAtEnd
    <2> QED BY <2>1, <2>2
  <1>3. CASE reader = "stopped"
    <2>1. /\ read = Len(sent) /\ stream # "open" /\ (Failed <=> EndsInside)
      BY <1>1, <1>3 DEF StopsAtEnd
    <2>2. UNCHANGED <<sent, stream, heard>>
      BY <1>3, <2>1 DEF Next, Send, EndStream, Leave, ReaderStep, ReadMessage, ReadEnd, ServerStep,
             Turn, Take, TakeError, TakeClosed, TakeTimeout, Ended, vars, client, reading
    <2>3. EndsInside' <=> EndsInside
      BY <1>2, <2>2 DEF EndsInside
    <2>4. Failed' <=> Failed
      <3>1. CASE Take
        <4>1. /\ channel # <<>> /\ channel' = Tail(channel) /\ taken' = taken + 1
          BY <3>1, TakeEffect
        <4>2. Len(channel') = Len(channel) - 1 /\ Len(channel) \in Nat
          BY <4>1, HeadTailProperties DEF TypeOK
        <4>3. read \in Nat /\ taken \in Nat /\ read' = read
          BY <2>2 DEF TypeOK, read
        <4> QED BY <4>1, <4>2, <4>3 DEF Failed
      <3>2. CASE ~Take
        <4>1. UNCHANGED <<channel, taken>>
          BY <1>3, <3>2 DEF Next, Send, EndStream, Leave, ReaderStep, ReadMessage, ReadEnd,
               ServerStep, Turn, TakeError, TakeClosed, TakeTimeout, Ended, vars, client, reading, server
        <4> QED BY <2>2, <4>1 DEF Failed, read
      <3> QED BY <3>1, <3>2
    <2> QED BY <2>1, <2>2, <2>3, <2>4 DEF read
  <1>4. CASE reader # "stopped"
    <2>1. ReadEnd
      BY <1>1, <1>4 DEF Next, Send, EndStream, Leave, ReaderStep, ReadMessage, ServerStep, Turn,
             Take, TakeError, TakeClosed, TakeTimeout, Ended, vars, client, reading, server
    <2>2. /\ reader = "reading" /\ read = Len(sent) /\ stream # "open"
          /\ UNCHANGED <<sent, stream, heard, taken>>
          /\ channel' = IF stream = "cut" \/ adrift THEN Append(channel, Io) ELSE channel
      BY <1>1, <2>1 DEF ReadEnd, client, server
    <2>3. Len(channel) = read - taken /\ read \in Nat /\ taken \in Nat /\ channel \in Seq(Nat)
      BY <2>2 DEF InChannel, TypeOK, read
    <2>4. Failed' <=> stream = "cut" \/ adrift
      <3>1. CASE stream = "cut" \/ adrift
        BY <2>2, <2>3, <3>1 DEF Failed, Io, read
      <3>2. CASE ~(stream = "cut" \/ adrift)
        BY <2>2, <2>3, <3>2 DEF Failed, read
      <3> QED BY <3>1, <3>2
    <2>5. EndsInside' <=> stream = "cut" \/ adrift
      BY <1>2, <2>2 DEF EndsInside, LeftOver
    <2> QED BY <2>2, <2>4, <2>5 DEF read
  <1> QED BY <1>3, <1>4

Ends == loop = "over" => EndsAsItShould

LEMMA EndStep ==
    TypeOK /\ InChannel /\ StopsAtEnd /\ ErrorEnds /\ Ends /\ [Next]_vars => Ends'
  <1> SUFFICES ASSUME TypeOK, InChannel, StopsAtEnd, ErrorEnds, Ends, [Next]_vars, (loop = "over")'
               PROVE  EndsAsItShould'
    BY DEF Ends
  <1>1. CASE loop = "over"
    <2>1. /\ EndsAsItShould /\ UNCHANGED <<taken, error, exited>> /\ (reachable' => reachable)
      BY <1>1, OverStays DEF Ends
    <2>2. CASE exited \/ (~reachable /\ error)
      BY <2>1, <2>2 DEF EndsAsItShould
    <2>3. CASE taken = Len(sent) /\ stream # "open" /\ (EndsInside <=> error)
      <3>1. UNCHANGED <<sent, stream>>
        BY <2>3 DEF Next, Send, EndStream, Leave, ReaderStep, ReadMessage, ReadEnd, ServerStep,
               Turn, Take, TakeError, TakeClosed, TakeTimeout, Ended, vars, client, reading
      <3>2. EndsInside' <=> EndsInside
        BY <3>1 DEF EndsInside, Left, Strays, RunsOn
      <3> QED BY <2>1, <2>3, <3>1, <3>2 DEF EndsAsItShould
    <2> QED BY <2>1, <2>2, <2>3 DEF EndsAsItShould
  <1>2. CASE loop # "over"
    <2>1. CASE Turn
      BY <1>2, <2>1 DEF Turn, EndsAsItShould, client
    <2>2. CASE Take
      BY <2>2, TakeEffect DEF EndsAsItShould
    <2>3. ASSUME TakeError \/ TakeClosed PROVE EndsAsItShould'
      <3>1. UNCHANGED <<sent, stream, taken>>
        BY <2>3 DEF TakeError, TakeClosed, client
      <3>2. EndsInside' <=> EndsInside
        BY <3>1 DEF EndsInside, Left, Strays, RunsOn
      <3>3. read \in Nat /\ taken \in Nat /\ taken <= read
        BY DEF TypeOK, read
      <3>4. CASE TakeError
        <4>1. taken = read /\ Failed /\ error'
          BY <3>4, HeadIsNext DEF TakeError
        <4>2. reader = "stopped"
          BY <3>3, <4>1 DEF InChannel, Failed
        <4> QED BY <1>2, <3>1, <3>2, <4>1, <4>2 DEF StopsAtEnd, EndsAsItShould
      <3>5. CASE TakeClosed
        <4>1. /\ reader = "stopped" /\ Len(channel) = 0 /\ error' = error /\ ~error
          BY <1>2, <3>5 DEF TakeClosed, ErrorEnds
        <4>2. ~Failed /\ taken = read
          BY <3>3, <4>1 DEF Failed, InChannel
        <4> QED BY <1>2, <3>1, <3>2, <4>1, <4>2 DEF StopsAtEnd, EndsAsItShould
      <3> QED BY <2>3, <3>4, <3>5
    <2> QED BY <1>2, <2>1, <2>2, <2>3 DEF Next, Send, EndStream, Leave, ReaderStep, ReadMessage,
               ReadEnd, ServerStep, TakeTimeout, Ended, vars, client, reading, server
  <1> QED BY <1>1, <1>2
-----------------------------------------------------------------------------
(* The answers.                                                             *)
Answered(i) == \E k \in DOMAIN answers : answers[k].to = i

(* A request for a method that is a request's is answered by every reply    *)
(* there is to it, and one to shut down with a result.                      *)
LEMMA RequestsHaveReplies ==
    ASSUME NEW m, Request(m), NEW reply \in Replies(m)
    PROVE  /\ m.method \in {"query", "unknown", "shutdown"} => reply # "none"
           /\ m.method = "shutdown" => reply = "result"
  BY DEF Request, Replies

(* Take answers what it takes or nothing.                                   *)
LEMMA AnswersGrow ==
    ASSUME TypeOK, InChannel, Take
    PROVE  /\ Len(answers) \in Nat /\ DOMAIN answers = 1..Len(answers)
           /\ \A k \in DOMAIN answers : k \in DOMAIN answers' /\ answers'[k] = answers[k]
           /\ \/ DOMAIN answers' = DOMAIN answers
              \/ /\ DOMAIN answers' = 1..(Len(answers) + 1)
                 /\ answers'[Len(answers) + 1].to = taken + 1
  <1>1. Len(answers) \in Nat /\ DOMAIN answers = 1..Len(answers)
    BY DEF TypeOK
  <1>2. PICK reply \in Replies(heard[taken + 1]) :
          answers' = answers \/ answers' = Append(answers, [to |-> taken + 1, reply |-> reply])
    BY TakeEffect
  <1>3. CASE answers' = answers
    BY <1>1, <1>3
  <1>4. CASE answers' = Append(answers, [to |-> taken + 1, reply |-> reply])
    <2> DEFINE a == [to |-> taken + 1, reply |-> reply]
    <2>1. a.to = taken + 1
      OBVIOUS
    <2>2. answers \in Seq([to : Nat, reply : Reply])
      BY DEF TypeOK
    <2> HIDE DEF a
    <2>3. answers' = Append(answers, a)
      BY <1>4 DEF a
    <2>4. /\ DOMAIN answers' = 1..(Len(answers) + 1) /\ answers'[Len(answers) + 1] = a
          /\ \A k \in 1..Len(answers) : answers'[k] = answers[k]
      BY <1>1, <2>2, <2>3
    <2>5. \A k \in DOMAIN answers : k \in DOMAIN answers' /\ answers'[k] = answers[k]
      BY <1>1, <2>4
    <2>6. answers'[Len(answers) + 1].to = taken + 1
      BY <2>1, <2>4
    <2> QED BY <1>1, <2>4, <2>5, <2>6
  <1> QED BY <1>2, <1>3, <1>4

LEMMA ToldStep == TypeOK /\ InChannel /\ Told /\ [Next]_vars => Told'
  <1> SUFFICES ASSUME TypeOK, InChannel, Told, [Next]_vars, shutdown', ~error'
               PROVE  WasAsked'
    BY DEF Told
  <1>1. \A i \in 1..read : heard'[i] = heard[i]
    <2>1. CASE heard' = heard
      BY <2>1
    <2>2. CASE ReadMessage /\ loop # "over"
      <3> DEFINE h == Heard(sent[read + 1], adrift)
                 Hears == {Heard(in, a) : in \in Inputs, a \in BOOLEAN}
      <3>1. heard' = Append(heard, h)
        BY <2>2 DEF ReadMessage
      <3>2. heard \in Seq(Hears) /\ read = Len(heard)
        BY DEF TypeOK, read
      <3> HIDE DEF h, Hears
      <3> QED BY <3>1, <3>2
    <2> QED BY <2>1, <2>2, ReadingOnly
  <1>2. taken \in Nat /\ read \in Nat /\ taken <= read
    BY DEF TypeOK, read
  <1>3. CASE ~Take
    <2>1. UNCHANGED <<taken, answers>> /\ WasAsked
      BY <1>3, OthersLeave DEF Told
    <2>2. PICK i \in 1..taken : /\ Asks(heard[i], "shutdown")
                                /\ Request(heard[i]) => \E k \in DOMAIN answers :
                                         answers[k].to = i /\ answers[k].reply = "result"
      BY <2>1 DEF WasAsked
    <2>3. i \in 1..read
      BY <1>2
    <2>4. Asks(heard'[i], "shutdown") /\ (Request(heard'[i]) <=> Request(heard[i]))
      BY <1>1, <2>2, <2>3
    <2> QED BY <2>1, <2>2, <2>4 DEF WasAsked
  <1>4. CASE Take
    <2>1. PICK reply \in Replies(heard[taken + 1]) :
            /\ shutdown' <=> shutdown \/ Asks(heard[taken + 1], "shutdown")
            /\ \/ loop' = "over" /\ error' /\ ~reachable /\ answers' = answers
               \/ /\ loop' = "top" /\ error' = error
                  /\ reply = "none" => answers' = answers
                  /\ reply # "none" =>
                        answers' = Append(answers, [to |-> taken + 1, reply |-> reply])
      BY <1>4, TakeEffect
    <2>2. /\ error' = error /\ heard' = heard /\ taken' = taken + 1
          /\ reply # "none" => answers' = Append(answers, [to |-> taken + 1, reply |-> reply])
      BY <1>4, <2>1, TakeEffect
    <2>3. CASE shutdown
      <3>1. WasAsked
        BY <2>2, <2>3 DEF Told
      <3>2. PICK i \in 1..taken : /\ Asks(heard[i], "shutdown")
                                  /\ Request(heard[i]) => \E k \in DOMAIN answers :
                                           answers[k].to = i /\ answers[k].reply = "result"
        BY <3>1 DEF WasAsked
      <3>3. i \in 1..taken'
        BY <1>2, <2>2
      <3>4. Request(heard[i]) => \E k \in DOMAIN answers' :
                                          answers'[k].to = i /\ answers'[k].reply = "result"
        <4>1. \A k \in DOMAIN answers : k \in DOMAIN answers' /\ answers'[k] = answers[k]
          BY <1>4, AnswersGrow
        <4> QED BY <3>2, <4>1
      <3> QED BY <2>2, <3>2, <3>3, <3>4 DEF WasAsked
    <2>4. CASE Asks(heard[taken + 1], "shutdown")
      <3> DEFINE m == heard[taken + 1]
      <3>1. taken + 1 \in 1..taken'
        BY <1>2, <2>2
      <3>2. ASSUME Request(m)
            PROVE  \E k \in DOMAIN answers' : answers'[k].to = taken + 1 /\ answers'[k].reply = "result"
        <4>1. m.method = "shutdown"
          BY <2>4 DEF Asks
        <4>2. reply = "result"
          BY <3>2, <4>1, RequestsHaveReplies
        <4> DEFINE a == [to |-> taken + 1, reply |-> "result"]
        <4>3. a.to = taken + 1 /\ a.reply = "result"
          OBVIOUS
        <4>4. answers \in Seq([to : Nat, reply : Reply]) /\ Len(answers) \in Nat
          BY DEF TypeOK
        <4>5. answers' = Append(answers, a)
          BY <2>2, <4>2
        <4> HIDE DEF a
        <4>6. Len(answers) + 1 \in DOMAIN answers' /\ answers'[Len(answers) + 1] = a
          BY <4>4, <4>5
        <4> QED BY <4>3, <4>6
      <3> QED BY <2>2, <2>4, <3>1, <3>2 DEF WasAsked
    <2> QED BY <2>1, <2>3, <2>4
  <1> QED BY <1>3, <1>4

LEMMA AnswerStep ==
    TypeOK /\ InChannel /\ HeardAsSent /\ AnsweredInOrder /\ [Next]_vars => AnsweredInOrder'
  <1> SUFFICES ASSUME TypeOK, InChannel, HeardAsSent, AnsweredInOrder, [Next]_vars
               PROVE  AnsweredInOrder'
    OBVIOUS
  <1>1. /\ taken \in Nat /\ read \in Nat /\ taken <= read /\ read <= Len(sent) /\ Len(sent) \in Nat
        /\ DOMAIN heard = 1..read
    BY DEF TypeOK, read
  <1>2. \A i \in 1..Len(sent) : IsOwed(i)' <=> IsOwed(i)
    BY SentGrows, SentStays
  <1>3. CASE ~Take
    <2>1. UNCHANGED <<taken, answers>> /\ (reachable' => reachable)
      BY <1>3, OthersLeave
    <2>2. loop = "over" => loop' = "over" /\ error' = error
      BY OverStays
    <2>3. ASSUME NEW i \in 1..taken, IsOwed(i)'
          PROVE  Answered(i) \/ (i = taken /\ loop' = "over" /\ error' /\ ~reachable')
      <3>1. IsOwed(i)
        BY <1>1, <1>2, <2>3
      <3> QED BY <2>1, <2>2, <3>1 DEF AnsweredInOrder, Answered
    <2> QED BY <2>1, <2>3 DEF AnsweredInOrder, Answered
  <1>4. CASE Take
    <2>1. /\ taken' = taken + 1 /\ taken + 1 \in 1..read /\ sent' = sent /\ loop # "over"
          /\ reachable' = reachable
      BY <1>4, TakeEffect
    <2>2. /\ Len(answers) \in Nat /\ DOMAIN answers = 1..Len(answers)
          /\ \A k \in DOMAIN answers : k \in DOMAIN answers' /\ answers'[k] = answers[k]
          /\ \/ DOMAIN answers' = DOMAIN answers
             \/ /\ DOMAIN answers' = 1..(Len(answers) + 1)
                /\ answers'[Len(answers) + 1].to = taken + 1
      BY <1>4, AnswersGrow
    <2>3. \A k \in DOMAIN answers : answers[k].to \in 1..taken
      BY DEF AnsweredInOrder
    <2>4. \A k \in DOMAIN answers' : \/ k \in DOMAIN answers
                                     \/ k = Len(answers) + 1 /\ answers'[k].to = taken + 1
      <3>1. CASE DOMAIN answers' = DOMAIN answers
        BY <3>1
      <3>2. CASE DOMAIN answers' = 1..(Len(answers) + 1) /\ answers'[Len(answers) + 1].to = taken + 1
        BY <2>2, <3>2
      <3> QED BY <2>2, <3>1, <3>2
    <2>5. \A k \in DOMAIN answers' : answers'[k].to \in 1..taken'
      <3> TAKE k \in DOMAIN answers'
      <3>1. CASE k \in DOMAIN answers
        <4>1. answers'[k].to \in 1..taken
          BY <2>2, <2>3, <3>1
        <4> QED BY <1>1, <2>1, <4>1
      <3>2. CASE k = Len(answers) + 1 /\ answers'[k].to = taken + 1
        BY <1>1, <2>1, <3>2
      <3> QED BY <2>4, <3>1, <3>2
    <2>6. \A k, l \in DOMAIN answers' : k < l => answers'[k].to < answers'[l].to
      <3> TAKE k, l \in DOMAIN answers'
      <3> HAVE k < l
      <3>1. CASE l \in DOMAIN answers
        <4>1. k \in DOMAIN answers
          BY <2>2, <2>4, <3>1
        <4>2. answers[k].to < answers[l].to
          BY <3>1, <4>1 DEF AnsweredInOrder
        <4> QED BY <2>2, <3>1, <4>1, <4>2
      <3>2. CASE l = Len(answers) + 1 /\ answers'[l].to = taken + 1
        <4>1. k \in DOMAIN answers
          BY <2>2, <2>4, <3>2
        <4>2. answers'[k].to \in 1..taken
          BY <2>2, <2>3, <4>1
        <4> QED BY <1>1, <3>2, <4>2
      <3> QED BY <2>4, <3>1, <3>2
    <2>7. ASSUME NEW i \in 1..taken', IsOwed(i)'
          PROVE  \/ \E k \in DOMAIN answers' : answers'[k].to = i
                 \/ i = taken' /\ loop' = "over" /\ error' /\ ~reachable'
      <3>1. i \in 1..Len(sent) /\ IsOwed(i)
        <4>1. i \in 1..Len(sent)
          BY <1>1, <2>1
        <4> QED BY <1>2, <2>7, <4>1
      <3>2. CASE i \in 1..taken
        <4>1. Answered(i)
          BY <2>1, <3>1, <3>2 DEF AnsweredInOrder, Answered
        <4> QED BY <2>2, <4>1 DEF Answered
      <3>3. CASE i = taken + 1
        <4>1. PICK reply \in Replies(heard[i]) :
                \/ loop' = "over" /\ error' /\ ~reachable
                \/ reply # "none" => answers' = Append(answers, [to |-> i, reply |-> reply])
          BY <1>4, <3>3, TakeEffect
        <4>2. heard[i] = Heard(sent[i], FALSE)
          BY <1>1, <2>1, <3>1, <3>3 DEF HeardAsSent, IsOwed
        <4>3. Request(heard[i]) /\ heard[i].method \in {"query", "unknown", "shutdown"}
          BY <3>1, <4>2 DEF IsOwed
        <4>4. reply # "none"
          BY <4>3, RequestsHaveReplies
        <4>5. ASSUME answers' = Append(answers, [to |-> i, reply |-> reply])
              PROVE  \E k \in DOMAIN answers' : answers'[k].to = i
          <5> DEFINE a == [to |-> i, reply |-> reply]
          <5>1. a.to = i
            OBVIOUS
          <5>2. answers' = Append(answers, a)
            BY <4>5
          <5> DEFINE Answers == [to : Nat, reply : Reply]
          <5>3. answers \in Seq(Answers) /\ Len(answers) \in Nat
            BY DEF TypeOK
          <5> HIDE DEF a, Answers
          <5>4. Len(answers) + 1 \in DOMAIN answers' /\ answers'[Len(answers) + 1] = a
            BY <5>2, <5>3
          <5> QED BY <5>1, <5>4
        <4> QED BY <2>1, <3>3, <4>1, <4>4, <4>5
      <3> QED BY <1>1, <2>1, <3>2, <3>3
    <2> QED BY <2>5, <2>6, <2>7 DEF AnsweredInOrder
  <1> QED BY <1>3, <1>4
-----------------------------------------------------------------------------
(* The reader thread and Server::run keep SessionInv.                       *)
THEOREM SessionCorrect == Spec => []SessionInv
  <1>1. SessionInv /\ [Next]_vars => SessionInv'
    BY TypeStep, ChannelStep, HearingStep, StopStep, ErrorStep, ToldStep, AnswerStep, EndStep
       DEF SessionInv, Ends
  <1> QED BY SessionInit, <1>1, PTL DEF Spec

(* read_message: what is malformed before an input does not change how it   *)
(* is heard, beyond the block its body runs into.                           *)
THEOREM InputsAreHeard == Spec => []HeardAsSent
  <1>1. SessionInv => HeardAsSent
    BY DEF SessionInv
  <1> QED BY SessionCorrect, <1>1, PTL

(* Server::handle_contained: a request is answered once and in its turn.    *)
THEOREM RequestsHaveTheirTurn == Spec => []AnsweredInOrder
  <1>1. SessionInv => AnsweredInOrder
    BY DEF SessionInv
  <1> QED BY SessionCorrect, <1>1, PTL

(* Server::run: the loop ends for a reason, and the exit status says so.    *)
THEOREM SessionEndsRightly == Spec => []EndsForAReason
  <1>1. SessionInv => EndsForAReason
    <2> SUFFICES ASSUME SessionInv, loop = "over" PROVE EndsAsItShould /\ (Status = 0 => WasAsked)
      BY DEF EndsForAReason
    <2>1. Status = 0 => shutdown /\ ~error
      BY DEF Status
    <2> QED BY <2>1 DEF SessionInv, Told
  <1> QED BY SessionCorrect, <1>1, PTL
=============================================================================
