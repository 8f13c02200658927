---------------------------- MODULE RpcSession -----------------------------
(* A session of the server from stream to exit status: the reader thread of *)
(* rs/src/jsonrpc.rs framing the client's bytes into a channel, and         *)
(* Server::run of rs/src/server.rs taking what it framed, answering it, and *)
(* ending.  What a handler does is LspServer's subject; here it only        *)
(* answers, fails, or panics.                                               *)
(*                                                                          *)
(* Next to some definitions stands a faulty form no action uses, named for  *)
(* the mistake: what the properties below are there to catch.               *)
EXTENDS Framing

CONSTANTS
    Inputs,         \* what the client may send
    MaxMessages     \* bound: inputs in a session

(* The methods, by what the server may do with one:                         *)
(*   query      a request's: its result, bad params, a panic                *)
(*   notice     a notification's: handled, ignored or logged                *)
(*   shutdown, exit                                                         *)
(*   unknown    one the server does not have                                *)
(* and its answers to what it heard, "none" being no answer; a request has  *)
(* an id and a method.                                                      *)
Reply == {"result", "InvalidParams", "InternalError", "MethodNotFound",
          "ParseError", "InvalidRequest", "none"}

RepliesUnlessPanic(m) ==
    IF m.is = "message" /\ m.method = "query" THEN {"result", "InvalidParams", "none"} ELSE {"none"}

Request(m) == m.is = "message" /\ m.id # Absent /\ m.method # Absent

Replies(m) ==
    {reply \in Reply :
        \/ m.is = "unframed" /\ reply = "none"
        \/ m.is = "garbled" /\ reply = "ParseError"
        \/ m.is = "invalid" /\ reply = "InvalidRequest"
        \/ m.is = "message" /\ m.id = Absent /\ reply = "none"
        \/ /\ m.is = "message" /\ m.id # Absent /\ m.method = Absent
           /\ reply = IF m.answers THEN "none" ELSE "InvalidRequest"
        \/ /\ Request(m)
           /\ \/ m.method = "query" /\ reply \in {"result", "InvalidParams", "InternalError"}
              \/ m.method = "notice" /\ reply \in {"none", "InvalidParams", "InternalError"}
              \/ m.method = "unknown" /\ reply = "MethodNotFound"
              \/ m.method = "shutdown" /\ reply = "result"
              \/ m.method = "exit" /\ reply = "none"}

Asks(m, method) == m.is = "message" /\ m.method = method

(* What the reader puts in the channel when the stream fails under it; any  *)
(* other error it makes is recoverable, and is what it heard.                *)
Io == 0

ASSUME SessionAssumption ==
    /\ MaxMessages \in Nat
    /\ \A in \in Inputs :
          /\ in.headers \in Seq({"length", "badLength", "other"}) \ {<<>>}
          /\ IsFramed(in.headers) => in.body # Absent

VARIABLES
    sent,       \* the inputs sent, in order; one is known by its index
    stream,     \* the client's end: "open", "closed", "cut" inside an input
    heard,      \* what the reader made of those it has read
    adrift,     \* whether the body of the last is still on the stream
    reader,     \* the reader thread: "reading" or "stopped"
    channel,    \* what it sent and the loop has not taken: inputs, or Io
    taken,      \* how many inputs the loop has taken
    loop,       \* "top", "waiting" (in recv), "over"
    error,      \* whether run returned an error
    shutdown, exited,
    answers,    \* the answers written: [to, reply]
    reachable   \* whether the client still takes what is written

client  == <<sent, stream, reachable>>
reading == <<heard, adrift, reader, channel>>
server  == <<taken, loop, error, shutdown, exited, answers>>
vars    == <<client, reading, server>>

Init ==
    /\ sent = <<>> /\ stream = "open"
    /\ heard = <<>> /\ adrift = FALSE /\ reader = "reading" /\ channel = <<>>
    /\ taken = 0 /\ loop = "top" /\ error = FALSE
    /\ shutdown = FALSE /\ exited = FALSE
    /\ answers = <<>> /\ reachable = TRUE
----------------------------------------------------------------------------
(* The client.                                                              *)

Send(in) ==
    /\ stream = "open" /\ Len(sent) < MaxMessages
    /\ sent' = Append(sent, in)
    /\ UNCHANGED <<stream, reachable, reading, server>>

EndStream(how) ==
    /\ stream = "open"
    /\ stream' = how
    /\ UNCHANGED <<sent, reachable, reading, server>>

(* It stops reading what the server writes.                                 *)
Leave ==
    /\ reachable /\ reachable' = FALSE
    /\ UNCHANGED <<sent, stream, reading, server>>
----------------------------------------------------------------------------
(* The reader thread.                                                       *)

read == Len(heard)

ReadMessage ==
    /\ reader = "reading" /\ read < Len(sent)
    /\ IF loop = "over"           \* the receiver is gone: the send fails
       THEN reader' = "stopped" /\ UNCHANGED <<heard, adrift, channel>>
       ELSE /\ heard' = Append(heard, Heard(sent[read + 1], adrift))
            /\ adrift' = LeavesBody(sent[read + 1], adrift)
            /\ channel' = Append(channel, read + 1)
            /\ UNCHANGED reader
    /\ UNCHANGED <<client, server>>

(* The end of the stream: between two inputs it is a clean one.             *)
ReadEndRetries ==
    /\ reader = "reading" /\ read = Len(sent) /\ stream = "cut"
    /\ reader' = "stopped"
    /\ channel' = IF loop # "over" THEN Append(channel, Io) ELSE channel
    /\ UNCHANGED <<client, heard, adrift, server>>

ReadEnd ==
    /\ reader = "reading" /\ read = Len(sent) /\ stream # "open"
    /\ reader' = "stopped"
    /\ channel' = IF (stream = "cut" \/ adrift) /\ loop # "over" THEN Append(channel, Io) ELSE channel
    /\ UNCHANGED <<client, heard, adrift, server>>
----------------------------------------------------------------------------
(* Server::run.                                                             *)

(* The top of the loop: the documents due are analyzed, and publishing what *)
(* was found may fail; then it waits for input.                             *)
Turn ==
    /\ loop = "top"
    /\ \/ exited /\ loop' = "over" /\ UNCHANGED error
       \/ ~exited /\ loop' = "waiting" /\ UNCHANGED error
       \/ ~exited /\ ~reachable /\ loop' = "over" /\ error' = TRUE
    /\ UNCHANGED <<client, reading, taken, shutdown, exited, answers>>

(* didClose withdraws diagnostics, initialized registers the watchers: both *)
(* write to the client of their own accord.                                 *)
Notifies(m) == Asks(m, "notice")

(* A message, or input that is none, is handled: handle_contained answers   *)
(* for a handler that panics, reject for what could not be read.  A log     *)
(* line that cannot be written is let go; anything else that cannot ends it.*)
Take ==
    /\ loop = "waiting" /\ channel # <<>> /\ Head(channel) # Io
    /\ channel' = Tail(channel)
    /\ taken' = taken + 1
    /\ \E m \in {heard[Head(channel)]}, reply \in Replies(heard[Head(channel)]) :
          /\ shutdown' = (shutdown \/ Asks(m, "shutdown"))
          /\ exited' = (exited \/ Asks(m, "exit"))
          /\ IF reply = "none"
             THEN /\ UNCHANGED answers
                  /\ \/ loop' = "top" /\ UNCHANGED error
                     \/ Notifies(m) /\ ~reachable /\ loop' = "over" /\ error' = TRUE
             ELSE IF reachable
             THEN /\ answers' = Append(answers, [to |-> Head(channel), reply |-> reply])
                  /\ loop' = "top" /\ UNCHANGED error
             ELSE loop' = "over" /\ error' = TRUE /\ UNCHANGED answers
    /\ UNCHANGED <<client, heard, adrift, reader>>

(* A stream error ends the session with it.                                 *)
TakeError ==
    /\ loop = "waiting" /\ channel # <<>> /\ Head(channel) = Io
    /\ channel' = Tail(channel)
    /\ loop' = "over" /\ error' = TRUE
    /\ UNCHANGED <<client, heard, adrift, reader, taken, shutdown, exited, answers>>

(* Received::Closed: the reader is gone and what it framed is all taken.    *)
ClosesAtOnce ==
    /\ loop = "waiting" /\ reader = "stopped"
    /\ loop' = "over"
    /\ UNCHANGED <<client, reading, taken, error, shutdown, exited, answers>>

TakeClosed ==
    /\ loop = "waiting" /\ channel = <<>> /\ reader = "stopped"
    /\ loop' = "over"
    /\ UNCHANGED <<client, reading, taken, error, shutdown, exited, answers>>

(* Received::Timeout: a document is due.                                    *)
TakeTimeout ==
    /\ loop = "waiting" /\ channel = <<>> /\ reader = "reading"
    /\ loop' = "top"
    /\ UNCHANGED <<client, reading, taken, error, shutdown, exited, answers>>

(* The exit status of the program: shut down properly, or not.              *)
Status == IF ~error /\ shutdown THEN 0 ELSE 1

(* The process has ended.                                                   *)
Ended == loop = "over" /\ UNCHANGED vars

ServerStep == Turn \/ Take \/ TakeError \/ TakeClosed \/ TakeTimeout
ReaderStep == ReadMessage \/ ReadEnd

Next ==
    \/ \E in \in Inputs : Send(in)
    \/ \E how \in {"closed", "cut"} : EndStream(how)
    \/ Leave
    \/ ReaderStep \/ ServerStep \/ Ended

Spec == Init /\ [][Next]_vars

(* Both threads run.                                                        *)
FairSpec == Spec /\ WF_vars(ReaderStep) /\ WF_vars(ServerStep)
----------------------------------------------------------------------------
(* A body left on the stream, by a header block without a usable length,   *)
(* runs into the blocks after it until one says where its own body ends, or *)
(* has none.  The first line of such a block is read as part of the one     *)
(* before, so an input that says it there only is lost.                     *)
Strays(i) == ~IsFramed(sent[i].headers) /\ sent[i].body # Absent
RunsOn(i) == ~IsFramed(Tail(sent[i].headers)) /\ sent[i].body # Absent
Left(n)   == \E j \in 1..n : Strays(j) /\ \A k \in (j + 1)..n : RunsOn(k)
Lost(i)   == Left(i - 1) /\ ~IsFramed(Tail(sent[i].headers))

(* Whatever the client sent before it, an input that is not lost is heard   *)
(* as it was sent: one without a usable length, one that is no message and  *)
(* those the reader ran ahead to read change nothing of it.                 *)
HeardAsSent == \A i \in DOMAIN heard : Lost(i) \/ heard[i] = Heard(sent[i], FALSE)

(* The requests for a method that is a request's, or for none there is.     *)
IsOwed(i) ==
    LET m == Heard(sent[i], FALSE)
    IN  ~Lost(i) /\ Request(m) /\ m.method \in {"query", "unknown", "shutdown"}

(* What the server answers it answers once, in the order it was sent, and   *)
(* every such request taken has its answer: none is lost to a handler that  *)
(* panics or to malformed input around it.  Only an answer that could not   *)
(* be written is missing, and the session ends with that.                   *)
AnsweredInOrder ==
    /\ \A k, l \in DOMAIN answers : k < l => answers[k].to < answers[l].to
    /\ \A k \in DOMAIN answers : answers[k].to \in 1..taken
    /\ \A i \in 1..taken : IsOwed(i) =>
          \/ \E k \in DOMAIN answers : answers[k].to = i
          \/ i = taken /\ loop = "over" /\ error /\ ~reachable

(* The session ends on exit, with nobody to write to, or at the end of the  *)
(* stream, clean or not; and in that case what came whole before the end    *)
(* has all been handled.                                                    *)
EndsInside == stream = "cut" \/ Left(Len(sent))

EndsAsItShould ==
    \/ exited
    \/ ~reachable /\ error
    \/ taken = Len(sent) /\ stream # "open" /\ (EndsInside <=> error)

(* A process that reports success had been asked to shut down, and whoever  *)
(* asked with an id had been told: no session that ended in an error, or    *)
(* whose answer to the shutdown could not be written, exits with status 0.  *)
WasAsked ==
    \E i \in 1..taken : /\ Asks(heard[i], "shutdown")
                        /\ Request(heard[i]) => \E k \in DOMAIN answers :
                                            answers[k].to = i /\ answers[k].reply = "result"

EndsForAReason == loop = "over" => EndsAsItShould /\ (Status = 0 => WasAsked)

(* What handle's comment says: a request is always answered.                *)
RequestsAreAnswered ==
    \A i \in 1..taken : Request(heard[i]) /\ reachable => \E k \in DOMAIN answers : answers[k].to = i

(* A client that ends its stream ends the server.                           *)
EndOfStreamEndsServer == stream # "open" ~> loop = "over"
----------------------------------------------------------------------------
(* The invariant the safety properties follow from.                         *)
TypeOK ==
    /\ sent \in Seq(Inputs) /\ stream \in {"open", "closed", "cut"}
    /\ heard \in Seq({Heard(in, a) : in \in Inputs, a \in BOOLEAN}) /\ read <= Len(sent)
    /\ adrift \in BOOLEAN /\ reader \in {"reading", "stopped"}
    /\ channel \in Seq(Nat)
    /\ taken \in 0..read
    /\ loop \in {"top", "waiting", "over"}
    /\ error \in BOOLEAN /\ shutdown \in BOOLEAN /\ exited \in BOOLEAN /\ reachable \in BOOLEAN
    /\ answers \in Seq([to : Nat, reply : Reply])

(* The channel holds what was read and not taken, then Io if the stream     *)
(* ended inside an input.                                                   *)
Failed    == Len(channel) = read - taken + 1
InChannel ==
    /\ \A k \in 1..(read - taken) : channel[k] = taken + k
    /\ \/ Len(channel) = read - taken
       \/ Failed /\ channel[Len(channel)] = Io /\ reader = "stopped"

(* The body left over is the one the inputs read have left.                 *)
LeftOver == adrift <=> Left(read)

(* The reader stops before the loop does at the end of the stream only.     *)
StopsAtEnd ==
    reader = "stopped" /\ loop # "over" =>
        /\ read = Len(sent) /\ stream # "open"
        /\ Failed <=> EndsInside

ErrorEnds == error => loop = "over"
Told      == shutdown /\ ~error => WasAsked

SessionInv ==
    /\ TypeOK /\ InChannel /\ LeftOver /\ HeardAsSent
    /\ StopsAtEnd /\ ErrorEnds /\ Told
    /\ AnsweredInOrder /\ (loop = "over" => EndsAsItShould)
=============================================================================
