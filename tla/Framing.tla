------------------------------ MODULE Framing ------------------------------
(* What the reader of rs/src/jsonrpc.rs makes of the client's bytes:        *)
(* read_message and message_of.                                             *)
(* Next to a definition stands a faulty form of it nothing uses.            *)
(*                                                                          *)
(* An input is [headers, body]: the lines of its header block before the    *)
(* blank one, each a "length" (Content-Length with a number), a "badLength" *)
(* (with anything else) or an "other"; and its body, Absent, Garbled (not   *)
(* JSON), NoObject (other JSON) or an object [id, method, answers, typed]:  *)
(* its id and method, whether it has a result or an error, and whether its  *)
(* fields have their types.                                                 *)
EXTENDS Naturals, Sequences

CONSTANTS Absent, Null, Garbled, NoObject

(* read_message's loop over the lines.  A body left on the stream has no    *)
(* line end, so the first line after it is read as part of it, and is no    *)
(* header.  Of several lengths the last counts.                             *)
LinesRead(input, adrift) ==
    IF adrift THEN <<"other">> \o Tail(input.headers) ELSE input.headers

IsFramed(lines) ==
    \E i \in DOMAIN lines :
        lines[i] = "length" /\ \A j \in DOMAIN lines : j > i => lines[j] = "other"

(* Whether a body is left on the stream after an input: one is read whole   *)
(* before anything is made of it.                                           *)
LeavesUnparsed(input, adrift) ==
    input.body = Garbled \/ (~IsFramed(LinesRead(input, adrift)) /\ input.body # Absent)

LeavesBody(input, adrift) == ~IsFramed(LinesRead(input, adrift)) /\ input.body # Absent

(* message_of: what is no message is "invalid", under the id it could read; *)
(* a null id is one only of what has no method.                             *)
MessageOf(body) ==
    IF body = Garbled THEN [is |-> "garbled"]
    ELSE IF body = NoObject \/ body.id = "strange" \/ (body.id = Null /\ body.method # Absent)
         THEN [is |-> "invalid", id |-> Null]
    ELSE IF ~body.typed THEN [is |-> "invalid", id |-> IF body.id = Absent THEN Null ELSE body.id]
    ELSE [is |-> "message", id |-> body.id, method |-> body.method, answers |-> body.answers]

(* read_message: an RpcError::Frame is "unframed".                          *)
Heard(input, adrift) ==
    IF IsFramed(LinesRead(input, adrift)) THEN MessageOf(input.body) ELSE [is |-> "unframed"]
============================================================================
