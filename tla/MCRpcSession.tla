---------------------------- MODULE MCRpcSession ----------------------------
(* RpcSession over one input of every kind the server tells apart, most of  *)
(* them as clients write headers: the length first, and nothing else.       *)
EXTENDS RpcSession

Object(id, method) == [id |-> id, method |-> method, answers |-> FALSE, typed |-> TRUE]
Sent(body)         == [headers |-> <<"length">>, body |-> body]

Response  == [Object("1", Absent) EXCEPT !.answers = TRUE]
Shapeless == [Object("1", "query") EXCEPT !.typed = FALSE]

MCInputs ==
    {Sent(Object("1", method)) : method \in {"query", "notice", "shutdown", "exit", "unknown", Absent}}
    \cup {Sent(Object(Absent, method)) : method \in {"query", "notice", "shutdown", "exit"}}
    \cup {Sent(body) : body \in {Garbled, Object(Null, "query"), Shapeless, Response}}
    \cup {[headers |-> <<"other", "length">>, body |-> Object("1", "query")],
          [headers |-> <<"length", "badLength">>, body |-> Object("1", "query")],
          [headers |-> <<"other">>, body |-> Absent]}

MCNotices == {Sent(Object("1", "query")), Sent(Object("1", "notice")), Sent(Object(Absent, "notice"))}
=============================================================================
