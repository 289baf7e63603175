----------------------------- MODULE MCExchange -----------------------------
(* A small instance of module Exchange for TLC: a path with a handler, one whose   *)
(* handler panics and one without; a number and an array as data.                  *)
EXTENDS Exchange

Digits == <<"0", "1", "2", "3", "4", "5", "6">>
SomeWords == {"chat", "bad", "none", "x", "[", "]"}
DefaultNamespace == <<"/">>
Unset == <<>>
Handled == {<<"/", "chat">>, <<"/", "bad">>}
Failing == {<<"/", "bad">>}
Request(name, body, flag) == [name |-> name, body |-> body, flag |-> flag]
Sent == [tcp      |-> {Request("chat", <<"5">>, {}), Request("chat", <<"5">>, {"heartbeat"})},
         socketio |-> {Request("chat", <<"5">>, {}), Request("bad", <<"5">>, {}),
                       Request("none", <<"5">>, {}),
                       Request("chat", <<"[", "5", ",", "x", "]">>, {"noreply"})}]

\* The hypothesis of the theorems about Exchange holds for these requests.
ASSUME SentPlain == PlainRequests

Often == [tcp |-> [client |-> 3, server |-> 3], socketio |-> [client |-> 2, server |-> 1]]
=============================================================================
