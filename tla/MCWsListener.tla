---------------------------- MODULE MCWsListener ----------------------------
(* Small instances of modules WsListener and Sockets for TLC. *)
EXTENDS WsListener

CONSTANTS l1, l2

\* A TCP listener and one of the other kinds.
Pairs == {[l \in {l1, l2} |-> IF l = l1 THEN n ELSE m] :
            <<n, m>> \in {<<"udp", "tcp">>, <<"ws", "tcp">>}}

\* Two TCP listeners.
TwoTcp == [{l1, l2} -> {"tcp"}]
=============================================================================
