---------------------------- MODULE MCSocketSend ----------------------------
(* Small instances of module SocketSend for TLC. *)
EXTENDS SocketSend, TLC

Symm == Permutations(Msgs)
=============================================================================
