------------------------------ MODULE MCSocket ------------------------------
(* Small instances of module Socket for TLC; the cfg files give the sizes. *)
EXTENDS Socket, TLC

Symm == Permutations(Beaters)
=============================================================================
