------------------------------- MODULE MCDial -------------------------------
(* Small instances of module Dial for TLC. *)
EXTENDS Dial

\* A limit, a cap and both, retrying for ever, and products that leave int32.
Chosen == [max : {0, 1, 3, 5}, time : {1, 3, 7}, maxDelay : {0, 5, 12}]
=============================================================================
