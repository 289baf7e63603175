-------------------------- MODULE MCMessageStream --------------------------
(* Small instances of module MessageStream for TLC. *)
EXTENDS MessageStream

\* TCP without compression, and packets with compression and empty heads.
Sound == {[packets |-> FALSE, zip |-> 0, empty |-> FALSE],
          [packets |-> TRUE, zip |-> 2, empty |-> TRUE]}

\* TCP with compression, and TCP with empty heads.
Zipped == {[packets |-> FALSE, zip |-> 3, empty |-> FALSE]}
Emptied == {[packets |-> FALSE, zip |-> 0, empty |-> TRUE]}
=============================================================================
