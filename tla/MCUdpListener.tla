--------------------------- MODULE MCUdpListener ---------------------------
(* Small instances of module UdpListener for TLC. *)
EXTENDS UdpListener
=============================================================================
