------------------------------ MODULE ConnToken ------------------------------
(***************************************************************************)
(* What a cosnet Socket promises about its connections, whatever its       *)
(* goroutines do: at every moment the socket is in exactly one phase, one  *)
(* connection is torn down by exactly one goroutine, a teardown ends in    *)
(* exactly one release or exactly one redial, and nothing follows release. *)
(* Module Socket implements this specification (Socket!TokenSpec).         *)
(***************************************************************************)
EXTENDS Naturals

CONSTANTS MaxConns,       \* connections one socket has in a behaviour
          MayLose         \* TRUE when a teardown can be abandoned half-way

VARIABLES phase,          \* who holds the right to end or to replace the connection
          conns           \* connections installed so far

tokenVars == <<phase, conns>>

Phases == {"dial", "up", "down", "lost", "gone"}

TokenInit == phase = "dial" /\ conns = 0

\* The dialling goroutine installs the next connection.
Install == /\ phase = "dial"
           /\ conns < MaxConns
           /\ phase' = "up"
           /\ conns' = conns + 1

\* One goroutine wins the right to tear the current connection down.
TearDown == phase = "up" /\ phase' = "down" /\ UNCHANGED conns

\* A client dials again.
Redial == phase = "down" /\ phase' = "dial" /\ UNCHANGED conns

\* The teardown (server), or the dial that failed (client), destroys the socket.
Destroy == /\ phase \in {"down", "dial"}
           /\ conns > 0
           /\ phase' = "gone"
           /\ UNCHANGED conns

\* The goroutine that was tearing the connection down died on the way.
Lose == MayLose /\ phase = "down" /\ phase' = "lost" /\ UNCHANGED conns

TokenNext == Install \/ TearDown \/ Redial \/ Destroy \/ Lose

TokenSpec == TokenInit /\ [][TokenNext]_tokenVars
=============================================================================
