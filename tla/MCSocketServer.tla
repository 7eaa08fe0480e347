--------------------------- MODULE MCSocketServer ---------------------------
(***************************************************************************)
(* SocketServer with three clients on two descriptors, so that a           *)
(* descriptor is used again and a connection waits for one; a link lets    *)
(* two frames through, so that one client's frames can fill it.            *)
(***************************************************************************)
EXTENDS SocketServer

CONSTANTS c1, c2, c3

MCClients == {c1, c2, c3}
TwoClients == {c1, c2}
MCSymmetry == Permutations(MCClients)
=============================================================================
