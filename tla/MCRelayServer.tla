---------------------------- MODULE MCRelayServer ----------------------------
(* A small instance of RelayServer for TLC. *)
EXTENDS RelayServer, TLC

CONSTANTS c1, c2, c3, c4, ipA, ipB

\* Three connections from one address, one from another.
MCIpOf == (c1 :> ipA) @@ (c2 :> ipA) @@ (c3 :> ipA) @@ (c4 :> ipB)
=============================================================================
