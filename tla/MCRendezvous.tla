---------------------------- MODULE MCRendezvous ----------------------------
(* A small instance of Rendezvous for TLC. *)
EXTENDS Rendezvous, TLC

CONSTANTS d1, u1

MCTarget == (u1 :> d1)
=============================================================================
