----------------------------- MODULE MCAdmission -----------------------------
(* A small instance of Admission for TLC. *)
EXTENDS Admission, TLC

CONSTANTS c1, c2, c3, c4, ipA, ipB, ipC

\* Two connections from one address, one over each port, and two from others.
MCIpOf == (c1 :> ipA) @@ (c2 :> ipA) @@ (c3 :> ipB) @@ (c4 :> ipC)
MCPortOf == (c1 :> "command") @@ (c2 :> "stream") @@ (c3 :> "stream")
            @@ (c4 :> "stream")
=============================================================================
