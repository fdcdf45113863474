----------------------------- MODULE MCUdpComms -----------------------------
(***************************************************************************)
(* Two hosts for UdpComms, whose milliseconds begin one and two thirds of  *)
(* one after ours, with ports of their own, or both with the port that the *)
(* repository's client binds (10696 in test_udp_client.java).              *)
(***************************************************************************)
EXTENDS UdpComms, TLC

CONSTANTS h1, h2

OwnPorts == (h1 :> 10695) @@ (h2 :> 10696)
SamePort == (h1 :> 10696) @@ (h2 :> 10696)
Phases == (h1 :> 4) @@ (h2 :> 2)
=============================================================================
