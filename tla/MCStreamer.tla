------------------------------- MODULE MCStreamer -------------------------------
(* Model values for Streamer. *)
EXTENDS Streamer

McHeaders == [p \in Ports |-> IF p = Encoder THEN {"e1", "e2"} ELSE {"s1", "s2"}]
=============================================================================
