----------------------------- MODULE MCAutonomous -----------------------------
(* Scripts for Autonomous: one of known lines, and one with lines that run   *)
(* side by side and a last line whose arguments fit no constructor.          *)
EXTENDS Autonomous

L(name, args, parallel) == [name |-> name, args |-> args, parallel |-> parallel]

McScripts == {
    <<L("navigate", "DDDDDBB", FALSE), L("wait", "D", FALSE)>>,
    <<L("setelevator", "DB", TRUE), L("openintake", "", FALSE), L("navigate", "DDD", FALSE)>> }
===============================================================================
