------------------------------ MODULE FrameMailbox -----------------------------
(***************************************************************************)
(* What the input plugin and the output plugins promise each other: a box  *)
(* that holds the latest complete frame.  A new frame replaces the old one *)
(* in one step, and a viewer takes all of the frame that is in the box, or *)
(* none of it.  A frame may be empty.  When the box is broken, nothing is  *)
(* promised any more.                                                      *)
(***************************************************************************)
EXTENDS Naturals, Sequences

CONSTANT Viewers

VARIABLES
    count,      \* how many frames were published
    latest,     \* the latest of them, a sequence of chunks of it
    got,        \* the frame each viewer took last
    broken

Init == count = 0 /\ latest = <<>> /\ got = [v \in Viewers |-> <<>>] /\ broken = FALSE

Publish == /\ count' = count + 1
           /\ latest' = [k \in 1 .. Len(latest') |-> <<count', k>>]
           /\ UNCHANGED got

Take(v) == got' = [got EXCEPT ![v] = latest] /\ UNCHANGED <<count, latest>>

Works == ~broken /\ UNCHANGED broken /\ (Publish \/ \E v \in Viewers : Take(v))
Breaks == broken' = TRUE

Next == Works \/ Breaks

Spec == Init /\ [][Next]_<<count, latest, got, broken>>
================================================================================
