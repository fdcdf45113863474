--------------------------------- MODULE Fifo ---------------------------------
(***************************************************************************)
(* What frame_queue.h promises: a queue of at most size items.  accepted   *)
(* and popped are all the items ever put into it and taken out of it; the  *)
(* difference is what the queue holds.                                     *)
(***************************************************************************)
EXTENDS Naturals, Sequences

CONSTANT Items

VARIABLES size, accepted, popped

Init == size \in Nat /\ accepted = <<>> /\ popped = <<>>

Put ==
    /\ Len(accepted) - Len(popped) < size
    /\ \E item \in Items : accepted' = Append(accepted, item)
    /\ UNCHANGED <<size, popped>>

Take ==
    /\ Len(popped) < Len(accepted)
    /\ popped' = Append(popped, accepted[Len(popped) + 1])
    /\ UNCHANGED <<size, accepted>>

Spec == Init /\ [][Put \/ Take]_<<size, accepted, popped>>
=============================================================================
