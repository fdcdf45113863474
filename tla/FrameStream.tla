------------------------------ MODULE FrameStream ------------------------------
(***************************************************************************)
(* A thread that pushes numbered frames on a Frame_Queue and a thread that *)
(* pops them, as capture_thread and display_thread do (cam_thread.cpp),    *)
(* whatever else the two do in between.  A queue that does not block gives *)
(* the pusher -1, and the frame is lost, or the popper NULL, who retries.  *)
(* pthread_cond_wait is taken to return only when signalled: the code does *)
(* not look at the queue again, and a spurious return would make pop hand  *)
(* out a slot of an empty queue.                                           *)
(***************************************************************************)
EXTENDS FrameQueue, Sequences

CONSTANTS
    MaxFrames,    \* bound: the pusher stops after this frame
    MaxSizes      \* the sizes asked for

\* Assumed of the constants wherever the module is instantiated.
StreamAssumption ==
    /\ MaxFrames \in Nat /\ Frames = 1 .. MaxFrames
    /\ MaxSizes \subseteq Int

VARIABLES
    next,        \* the next frame the pusher pushes
    pushing,     \* the frame it waits with for room, or Null
    popping,     \* does the popper wait for a frame?
    accepted,    \* the frames push returned a count for, in order
    popped       \* what pop returned, in order

vars == <<q, next, pushing, popping, accepted, popped>>

Init ==
    /\ \E max_size \in MaxSizes, on_empty, on_full \in BOOLEAN :
          q = NewQueue(max_size, on_empty, on_full)
    /\ next = 1 /\ pushing = Null /\ popping = FALSE
    /\ accepted = <<>> /\ popped = <<>>

MayPush == pushing = Null /\ next <= MaxFrames

PusherPushes ==
    /\ MayPush /\ Push(next)
    /\ next' = next + 1 /\ accepted' = Append(accepted, next)
    /\ UNCHANGED <<pushing, popping, popped>>

PusherBlocks ==
    /\ MayPush /\ PushBlocks("pusher", next)
    /\ next' = next + 1 /\ pushing' = next
    /\ UNCHANGED <<popping, accepted, popped>>

PusherRefused ==
    /\ MayPush /\ PushRefused(next)
    /\ next' = next + 1
    /\ UNCHANGED <<pushing, popping, accepted, popped>>

PusherWakes ==
    /\ pushing # Null /\ PushWakes("pusher")
    /\ accepted' = Append(accepted, pushing) /\ pushing' = Null
    /\ UNCHANGED <<next, popping, popped>>

PopperPops ==
    /\ ~popping
    /\ \E f \in Frames \cup {Null} : Pop(f) /\ popped' = Append(popped, f)
    /\ UNCHANGED <<next, pushing, popping, accepted>>

PopperBlocks ==
    /\ ~popping /\ PopBlocks("popper")
    /\ popping' = TRUE
    /\ UNCHANGED <<next, pushing, accepted, popped>>

PopperWakes ==
    /\ popping
    /\ \E f \in Frames \cup {Null} : PopWakes("popper", f) /\ popped' = Append(popped, f)
    /\ popping' = FALSE
    /\ UNCHANGED <<next, pushing, accepted>>

Pusher == PusherPushes \/ PusherBlocks \/ PusherRefused \/ PusherWakes
Popper == PopperPops \/ PopperBlocks \/ PopperWakes

Next == Pusher \/ Popper

\* Nothing in the two loops keeps a thread that can go on from going on.
Spec == Init /\ [][Next]_vars /\ WF_vars(Pusher) /\ WF_vars(Popper)

-----------------------------------------------------------------------------
(* Properties *)

TypeOK ==
    /\ q.size \in 1 .. MaxQueueSize
    /\ q.head \in 0 .. q.size /\ q.tail \in 0 .. q.size
    /\ q.ptr \in [0 .. MaxQueueSize -> Frames \cup {Null}]
    /\ q.full_waits \cup q.full_woken \subseteq {"pusher"} \X (0 .. q.size)
    /\ q.empty_waits \cup q.empty_woken \subseteq {"popper"}
    /\ next \in 1 .. MaxFrames + 1 /\ pushing \in Frames \cup {Null} /\ popping \in BOOLEAN
    /\ accepted \in Seq(Frames) /\ popped \in Seq(Frames \cup {Null})

Abstract == INSTANCE Fifo WITH Items <- Frames, size <- q.size

\* The ring is a bounded first-in first-out queue: no frame is overwritten,
\* lost, repeated or overtaken, though the pusher stores before it tests and a
\* woken thread does not test again.
ImplementsFifo == Abstract!Spec

\* Every frame the queue takes comes out: no wakeup is lost, although signals
\* are sent only when the queue was empty or full.
AllFramesArrive == <>[](next = MaxFrames + 1 /\ pushing = Null /\ popped = accepted)
=============================================================================
