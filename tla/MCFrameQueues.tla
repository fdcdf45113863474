----------------------------- MODULE MCFrameQueues -----------------------------
(***************************************************************************)
(* Frame_Queue for TLC, twice: between two threads that do nothing else    *)
(* (FrameStream), and in the camera's pipeline (CamPipeline), where it     *)
(* never is full.  A behaviour is one of the two.                          *)
(***************************************************************************)
EXTENDS CamPipeline

CONSTANTS
    MaxFrames, MaxSizes, StreamQueueSize    \* see FrameStream

VARIABLES
    part,                                   \* "stream" or "camera"
    q, next, pushing, popping, accepted, popped

Stream == INSTANCE FrameStream
             WITH Frames <- 1 .. MaxFrames, MaxQueueSize <- StreamQueueSize

stream == <<q, next, pushing, popping, accepted, popped>>

ASSUME QueuesAssumption == Stream!QueueAssumption /\ Stream!StreamAssumption

QueuesInit ==
    /\ part \in {"stream", "camera"}
    /\ Init /\ Stream!Init
    /\ part = "camera" => q = Stream!NewQueue(1, TRUE, TRUE)

StreamStep == part = "stream" /\ Stream!Next /\ UNCHANGED <<part, vars>>
CameraStep == part = "camera" /\ Next /\ UNCHANGED <<part, stream>>

QueuesNext == StreamStep \/ CameraStep

QueuesSpec ==
    /\ QueuesInit /\ [][QueuesNext]_<<part, vars, stream>>
    /\ WF_(stream)(part = "stream" /\ Stream!Pusher /\ UNCHANGED <<part, vars>>)
    /\ WF_(stream)(part = "stream" /\ Stream!Popper /\ UNCHANGED <<part, vars>>)
    /\ WF_vars(part = "camera" /\ Fill /\ UNCHANGED <<part, stream>>)
    /\ WF_vars(part = "camera" /\ Capture /\ UNCHANGED <<part, stream>>)
    /\ WF_vars(part = "camera" /\ Display /\ UNCHANGED <<part, stream>>)

\* The ring is a bounded first-in first-out queue: no frame is overwritten,
\* lost, repeated or overtaken, though the pusher stores before it tests and a
\* woken thread does not test again.
ImplementsFifo == Stream!ImplementsFifo

\* Every frame the queue takes comes out: no wakeup is lost, although signals
\* are sent only when the queue was empty or full.
AllFramesArrive == part = "stream" => Stream!AllFramesArrive

\* Images go on being shown, unless the process ends: by the exception, or by
\* the NULL of a select that failed.
CameraKeepsShowing == part = "camera" => KeepsShowing
=============================================================================
