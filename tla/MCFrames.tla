------------------------------- MODULE MCFrames -------------------------------
(***************************************************************************)
(* The shared frame buffer and the folder of output_file for TLC.  A       *)
(* behaviour looks at one of them: output_file is a viewer, but nothing in *)
(* its folder depends on what is in a picture.                             *)
(***************************************************************************)
EXTENDS FrameBuffer, FileOutput

VARIABLE part    \* "buffer" or "files"

FramesInit ==
    /\ part \in {"buffer", "files"}
    /\ Init /\ FileInit
    /\ part = "buffer" => ringbuffer_size = -1 /\ ringbuffer_exceed = 0

Streams == part = "buffer" /\ Next /\ UNCHANGED <<part, fileVars>>
Saves == part = "files" /\ FileNext /\ UNCHANGED <<part, vars>>

FramesSpec == FramesInit /\ [][Streams \/ Saves]_<<part, vars, fileVars>>
=============================================================================
