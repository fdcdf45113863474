---------------------------- MODULE MCCameraControl ----------------------------
(* Model values for CameraControl: messages at the edges of the limits. *)
EXTENDS CameraControl

McMessages ==
    {[tag |-> "brightness", value |-> 101], [tag |-> "exposureMode", value |-> 2],
     [tag |-> "freeze", value |-> 1],
     [tag |-> "blob_yuv", value |-> 1]}
McRestored == {[Defaults EXCEPT !.brightness = 60, !.exposureMode = 3]}
McSetters == SelectSeq(AllSetters, LAMBDA k : k = "exposureMode")

\* Every limit is within what the setters take: int_limit leaves nothing for
\* them to reject.
ASSUME \A k \in DOMAIN Limits : \A i \in 1 .. 2 : Accepted(k, Limits[k][i])
=============================================================================
