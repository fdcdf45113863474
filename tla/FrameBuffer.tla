------------------------------ MODULE FrameBuffer ------------------------------
(***************************************************************************)
(* The shared state of mjpg_streamer while it streams from the Raspberry   *)
(* Pi camera, and the threads that meet there:                             *)
(*                                                                         *)
(*   encoder   the JPEG encoder's callback (encoder_buffer_callback): it   *)
(*             takes db in the callback of a frame's first buffer and      *)
(*             releases it in the callback of the last one;                *)
(*   splitter  the raw image's callback (splitter_buffer_callback): finds  *)
(*             the blobs and leaves their boxes for the encoder;           *)
(*   Viewers   output_http's client threads (send_snapshot, send_stream);  *)
(*   tcp, control   the parameter server and camera_control_callback, seen *)
(*             here only as holders of params_mutex.                       *)
(*                                                                         *)
(* A chunk is the contents of one encoder buffer: <<frame, k>>, of size 1. *)
(* An image is the number of a raw frame.  MMAL runs the callbacks of one  *)
(* component in one thread, one after the other, and those of different    *)
(* components in different threads.                                        *)
(*                                                                         *)
(* Two things the code does not guard against are undefined behaviour.     *)
(* pthread_mutex_unlock of a mutex that another thread holds frees it, as  *)
(* glibc does.  After a memcpy past the end of the shared buffer anything  *)
(* may happen: the model stops there.                                      *)
(***************************************************************************)
EXTENDS Naturals, Sequences

CONSTANTS
    Viewers,
    MaxFrames,     \* bound: frames the encoder starts
    MaxChunks,     \* how many chunks fit pglobal->in[].buf
    MaxImages      \* bound: raw images the splitter sees

ASSUME FrameAssumption ==
    /\ {MaxFrames, MaxChunks, MaxImages} \subseteq Nat \ {0}
    /\ Viewers \cap {"encoder", "splitter", "tcp", "control", "none"} = {}

Locks == {"db", "bbox", "udp", "params"}
Settings == {"tcp", "control"}
Threads == {"encoder", "splitter"} \cup Settings \cup Viewers

VARIABLES
    owner,                  \* who holds each mutex
    e_pc, flagged,          \* the encoder's callback, and its buffer's END or FAILED flag
    offset, frame_no,       \* PORT_USERDATA: bytes so far, frames completed
    buf, size,              \* pglobal->in[]
    tags,                   \* the last overwrite_tif_tags
    harm,                   \* "none", or db was taken from a viewer ("unlock"), or
                            \* a frame did not fit the buffer ("overrun")
    s_pc, image,            \* the splitter's callback, and the raw image it has
    bbox_elements,          \* image the boxes in bbox_element are of
    bbox_element_count,     \* image that bbox_element_count is of
    yuv_meas,               \* image each of the three components is of
    v_pc, frame_size, frame,    \* each viewer: its place, and its local copies
    latest,                     \* ghosts: the last frame completed; for each viewer,
    started, unsignalled        \* how many were begun when its wait began, and
                                \* whether the wait ended without a signal

encoder == <<e_pc, flagged, offset, frame_no, buf, size, tags, harm, latest>>
splitter == <<s_pc, image, bbox_elements, bbox_element_count, yuv_meas>>
viewer == <<v_pc, frame_size, frame, started, unsignalled>>
vars == <<owner, encoder, splitter, viewer>>

NoChunk == <<0, 0>>
None == "none"

Init ==
    /\ owner = [l \in Locks |-> None]
    /\ e_pc = "idle" /\ flagged = FALSE
    /\ offset = 0 /\ frame_no = 0
    /\ buf = [i \in 1 .. MaxChunks |-> NoChunk] /\ size = 0
    /\ tags = [elements |-> 0, count |-> 0, yuv |-> <<0, 0, 0>>]
    /\ harm = "none"
    /\ s_pc = "idle" /\ image = 0
    /\ bbox_elements = 0 /\ bbox_element_count = 0 /\ yuv_meas = <<0, 0, 0>>
    /\ v_pc = [v \in Viewers |-> "idle"]
    /\ frame_size = [v \in Viewers |-> 0] /\ frame = [v \in Viewers |-> <<>>]
    /\ latest = <<>> /\ started = [v \in Viewers |-> 0]
    /\ unsignalled = [v \in Viewers |-> FALSE]

Lock(t, l) == owner[l] = None /\ owner' = [owner EXCEPT ![l] = t]
Unlock(l) == owner' = [owner EXCEPT ![l] = None]

--------------------------------------------------------------------------------
(* encoder_buffer_callback *)

\* A buffer of data arrives; the flag says whether it is its frame's last.
EncoderGets ==
    /\ e_pc = "idle"
    /\ offset = 0 => frame_no < MaxFrames
    /\ flagged' \in BOOLEAN
    /\ e_pc' = IF offset = 0 THEN "db" ELSE "copy"
    /\ UNCHANGED <<owner, offset, frame_no, buf, size, tags, harm, latest, splitter, viewer>>

\* The flag may also come in a buffer of its own, without data: at the end of
\* a frame, or instead of one, when db has not been taken.
EncoderGetsEmpty ==
    /\ e_pc = "idle"
    /\ offset = 0 => frame_no < MaxFrames
    /\ flagged' = TRUE /\ e_pc' = "complete"
    /\ UNCHANGED <<owner, offset, frame_no, buf, size, tags, harm, latest, splitter, viewer>>

EncoderLocksDb ==
    /\ e_pc = "db" /\ Lock("encoder", "db")
    /\ e_pc' = "count"
    /\ UNCHANGED <<flagged, offset, frame_no, buf, size, tags, harm, latest, splitter, viewer>>

\* udp_comms_connection_count and udp_comms_age_of_oldest_ping_response: each
\* takes lock_mutex and gives it back.
EncoderCounts ==
    /\ e_pc \in {"count", "age"} /\ owner["udp"] = None
    /\ e_pc' = IF e_pc = "count" THEN "age" ELSE "bbox"
    /\ UNCHANGED <<owner, flagged, offset, frame_no, buf, size, tags, harm, latest, splitter, viewer>>

EncoderLocksBoxes ==
    /\ e_pc = "bbox" /\ Lock("encoder", "bbox")
    /\ e_pc' = "tags"
    /\ UNCHANGED <<flagged, offset, frame_no, buf, size, tags, harm, latest, splitter, viewer>>

\* overwrite_tif_tags, on the first buffer of the frame.
EncoderWritesTags ==
    /\ e_pc = "tags"
    /\ tags' = [elements |-> bbox_elements, count |-> bbox_element_count, yuv |-> yuv_meas]
    /\ Unlock("bbox")
    /\ e_pc' = "copy"
    /\ UNCHANGED <<flagged, offset, frame_no, buf, size, harm, latest, splitter, viewer>>

\* Mutant of EncoderCopies: db is given back after every buffer.
EncoderCopiesUnlocks ==
    /\ e_pc = "copy" /\ offset < MaxChunks
    /\ buf' = [buf EXCEPT ![offset + 1] = <<frame_no + 1, offset + 1>>]
    /\ offset' = offset + 1
    /\ e_pc' = IF flagged THEN "complete" ELSE "idle"
    /\ owner' = IF flagged THEN owner ELSE [owner EXCEPT !["db"] = None]
    /\ UNCHANGED <<flagged, frame_no, size, tags, harm, latest, splitter, viewer>>

EncoderCopies ==
    /\ e_pc = "copy" /\ offset < MaxChunks
    /\ buf' = [buf EXCEPT ![offset + 1] = <<frame_no + 1, offset + 1>>]
    /\ offset' = offset + 1
    /\ e_pc' = IF flagged THEN "complete" ELSE "idle"
    /\ UNCHANGED <<owner, flagged, frame_no, size, tags, harm, latest, splitter, viewer>>

\* memcpy behind the end of the buffer: nothing checks the length.
EncoderOverruns ==
    /\ e_pc = "copy" /\ offset = MaxChunks
    /\ harm' = "overrun"
    /\ UNCHANGED <<owner, e_pc, flagged, offset, frame_no, buf, size, tags, latest, splitter, viewer>>

\* pthread_cond_broadcast(db_update).
Woken == [v \in Viewers |-> IF v_pc[v] = "wait" THEN "relock" ELSE v_pc[v]]

Delivered == [k \in 1 .. offset |-> <<frame_no + 1, k>>]

\* The frame is complete, whether the flag was END or FAILED, and db is
\* unlocked, whoever holds it.
EncoderCompletes ==
    /\ e_pc = "complete"
    /\ size' = offset /\ latest' = Delivered
    /\ offset' = 0
    /\ frame_no' = frame_no + 1
    /\ v_pc' = Woken
    /\ Unlock("db")
    /\ harm' = IF owner["db"] \in Viewers THEN "unlock" ELSE harm
    /\ e_pc' = "idle"
    /\ UNCHANGED <<flagged, buf, tags, splitter, frame_size, frame, started, unsignalled>>

--------------------------------------------------------------------------------
(* splitter_buffer_callback *)

SplitterLocksParams ==
    /\ s_pc = "idle" /\ image < MaxImages
    /\ Lock("splitter", "params")
    /\ image' = image + 1
    /\ s_pc' \in {"y", "unlock"}     \* detect_yuv may be off
    /\ UNCHANGED <<encoder, viewer, bbox_elements, bbox_element_count, yuv_meas>>

\* yuv420_get_pixel writes one component after the other.
YuvPlace == [y |-> 1, u |-> 2, v |-> 3]
AfterYuv == [y |-> "u", u |-> "v", v |-> "bbox"]

SplitterMeasures ==
    /\ s_pc \in DOMAIN YuvPlace
    /\ yuv_meas' = [yuv_meas EXCEPT ![YuvPlace[s_pc]] = image]
    /\ s_pc' = AfterYuv[s_pc]
    /\ UNCHANGED <<owner, encoder, viewer, image, bbox_elements, bbox_element_count>>

\* Mutant of SplitterLocksBoxes: the boxes are written without their mutex.
SplitterWritesUnlocked ==
    /\ s_pc = "bbox" /\ s_pc' = "elements"
    /\ UNCHANGED <<owner, encoder, viewer, image, bbox_elements, bbox_element_count, yuv_meas>>

\* The blobs of the image are found; the boxes may be left for the encoder.
SplitterLocksBoxes ==
    /\ s_pc = "bbox" /\ Lock("splitter", "bbox")
    /\ s_pc' = "elements"
    /\ UNCHANGED <<encoder, viewer, image, bbox_elements, bbox_element_count, yuv_meas>>

\* copy_best_bounding_boxes
SplitterWritesElements ==
    /\ s_pc = "elements"
    /\ bbox_elements' = image
    /\ s_pc' = "elements_count"
    /\ UNCHANGED <<owner, encoder, viewer, image, bbox_element_count, yuv_meas>>

\* Mutant of SplitterWritesCount: bbox_mutex is not given back.
SplitterWritesCountKeeps ==
    /\ s_pc = "elements_count"
    /\ bbox_element_count' = image
    /\ s_pc' = "send"
    /\ UNCHANGED <<owner, encoder, viewer, image, bbox_elements, yuv_meas>>

SplitterWritesCount ==
    /\ s_pc = "elements_count"
    /\ bbox_element_count' = image
    /\ Unlock("bbox")
    /\ s_pc' = "send"
    /\ UNCHANGED <<encoder, viewer, image, bbox_elements, yuv_meas>>

\* udp_comms_send_blobs_to_all holds lock_mutex while it sends.
SplitterSends ==
    /\ s_pc = "send" /\ Lock("splitter", "udp")
    /\ s_pc' = "sent"
    /\ UNCHANGED <<encoder, viewer, image, bbox_elements, bbox_element_count, yuv_meas>>

SplitterSent ==
    /\ s_pc = "sent" /\ Unlock("udp")
    /\ s_pc' = "unlock"
    /\ UNCHANGED <<encoder, viewer, image, bbox_elements, bbox_element_count, yuv_meas>>

SplitterEnds ==
    /\ s_pc = "unlock" /\ Unlock("params")
    /\ s_pc' = "idle"
    /\ UNCHANGED <<encoder, viewer, image, bbox_elements, bbox_element_count, yuv_meas>>

--------------------------------------------------------------------------------
(* send_snapshot and send_stream *)

\* Frames with a byte in the buffer, now or before.
Begun == IF offset = 0 THEN frame_no ELSE frame_no + 1

\* Mutant of ViewerWaits: a frame already there is as good as a new one.
ViewerWaitsIfEmpty(v) ==
    /\ v_pc[v] = "idle" /\ owner["db"] = None
    /\ v_pc' = [v_pc EXCEPT ![v] = IF size = 0 THEN "wait" ELSE "relock"]
    /\ started' = [started EXCEPT ![v] = Begun]
    /\ unsignalled' = [unsignalled EXCEPT ![v] = FALSE]
    /\ UNCHANGED <<owner, encoder, splitter, frame_size, frame>>

\* The viewer takes db and waits on db_update, which gives db back.
ViewerWaits(v) ==
    /\ v_pc[v] = "idle" /\ owner["db"] = None
    /\ v_pc' = [v_pc EXCEPT ![v] = "wait"]
    /\ started' = [started EXCEPT ![v] = Begun]
    /\ unsignalled' = [unsignalled EXCEPT ![v] = FALSE]
    /\ UNCHANGED <<owner, encoder, splitter, frame_size, frame>>

\* pthread_cond_wait may return though nobody signalled.
ViewerWakesUnsignalled(v) ==
    /\ v_pc[v] = "wait"
    /\ v_pc' = [v_pc EXCEPT ![v] = "relock"]
    /\ unsignalled' = [unsignalled EXCEPT ![v] = TRUE]
    /\ UNCHANGED <<owner, encoder, splitter, frame_size, frame, started>>

ViewerReadsSize(v) ==
    /\ v_pc[v] = "relock" /\ Lock(v, "db")
    /\ frame_size' = [frame_size EXCEPT ![v] = size]
    /\ v_pc' = [v_pc EXCEPT ![v] = "copy"]
    /\ UNCHANGED <<encoder, splitter, frame, started, unsignalled>>

ViewerCopies(v) ==
    /\ v_pc[v] = "copy"
    /\ frame' = [frame EXCEPT ![v] = SubSeq(buf, 1, frame_size[v])]
    /\ Unlock("db")
    /\ v_pc' = [v_pc EXCEPT ![v] = "idle"]
    /\ UNCHANGED <<encoder, splitter, frame_size, started, unsignalled>>

--------------------------------------------------------------------------------
\* The other two holders of params_mutex.
SettingsLock(t) == Lock(t, "params") /\ UNCHANGED <<encoder, splitter, viewer>>
SettingsUnlock(t) == owner["params"] = t /\ Unlock("params") /\ UNCHANGED <<encoder, splitter, viewer>>

Encoder == \/ EncoderGets \/ EncoderGetsEmpty \/ EncoderLocksDb \/ EncoderCounts
           \/ EncoderLocksBoxes \/ EncoderWritesTags \/ EncoderCopies \/ EncoderOverruns
           \/ EncoderCompletes

Splitter == \/ SplitterLocksParams \/ SplitterMeasures \/ SplitterLocksBoxes
            \/ SplitterWritesElements \/ SplitterWritesCount
            \/ SplitterSends \/ SplitterSent \/ SplitterEnds

Viewer(v) == \/ ViewerWaits(v) \/ ViewerWakesUnsignalled(v)
             \/ ViewerReadsSize(v) \/ ViewerCopies(v)

Next == /\ harm # "overrun"
        /\ \/ Encoder
           \/ Splitter
           \/ \E v \in Viewers : Viewer(v)
           \/ \E t \in Settings : SettingsLock(t) \/ SettingsUnlock(t)

Spec == Init /\ [][Next]_vars

--------------------------------------------------------------------------------
Chunks == (0 .. MaxFrames) \X (0 .. MaxChunks)
Images == 0 .. MaxImages

\* Every variable has its type; what is published, and what a viewer copies,
\* is inside the buffer.
TypeOK ==
    /\ owner \in [Locks -> Threads \cup {None}]
    /\ e_pc \in {"idle", "db", "count", "age", "bbox", "tags", "copy", "complete"}
    /\ flagged \in BOOLEAN
    /\ offset \in 0 .. MaxChunks /\ size \in 0 .. MaxChunks /\ frame_no \in 0 .. MaxFrames
    /\ harm \in {"none", "unlock", "overrun"}
    /\ buf \in [1 .. MaxChunks -> Chunks]
    /\ tags \in [elements : Images, count : Images, yuv : Images \X Images \X Images]
    /\ s_pc \in {"idle", "y", "u", "v", "bbox", "elements", "elements_count",
                 "send", "sent", "unlock"}
    /\ {image, bbox_elements, bbox_element_count} \subseteq Images
    /\ yuv_meas \in Images \X Images \X Images
    /\ v_pc \in [Viewers -> {"idle", "wait", "relock", "copy"}]
    /\ frame_size \in [Viewers -> 0 .. MaxChunks]
    /\ \A v \in Viewers : Len(frame[v]) <= MaxChunks
    /\ started \in [Viewers -> 0 .. MaxFrames]
    /\ unsignalled \in [Viewers -> BOOLEAN]

\* The mutex a thread is about to take, in a place where it may hold others.
Wants(t) ==
    CASE t = "encoder" -> (CASE e_pc = "db" -> "db"
                             [] e_pc \in {"count", "age"} -> "udp"
                             [] e_pc = "bbox" -> "bbox"
                             [] OTHER -> None)
      [] t = "splitter" -> (CASE s_pc = "bbox" -> "bbox"
                              [] s_pc = "send" -> "udp"
                              [] OTHER -> None)
      [] t \in Viewers -> (IF v_pc[t] = "relock" THEN "db" ELSE None)
      [] OTHER -> None

\* No thread waits for a mutex held by a thread that waits, directly or not,
\* for one of its own: not for itself when the encoder takes db again, and
\* not the encoder, which keeps db over several callbacks and wants bbox and
\* lock_mutex under it, for the splitter or for a viewer.
NoCircularWait ==
    \A S \in (SUBSET Threads) \ {{}} :
        \E t \in S : Wants(t) = None \/ owner[Wants(t)] \notin S

\* The boxes in a frame's header are all of one image: the number of them and
\* what they are were never read between the splitter's two writes.
BoxesOfOneImage == tags.elements = tags.count

\* A viewer woken by the broadcast copies a frame of which not a byte was in the
\* buffer when its wait began ("wait for fresh frames").  The wait is not in a
\* loop: woken without a signal, the viewer copies whatever is there.  Once the
\* encoder has unlocked db under a viewer's feet, a wait may begin in the middle
\* of a frame.
FreshFrame ==
    harm = "none" =>
        \A v \in Viewers : v_pc[v] = "copy" /\ ~unsignalled[v] => frame_no > started[v]

\* Seen from the viewers the buffer is a mailbox: chunk by chunk assembly never
\* shows, and the old frame's tail is never sent after a shorter frame, until
\* the encoder unlocks a db that a viewer holds or writes past the buffer.
Mailbox == INSTANCE FrameMailbox
               WITH count <- frame_no, got <- frame, broken <- (harm # "none")
ImplementsMailbox == Mailbox!Spec
================================================================================
