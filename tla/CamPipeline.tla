------------------------------ MODULE CamPipeline ------------------------------
(***************************************************************************)
(* cam_thread (cam_thread.cpp): capture_thread pops frames from the camera *)
(* and pushes them on q1, display_thread pops them from q1 and pushes them *)
(* back on the camera.  The camera (Usb_Camera in usb_camera.cpp) is the   *)
(* driver's queue of buffers plus a Frame_Queue of the frames they belong  *)
(* to; its push and its pop each touch the two one after the other.        *)
(*                                                                         *)
(* The driver fills queued buffers in order, and VIDIOC_DQBUF takes the    *)
(* first one and blocks when there is none (the device is opened without   *)
(* O_NONBLOCK).  It writes the buffer's index and the number of the image  *)
(* into the vbuf it was given.  Each thread prints that number of a frame  *)
(* when it has pushed the frame already.                                   *)
(***************************************************************************)
EXTENDS Integers, Sequences

CONSTANTS
    buf_count,      \* buffers the driver granted
    Null,
    MaxQueueSize    \* MAX_QUEUE_SIZE of frame_queue.h

ASSUME PipelineAssumption == MaxQueueSize \in Nat /\ buf_count \in 1 .. MaxQueueSize

Frames == 0 .. buf_count - 1

VARIABLES
    streaming,           \* after VIDIOC_STREAMON
    driver,              \* the indices of the buffers queued, oldest first
    filled,              \* how many of them hold an image
    index,               \* frame -> index in its vbuf, as the last ioctl left it
    free_list,           \* frame_queue_ptr of the camera
    q1,                  \* from capture to display
    c_pc, c_frame,       \* capture_thread, in or around Usb_Camera::pop
    d_pc, d_frame        \* display_thread, in or around Usb_Camera::push

vars == <<streaming, driver, filled, index, free_list, q1, c_pc, c_frame, d_pc, d_frame>>
camera == <<streaming, driver, filled, index>>
capture == <<c_pc, c_frame>>
display == <<d_pc, d_frame>>

Free == INSTANCE FrameQueue WITH q <- free_list
Q1 == INSTANCE FrameQueue WITH q <- q1

\* q1_ptr of cam_thread.
Queue1 == Q1!NewQueue(buf_count, TRUE, TRUE)

\* init_mmap has queued every buffer and pushed every frame.
Init ==
    /\ streaming = FALSE /\ filled = 0
    /\ driver = [i \in 1 .. buf_count |-> i - 1]
    /\ index = [f \in Frames |-> f]
    /\ free_list = [Free!NewQueue(buf_count, FALSE, FALSE) EXCEPT
                      !.ptr = [i \in 0 .. MaxQueueSize |-> IF i \in Frames THEN i ELSE Null],
                      !.tail = buf_count]
    /\ q1 = Queue1
    /\ c_pc = "start" /\ c_frame = Null
    /\ d_pc = "pop" /\ d_frame = Null

\* The process is gone when an exception leaves a thread, or a signal ends it.
Running == c_pc \notin {"thrown", "crashed"}

-----------------------------------------------------------------------------
(* The device *)

Fill ==
    /\ Running /\ streaming /\ filled < Len(driver)
    /\ filled' = filled + 1
    /\ UNCHANGED <<streaming, driver, index, free_list, q1, capture, display>>

-----------------------------------------------------------------------------
(* capture_thread *)

StreamStart ==
    /\ c_pc = "start"
    /\ streaming' = TRUE /\ c_pc' = "select"
    /\ UNCHANGED <<driver, filled, index, free_list, q1, c_frame, display>>

Select ==
    /\ c_pc = "select" /\ filled > 0
    /\ c_pc' = "free_pop"
    /\ UNCHANGED <<camera, free_list, q1, c_frame, display>>

\* pop returns NULL, and capture_thread asks it for its time.
SelectFails ==
    /\ c_pc = "select"
    /\ c_pc' = "crashed"
    /\ UNCHANGED <<camera, free_list, q1, c_frame, display>>

\* After two seconds select returns 0, which is not r < 0: pop goes on.
SelectTimeout ==
    /\ c_pc = "select" /\ filled = 0
    /\ c_pc' = "free_pop"
    /\ UNCHANGED <<camera, free_list, q1, c_frame, display>>

FreePop ==
    /\ c_pc = "free_pop"
    /\ \E f \in Frames : Free!Pop(f) /\ c_frame' = f
    /\ c_pc' = "dqbuf"
    /\ UNCHANGED <<camera, q1, display>>

\* throw Usb_Cam_Err_Unexpected_Empty_Free_List, which nobody catches.
FreePopThrows ==
    /\ c_pc = "free_pop" /\ Free!PopRefused
    /\ c_pc' = "thrown"
    /\ UNCHANGED <<camera, q1, c_frame, display>>

\* Mutant of Dqbuf: the buffer filled last comes out first.
DqbufLast ==
    /\ c_pc = "dqbuf" /\ filled > 0
    /\ index' = [index EXCEPT ![c_frame] = driver[filled]]
    /\ driver' = SubSeq(driver, 1, filled - 1) \o SubSeq(driver, filled + 1, Len(driver))
    /\ filled' = filled - 1
    /\ c_pc' = "push"
    /\ UNCHANGED <<streaming, free_list, q1, c_frame, display>>

Dqbuf ==
    /\ c_pc = "dqbuf" /\ filled > 0
    /\ index' = [index EXCEPT ![c_frame] = Head(driver)]
    /\ driver' = Tail(driver) /\ filled' = filled - 1
    /\ c_pc' = "push"
    /\ UNCHANGED <<streaming, free_list, q1, c_frame, display>>

CapturePushes ==
    /\ c_pc = "push" /\ Q1!Push(c_frame)
    /\ c_pc' = "print"
    /\ UNCHANGED <<camera, free_list, c_frame, display>>

\* get_frame_num of the frame that was pushed, whoever has it now.
CapturePrints ==
    /\ c_pc = "print"
    /\ c_pc' = "select" /\ c_frame' = Null
    /\ UNCHANGED <<camera, free_list, q1, display>>

-----------------------------------------------------------------------------
(* display_thread *)

DisplayAt(pc) == Running /\ d_pc = pc

DisplayPops ==
    /\ DisplayAt("pop")
    /\ \E f \in Frames : Q1!Pop(f) /\ d_frame' = f
    /\ d_pc' = "show"
    /\ UNCHANGED <<camera, free_list, capture>>

DisplayBlocks ==
    /\ DisplayAt("pop") /\ Q1!PopBlocks("display")
    /\ d_pc' = "pop_wait"
    /\ UNCHANGED <<camera, free_list, capture, d_frame>>

DisplayWakes ==
    /\ DisplayAt("pop_wait")
    /\ \E f \in Frames : Q1!PopWakes("display", f) /\ d_frame' = f
    /\ d_pc' = "show"
    /\ UNCHANGED <<camera, free_list, capture>>

\* Mutant of Qbuf: the buffer is not given back.
QbufForgotten ==
    /\ DisplayAt("show")
    /\ d_pc' = "free_push"
    /\ UNCHANGED <<camera, free_list, q1, capture, d_frame>>

\* Mutant of Qbuf: the buffer goes back while the image is still shown.
QbufBeforeShown ==
    /\ DisplayAt("show") /\ d_frame \notin {driver[i] : i \in DOMAIN driver}
    /\ driver' = Append(driver, index[d_frame])
    /\ \E pc \in {"show", "free_push"} : d_pc' = pc
    /\ UNCHANGED <<streaming, filled, index, free_list, q1, capture, d_frame>>

\* imshow has read the image; now Usb_Camera::push.
Qbuf ==
    /\ DisplayAt("show")
    /\ driver' = Append(driver, index[d_frame])
    /\ d_pc' = "free_push"
    /\ UNCHANGED <<streaming, filled, index, free_list, q1, capture, d_frame>>

FreePush ==
    /\ DisplayAt("free_push") /\ Free!Push(d_frame)
    /\ d_pc' = "print"
    /\ UNCHANGED <<camera, q1, capture, d_frame>>

\* get_frame_num of the frame that was given back.
DisplayPrints ==
    /\ DisplayAt("print")
    /\ d_pc' = "pop" /\ d_frame' = Null
    /\ UNCHANGED <<camera, free_list, q1, capture>>

Capture == StreamStart \/ Select \/ SelectFails \/ SelectTimeout \/ FreePop
           \/ FreePopThrows \/ Dqbuf \/ CapturePushes \/ CapturePrints
Display == DisplayPops \/ DisplayBlocks \/ DisplayWakes \/ Qbuf \/ FreePush \/ DisplayPrints

Next == Fill \/ Capture \/ Display

\* The device keeps filling buffers and both threads keep running.
Spec == Init /\ [][Next]_vars
        /\ WF_vars(Fill) /\ WF_vars(Capture) /\ WF_vars(Display)
-----------------------------------------------------------------------------
(* Properties *)

\* What a queue holds, first to last.
Contents(s) ==
    [i \in 1 .. (s.tail - s.head) % (s.size + 1) |-> s.ptr[(s.head + i - 1) % (s.size + 1)]]

TypeOK ==
    /\ driver \in Seq(Frames) /\ filled \in 0 .. Len(driver)
    /\ index \in [Frames -> Frames]
    /\ c_frame \in Frames \cup {Null} /\ d_frame \in Frames \cup {Null}
    /\ c_pc \in {"start", "select", "free_pop", "dqbuf", "push", "print", "thrown", "crashed"}
    /\ d_pc \in {"pop", "pop_wait", "show", "free_push", "print"}
    /\ streaming <=> c_pc # "start"

\* The driver's queue and the free list list the same frames in the same order,
\* but for what one thread has done to the one and not yet to the other: the
\* buffer VIDIOC_DQBUF returns is that of the frame pop has taken.
InStep ==
    driver = (IF c_pc = "dqbuf" THEN <<c_frame>> ELSE <<>>) \o Contents(free_list)
             \o (IF d_pc = "free_push" THEN <<d_frame>> ELSE <<>>)

\* Each frame is in one place: with the driver, with capture_thread, on q1 or
\* with display_thread, which therefore shows an image that nobody writes.
InQ1(f) == {i \in DOMAIN Contents(q1) : Contents(q1)[i] = f}
WithDriver(f) == {i \in DOMAIN driver : driver[i] = f}
Places(f) ==
    {<<"driver", i>> : i \in WithDriver(f)} \cup {<<"q1", i>> : i \in InQ1(f)}
    \cup (IF c_pc = "push" /\ c_frame = f THEN {<<"capture", 1>>} ELSE {})
    \cup (IF d_pc = "show" /\ d_frame = f THEN {<<"display", 1>>} ELSE {})
OnePlace == \A f \in Frames : \E p \in Places(f) : Places(f) = {p}

\* frame_queue.h:13: "whoever holds the pointer is assumed to have exclusive
\* read/write control of the frame itself".  display_thread reads the number of
\* a frame which it has given back, and which capture_thread may have taken, so
\* that VIDIOC_DQBUF writes it.
ExclusiveControl ==
    ~(d_pc = "print" /\ c_pc \in {"dqbuf", "push"} /\ c_frame = d_frame)

\* usb_camera.h:54: "It should be impossible for this exception to occur."
NeverThrown == c_pc # "thrown"

\* Images go on being shown, unless the process ends: by the exception, or by
\* the NULL of a select that failed.
KeepsShowing == []<>(d_pc = "show") \/ <>~Running
=============================================================================
