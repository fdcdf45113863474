------------------------------ MODULE CameraWorker ------------------------------
(***************************************************************************)
(* The life of the camera's worker (worker_thread of input_raspicam_696.c) *)
(* with the two callbacks that return buffer headers to their ports: it    *)
(* creates and connects the components, enables the ports, gives them all  *)
(* the headers of their pools, takes pictures or lets the video run, and   *)
(* dismantles the encoder when signal_handler of mjpg_streamer.c has set   *)
(* the stop flag.  Of the many calls that create a component it matters    *)
(* only whether one of them failed.  The splitter's port is never          *)
(* disabled, and the firmware fills its headers as soon as it has them.    *)
(***************************************************************************)
EXTENDS MmalPort

CONSTANTS MaxChunks      \* bound: the buffers one picture takes

Encoder == "encoder"
Splitter == "splitter"

ASSUME WorkerAssumption == Ports = {Encoder, Splitter} /\ MaxChunks \in Nat \ {0}

VARIABLES
    usestills,   \* the option
    stop,        \* pglobal->stop
    worker,      \* where worker_thread is, the port it fills, the headers left
    built,       \* its status so far, and whether the encoder gets pictures
    capturing,   \* does the camera feed the encoder?
    chunks,      \* the buffers of the picture that have been copied
    complete,    \* complete_semaphore: its count, -1 once deleted, -2 if posted then
    callback     \* what the callback thread of each port is doing

camera_vars ==
    <<header, port, usestills, stop, worker, built, capturing, chunks, complete, callback>>

Idle == [pc |-> "idle", header |-> "none", data |-> FALSE, last |-> FALSE]

CameraInit ==
    /\ PortInit /\ usestills \in BOOLEAN /\ stop = FALSE
    /\ worker = [pc |-> "create", port |-> Encoder, left |-> 0]
    /\ built = [ok |-> TRUE, fed |-> FALSE]
    /\ capturing = FALSE /\ chunks = 0 /\ complete = 0
    /\ callback = [p \in Ports |-> Idle]

Goes(pc) == worker' = [worker EXCEPT !.pc = pc]

-----------------------------------------------------------------------------
(* encoder_buffer_callback and splitter_buffer_callback *)

\* The component returns a header, empty when it is being drained.  The last one
\* of a picture has the flag of its end; an empty one may have it as well.
Returns(p) ==
    /\ callback[p].pc = "idle"
    /\ p = Encoder => (capturing /\ built.fed) \/ port[p].draining
    /\ \E h \in At(p, "component"), data \in BOOLEAN, last \in BOOLEAN :
          LET counted == p = Encoder /\ ~port[p].draining IN
          /\ CallbackBegins(p, h)
          /\ data => counted
          /\ last => p = Encoder
          /\ counted => data \/ last
          /\ data /\ chunks + 1 = MaxChunks => last
          /\ callback' = [callback EXCEPT ![p] =
                             [pc |-> "run", header |-> h, data |-> data, last |-> last]]
          /\ capturing' = (capturing /\ ~(last /\ usestills))
    /\ UNCHANGED <<usestills, stop, worker, built, chunks, complete>>

\* Mutant: a header is taken from the queue before the old one is released.
GetsFirst(p) ==
    /\ callback[p].pc = "run"
    /\ callback' = [callback EXCEPT ![p].pc = "send", ![p].header =
                       IF At(p, "queue") = {} THEN @ ELSE CHOOSE h \in At(p, "queue") : TRUE]
    /\ header' = [h \in AllHeaders |->
                     IF h = callback'[p].header THEN "again"
                     ELSE IF h = callback[p].header THEN "lost" ELSE header[h]]
    /\ UNCHANGED <<port, usestills, stop, worker, built, capturing, chunks, complete>>

\* The data is copied or searched, and the header released.
Releases(p) ==
    /\ callback[p].pc = "run"
    /\ mmal_buffer_header_release(callback[p].header)
    /\ callback' = [callback EXCEPT ![p] =
                       [Idle EXCEPT !.pc = "released", !.last = callback[p].last]]
    /\ chunks' = IF callback[p].last THEN 0 ELSE IF callback[p].data THEN chunks + 1 ELSE chunks
    /\ UNCHANGED <<port, usestills, stop, worker, built, capturing, complete>>

\* Mutant: the last header of the queue is left there.
GetsIfMore(p) ==
    /\ callback[p].pc = "released"
    /\ IF port[p].enabled /\ Cardinality(At(p, "queue")) > 1
       THEN \E h \in Headers[p] :
               /\ mmal_queue_get(p, h, "again")
               /\ callback' = [callback EXCEPT ![p].pc = "send", ![p].header = h]
       ELSE callback' = [callback EXCEPT ![p].pc = "finish"] /\ UNCHANGED header
    /\ UNCHANGED <<port, usestills, stop, worker, built, capturing, chunks, complete>>

\* "and send one back to the port (if still open)": is_enabled is read without
\* a lock.
Gets(p) ==
    /\ callback[p].pc = "released"
    /\ IF port[p].enabled /\ At(p, "queue") # {}
       THEN \E h \in Headers[p] :
               /\ mmal_queue_get(p, h, "again")
               /\ callback' = [callback EXCEPT ![p].pc = "send", ![p].header = h]
       ELSE callback' = [callback EXCEPT ![p].pc = "finish"] /\ UNCHANGED header
    /\ UNCHANGED <<port, usestills, stop, worker, built, capturing, chunks, complete>>

\* A header that is not taken is not put back: the failure is only logged.
SendsBack(p) ==
    /\ callback[p].pc = "send"
    /\ mmal_port_send_buffer(p, callback[p].header)
    /\ callback' = [callback EXCEPT ![p] = [Idle EXCEPT !.pc = "finish", !.last = callback[p].last]]
    /\ UNCHANGED <<usestills, stop, worker, built, capturing, chunks, complete>>

\* The end of a picture posts complete_semaphore, also when it has been deleted,
\* which is undefined; as nothing, or as the end of the process, which may exit
\* then at any time.  In video mode, where nobody waits for it, its count is not
\* kept.
Finishes(p) ==
    /\ callback[p].pc = "finish"
    /\ complete' = IF ~callback[p].last THEN complete
                    ELSE IF complete < 0 THEN -2
                    ELSE IF usestills THEN complete + 1 ELSE complete
    /\ CallbackEnds(p)
    /\ callback' = [callback EXCEPT ![p] = Idle]
    /\ UNCHANGED <<header, usestills, stop, worker, built, capturing, chunks>>

Callback(p) == Returns(p) \/ Releases(p) \/ Gets(p) \/ SendsBack(p) \/ Finishes(p)

-----------------------------------------------------------------------------
(* worker_thread *)

unchangedByStart == <<header, usestills, stop, capturing, chunks, complete, callback>>
unchangedByFill == <<usestills, stop, built, capturing, chunks, complete, callback>>

\* Servers, camera, preview and encoder: any failure ends the process.
CreatesComponents ==
    /\ worker.pc = "create" /\ \E pc \in {"splitter", "exit"} : Goes(pc)
    /\ UNCHANGED <<port, built, unchangedByStart>>

\* The splitter, its connection to the camera, and that of the preview: here
\* and in the next step a failure is kept in status.
ConnectsSplitter ==
    /\ worker.pc = "splitter" /\ Goes("resizer")
    /\ built' \in {[built EXCEPT !.ok = ok] : ok \in BOOLEAN}
    /\ UNCHANGED <<port, unchangedByStart>>

\* Stills are taken from the camera; of the video's two connections, over the
\* resizer, the status of the second replaces that of the first.  A resizer
\* that was not created is a null pointer.
ConnectsEncoder ==
    /\ worker.pc = "resizer"
    /\ IF ~built.ok THEN Goes("check") /\ UNCHANGED built
       ELSE \E resizer, camera, encoder \in BOOLEAN :
               /\ built' = [ok |-> encoder, fed |-> encoder /\ (usestills \/ camera)]
               /\ Goes(IF ~usestills /\ ~resizer THEN "exit" ELSE "check")
    /\ UNCHANGED <<port, unchangedByStart>>

\* Only now a failure ends the process.
EnablesSplitter ==
    /\ worker.pc = "check"
    /\ \/ built.ok /\ mmal_port_enable({Splitter}) /\ Goes("enable")
       \/ Goes("exit") /\ UNCHANGED port
    /\ UNCHANGED <<built, unchangedByStart>>

EnablesEncoder ==
    /\ worker.pc = "enable"
    /\ \/ mmal_port_enable({Encoder}) /\ Goes(IF usestills /\ stop THEN "delete" ELSE "fill")
       \/ Goes("exit") /\ UNCHANGED port
    /\ UNCHANGED <<built, unchangedByStart>>

\* The number of headers is read once.
StartsFilling(p) ==
    worker' = [pc |-> "get", port |-> p, left |-> Cardinality(At(p, "queue"))]

Fills ==
    /\ worker.pc = "fill" /\ StartsFilling(Encoder)
    /\ UNCHANGED <<header, port, unchangedByFill>>

\* Without a header the worker ends the process, or sends a null pointer.
FillGets ==
    /\ worker.pc = "get" /\ worker.left > 0
    /\ IF At(worker.port, "queue") = {} THEN Goes("crash") /\ UNCHANGED header
       ELSE \E h \in Headers[worker.port] :
               mmal_queue_get(worker.port, h, "worker") /\ Goes("send")
    /\ UNCHANGED <<port, unchangedByFill>>

\* A header that is not taken ends the process, or is only logged in video mode.
FillSends ==
    /\ worker.pc = "send"
    /\ \E h \in At(worker.port, "worker") :
          /\ mmal_port_send_buffer(worker.port, h)
          /\ IF usestills /\ header'[h] # "component" THEN Goes("exit")
             ELSE worker' = [worker EXCEPT !.pc = "get", !.left = @ - 1]
    /\ UNCHANGED unchangedByFill

\* In video mode the splitter's port is filled as well.
FillEnds ==
    /\ worker.pc = "get" /\ worker.left = 0
    /\ IF worker.port = Encoder /\ ~usestills THEN StartsFilling(Splitter) ELSE Goes("capture")
    /\ UNCHANGED <<header, port, unchangedByFill>>

\* A capture that cannot be started ends the process or, of the video, is only
\* logged.
StartsCapture ==
    /\ worker.pc = "capture" /\ capturing' \in BOOLEAN
    /\ Goes(IF ~usestills THEN "sleep" ELSE IF capturing' THEN "await" ELSE "exit")
    /\ UNCHANGED <<header, port, usestills, stop, built, chunks, complete, callback>>

\* Mutant: after a picture the stop flag is not looked at.
AwaitsPictureOnly ==
    /\ worker.pc = "await" /\ complete > 0
    /\ complete' = complete - 1 /\ Goes("fill")
    /\ UNCHANGED <<header, port, usestills, stop, built, capturing, chunks, callback>>

\* Stills: the semaphore says that the picture is complete.
AwaitsPicture ==
    /\ worker.pc = "await" /\ complete > 0
    /\ complete' = complete - 1 /\ Goes(IF stop THEN "delete" ELSE "fill")
    /\ UNCHANGED <<header, port, usestills, stop, built, capturing, chunks, callback>>

SleepsUntilStop ==
    /\ worker.pc = "sleep" /\ stop /\ Goes("delete")
    /\ UNCHANGED <<header, port, unchangedByFill>>

\* The semaphore goes before the port whose callback posts it.
DeletesSemaphore ==
    /\ worker.pc = "delete" /\ complete' = -1 /\ Goes("disable")
    /\ UNCHANGED <<header, port, usestills, stop, built, capturing, chunks, callback>>

\* The status of mmal_port_disable is not looked at.
DisablesEncoder ==
    /\ \/ worker.pc = "disable" /\ DisableBegins(Encoder) /\ Goes("drain")
       \/ worker.pc = "drain" /\ DisableComponent(Encoder) /\ Goes("wait")
       \/ worker.pc = "drain" /\ DisableFails(Encoder) /\ Goes("destroy")
       \/ worker.pc = "wait" /\ DisableEnds(Encoder) /\ Goes("destroy")
    /\ UNCHANGED <<header, unchangedByFill>>

\* The pool, then the components, then the shared buffer are freed.  A callback
\* of a port that could not be disabled goes on with freed headers, as if they
\* were not, or until the process ends, which may exit then at any time.
Destroys ==
    /\ worker.pc = "destroy" /\ mmal_pool_destroy(Encoder) /\ Goes("done")
    /\ UNCHANGED <<port, unchangedByFill>>

\* The firmware and the threads run until the process ends.
Running == worker.pc \notin {"exit", "crash"}

Starts ==
    \/ CreatesComponents \/ ConnectsSplitter \/ ConnectsEncoder
    \/ EnablesSplitter \/ EnablesEncoder

Worker ==
    \/ Starts \/ Fills \/ FillGets \/ FillSends \/ FillEnds \/ StartsCapture
    \/ AwaitsPicture \/ SleepsUntilStop \/ DeletesSemaphore \/ DisablesEncoder \/ Destroys

signal_handler ==
    /\ ~stop /\ stop' = TRUE
    /\ UNCHANGED <<header, port, usestills, worker, built, capturing, chunks, complete, callback>>

\* Two seconds after the signal the process exits, wherever the worker is: it
\* has disabled cancellation, so input_stop does not touch it.
exit ==
    /\ stop /\ Goes("exit")
    /\ UNCHANGED <<port, built, unchangedByStart>>

-----------------------------------------------------------------------------
(* Properties *)

\* The pool has been freed although its port is still open.
FreedOpen == worker.pc = "done" /\ port[Encoder].enabled

\* As long as nothing is used that was freed, transit counts headers.
CameraTypeOK ==
    /\ PortTypeOK /\ complete \in -2 .. 1 /\ chunks \in 0 .. MaxChunks - 1
    /\ Running /\ ~FreedOpen =>
          \A p \in Ports : port[p].transit \in 0 .. Cardinality(Headers[p]) + 1

\* A port that mmal_port_disable has closed has nothing left: no callback runs,
\* so that the pool, the component and the shared buffer can be freed.  One that
\* the firmware refused to disable is open, and worker_thread, which ignores the
\* status, frees them while its callbacks run.
NothingAfterDisable ==
    worker.pc \in {"destroy", "done"} /\ ~port[Encoder].enabled =>
        /\ callback[Encoder] = Idle /\ port[Encoder].transit = 0
        /\ At(Encoder, "component") = {}

\* The worker, which counts the headers first and then takes them one by one
\* while callbacks take and release headers of the same pools, always gets one.
WorkerNeverEmpty == worker.pc # "crash"

\* While a picture or the video is taken, every header of a port that was filled
\* is with the component or a callback, or replaces in the queue the one that a
\* callback has just released: none is left behind there, and none is lost but
\* those that the firmware failed to take, of which each is lost for ever.
AllCirculate ==
    worker.pc \in {"await", "sleep"} =>
        \A p \in Ports : p = Encoder \/ ~usestills =>
            /\ Cardinality(At(p, "queue")) = IF callback[p].pc = "released" THEN 1 ELSE 0
            /\ At(p, "lost") = {}

\* The encoder has no header left: the firmware has failed to take them all.
Starved == \A h \in Headers[Encoder] : header[h] = "failed"

\* After a signal the worker comes to its end: pictures are completed, and the
\* wait for the headers in transit ends, as long as there is one header left to
\* complete a picture with.
WorkerEnds == stop ~> worker.pc \in {"done", "exit"} \/ Starved
=============================================================================
