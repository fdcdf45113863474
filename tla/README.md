# A verification project for JPL-Vision

The repository holds the vision system of FRC team 696 (2014 and 2015): a
Raspberry Pi or an Odroid looks at the field, finds blobs of a colour, streams
JPEG images to the operators and sends the blobs to the robot; the robot runs
its autonomous scripts. This directory models the parts of it that are hard to
get right and hard to test in TLA+, checks them with TLC, and proves what
matters most with TLAPS.

Paths are short below: `R` is `src/mjpg-streamer-master/mjpg-streamer-experimental`,
`P` is `R/plugins/input_raspicam_696`, `O` is `src/2014_odroid_camera-master`,
`B` is `src/Centurion_2015-master/2015Robot/src/org/team696`.

## 1. The system

### Components, their state and their operations

| component | source | state | operations | in the models |
|---|---|---|---|---|
| runs of a row | `P/detect_color_blobs.c:103-176, 541-608` | two arrays of column intervals | `create_uv_run_sequence`, `detect_yuv_runs_in_row` | `YuvRuns` |
| blob list | `P/detect_color_blobs.c:178-540, 609-740` | disjoint-set forest `blob_set`, dense list `root_info` of its roots | `make_set`, `find_root`, `link`, `yuv_run_union`, `yuv_run_row_union`, `detect_color_blobs` | `BlobList` |
| blob report | `P/detect_color_blobs.c:742-820`, `P/input_raspicam_696.c:637-653` | the list, the boxes, the message | purge, sort, copy the best | `Detector` |
| frame buffer | `P/input_raspicam_696.c:600-846`, `R/plugins/output_http/httpd.c:398-560` | `pglobal->in[]` under `db`, boxes under `bbox_mutex`, parameters under `params_mutex` | encoder and splitter callbacks, viewers | `FrameBuffer` |
| UDP server | `P/udp_comms.c` | client table under `lock_mutex`, clock samples | message loop, `udp_comms_send_blobs_to_all`, connection count, constructor | `UdpComms` |
| TCP parameter server | `P/tcp_comms.c` | connection table, `tcp_params` | accept, restore, reply, one thread a connection, text to all | `CameraControl` |
| exposure freeze | `P/input_raspicam_696.c:847-946` | `exposure_mode_is_frozen`, gains read back from the camera | `camera_control_callback` | `CameraControl` |
| camera settings | `R/plugins/input_raspicam/RaspiCamControl.c` | the camera's own parameters | defaults, one setter per parameter, all at the start | `CameraControl` |
| start and shutdown | `P/input_raspicam_696.c:1313-2019`, `R/mjpg_streamer.c:93-155` | ports, pools, the semaphore, the stop flag | `worker_thread`, `worker_cleanup`, `signal_handler` | `CameraWorker`, `Streamer` |
| MMAL | `R/plugins/input_raspicam/mmal/core` | ports, pools, queues, headers in transit | enable, send, callback, disable, release | `MmalPort`, as far as the worker uses it |
| output_http | `R/plugins/output_http` | connections, one thread each | accept, requests, commands, the two frame loops | `Streamer`, `FrameBuffer` |
| output_file | `R/plugins/output_file` | a folder, used as a ring of files | save, delete the oldest, take | `FileOutput` |
| frame queue | `O/frame_queue.cpp` | ring under one mutex, two conditions | constructor, `push`, `pop` | `FrameQueue`, `FrameStream` |
| camera pipeline | `O/usb_camera.cpp`, `O/cam_thread.cpp` | the driver's queue, free list, `q1` | `Usb_Camera::push`, `pop`, capture and display threads | `CamPipeline` |
| autonomous | `B/autonomous`, `B/Commands`, `B/baseClasses/Runnable.java`, mode changes of `B/robot/Robot.java` | vector of commands, script position, timers, mode | `update`, `stop`, `nextLine`, `start`, the `Init` of each mode, `teleopPeriodic` | `Autonomous` |
| subsystems | `B/subsystems`, `B/robot` | motors, PID state, timers | `update` of each | only the timers of drive, modules, steering encoders, elevator, intake and LIDAR, in `Autonomous` |
| dash696 | `src/dash696-master/dash696.py` | widgets, saved parameters, sockets | Tk callbacks, messages | what it sends and hears first, in `CameraControl` |
| other plugins, navX, tests | see `PROJECT.json` | | | not modelled |

### How they interact

* The camera's splitter gives a raw image to `splitter_buffer_callback`, which
  runs the blob detector (runs, then list, then report) under `params_mutex`,
  leaves boxes for the encoder under `bbox_mutex` and sends the message through
  the UDP server under `lock_mutex`.
* The JPEG encoder hands each frame out in several buffers, each with a callback
  of its own. The first takes `db` and the last releases it and broadcasts
  `db_update`; so the mutex is held over several callbacks. Under it the encoder
  asks the UDP server for its counts and takes `bbox_mutex`.
* A buffer goes in a circle: the worker takes all headers of a pool and sends
  them to their port, the firmware fills them, the callback releases each and
  sends another one in its place.
* Output plugins wait on `db_update` and copy the shared buffer; output_http
  sends the copy, output_file saves it.
* TCP clients write the parameters that the splitter reads and set the camera;
  the camera's control callback sets the exposure mode as well. Whatever is
  logged is sent to all TCP clients. UDP clients echo time requests, from which
  the clock offset in the messages is computed.
* `signal_handler` sets a flag that all loops look at, cancels what can be
  cancelled, and exits two seconds later.
* On the Odroid a capture thread and a display thread pass frames in a circle:
  driver, free list, `q1`, and back.
* On the robot every `Runnable` has a timer thread; the scheduler's makes
  commands from a script and starts their timers, and the main thread stops
  them when the mode changes.

### What is hard

Callbacks on threads of the camera library share state under four mutexes, one of
them held across callbacks; a condition variable is waited on without a
predicate; indices of two data structures point into each other and one of them
is compacted all the time; arrays are sized by an argument about the worst image;
driver and free list must agree though nothing keeps them together but order;
datagrams are lost, repeated and late, and the messages of a stream are joined
and cut; parameters are restored without the lock under which they are used; the
firmware must have come to rest before its memory is freed, but not the viewers,
and may refuse; a frame is read after it was given away; the start sets the
camera while the server that sets it too is running already; a cancelled timer's
task runs on, and a timer that is replaced is not cancelled; a folder survives
the program that counts in it. `PROJECT.json` lists the hazards with their lines and the properties that
watch them.

## 2. The modules

| module | what it is | state and actions against the code |
|---|---|---|
| `YuvRuns` | run detection in one row | one action per turn of a loop; `uv_run` and `yuv_run` are sequences, `jj`, `uvi`, `yi` the loop variables; a pixel is only whether it meets the thresholds |
| `BlobList` | `detect_color_blobs` on the runs of an image | `blob_set`, `root_info` and both counts as in the code; one action per pair of runs compared, `find_root` one step per node on the way up (`Descend`) and one per `set_parent` on the way back (`Unwind`) |
| `Blobs` | abstract: a set of blobs that begin, grow and merge | implemented by `BlobList` |
| `BlobComponents` | the components of an image computed directly, and what the list of blobs has to do with them | |
| `Detector` | `BlobComponents` and then the report on the same list, with what the report should be | one action per turn of the loops of the purge and the copies, one for the sort |
| `MCBlobList`, `MCVision` | images for TLC; a behaviour of `MCVision` is one of `YuvRuns`, `Detector` or the scan of `BlobList` | |
| `FrameQueue` | the operations of `Frame_Queue` on a record | a critical section is one step and ends at the return or at `pthread_cond_wait`; a blocked thread keeps the `new_tail` it computed |
| `Fifo` | abstract: a bounded queue | implemented by `FrameStream` |
| `FrameStream` | a pushing and a popping thread around one queue | |
| `CamPipeline` | two threads, two `FrameQueue`s and the driver | the accesses to the driver and to the free list are steps of their own, as no lock covers both, and so are the reads of a frame after it was pushed (`CapturePrints`, `DisplayPrints`); `select` finds an image, times out or fails |
| `MCFrameQueues` | both for TLC: a behaviour is one of the two | |
| `UdpComms` | message loop, sender and waiting constructor around the client table, and a network that loses, repeats and reorders | `Client_Info` as in the code; the message loop's writes to a client are steps, as the mutex is not held for them; a sender step is one client of `udp_comms_send_blobs_to_all` |
| `FrameMailbox` | abstract: a box with the latest complete frame | implemented by `FrameBuffer` |
| `FrameBuffer` | encoder, splitter, viewers and the four mutexes | every acquisition, and every write that another thread could see half done, is a step; `v_pc`, `e_pc`, `s_pc` say where each thread is; `harm` that the encoder has unlocked a viewer's `db` or written past the buffer |
| `CameraControl` | windows, TCP server, connection threads, camera, the worker that sets it at the start and the two callbacks that use the parameters | one action per call on a socket and per group of fields that is copied, failures of `accept` and `pthread_create` included; a message is handled in two steps, before and after the first write, both under `params_mutex`; each setter of the start is a read and a write, without it |
| `MmalPort` | ports, pools and headers of the camera library | a header is a place; a port is its flags and the headers in transit; one operator per function; the firmware may refuse a header or the disabling of a port |
| `CameraWorker` | `worker_thread` and the header traffic of both callbacks, on `MmalPort` | one action per phase of the start, per header sent and per phase of the shutdown; each callback in steps for arrival, data and release, get, send, and end |
| `Streamer` | `CameraWorker`, the picture under `db`, and the HTTP server with its client threads | composes the callbacks' data step with the mutex; one action per call of a client that can wait |
| `Autonomous` | scheduler, commands, the timers of drive, modules, steering encoders, elevator and intake, and the robot's modes | every command is named by its line; a turn of the scan, and each of the two reads of `stop()`, is a step; the modes none, disabled, autonomous, teleop and test follow one another in any order, any number of times |
| `FileOutput` | worker, ring and folder of output_file, restarts | one action per system call that can fail or after which the program can end |
| `MCFrames` | `FrameBuffer` and `FileOutput` for TLC: a behaviour is one of the two | |
| `MCUdpComms`, `MCCameraControl`, `MCStreamer`, `MCAutonomous` | values for TLC | |
| `YuvRunsProofs`, `BlobListProofs`, `UdpCommsProofs`, `FrameBufferProofs`, `AutonomousProofs`, `CameraControlProofs`, `StreamerProofs` | theorems about the module of that name; in `FrameBufferProofs`, of `FileOutput` as well | |
| `FrameQueueProofs` | theorems about `CamPipeline`, and about `FrameStream` as an instance | |

How they compose: `YuvRuns` and `BlobList` meet in an assumption:
`RowRunsAssumption` of `BlobList` (runs are not empty, in order, and never touch)
is what the theorem `AlwaysSeparated` proves of `YuvRuns`. `Detector` extends
`BlobList` by what happens to its list afterwards, and says what message and boxes
should be in terms of the components of the image. `FrameBuffer` has all of
detection and report as the critical section it is. `Streamer` extends
`CameraWorker`, which extends `MmalPort`; it has the viewers of `FrameBuffer`
with the beginning and the end of the program around them, and of a frame only
whether it is complete. `CamPipeline` and `FrameStream` share `FrameQueue`.

### What is abstracted

* Pixel values: only the outcome of the threshold test remains. A frame is its
  number and its chunks; an image is its number.
* Integer width: the counts of `Blob_List` are unsigned shorts; `SizeAssumption`
  says they do not overflow, with the marker 65535 itself kept. Sums are not
  bounded: an image of the camera's largest size keeps them below 2^31.
* In `BlobList` and `FrameBuffer` a `malloc` that fails, the highlighting of
  detected pixels and drawing.
* A TCP message of several numbers is one number, with the tightest of its
  limits, so that a setter without mutex reads it at once, and no knob is seen half
  written; the two gains and tolerances of the freeze are right or wrong at
  once. Where a message is cut, the rest is read as any message.
* Undefined behaviour is a choice among what it may come to. A mutex that another
  thread holds is freed by `pthread_mutex_unlock`, as glibc does it. What follows
  a write past the end of the picture is left open: `FrameBuffer` stops there.
  After a write past the connection table, a free into it, the freeing of a pool
  whose port is open or a post on a deleted semaphore, the program goes on as if
  nothing had happened or ends.
* `pthread_cond_wait` returns without a signal in `FrameBuffer` and `Streamer`. In
  `FrameQueue` it does not: the code does not look at the queue again, and after
  such a return `pop` would hand out a slot of an empty queue.
* MMAL: callbacks of one component come one after the other in one thread, those
  of two components in two threads; the firmware gives a drained port's headers
  back. `MmalPort` takes its queues for sets.
* One listening HTTP socket. With several, the accept loop hands all connections
  of one round the same `cfd` (`httpd.c:1539`), and indexes `sd[]` by numbers of
  descriptors (1568).
* Driver: V4L2 fills buffers in the order they were queued and gives them out in
  that order.
* The commands of the robot reach their goal, or not, as the environment likes;
  positions, PID and motors are left out. `module` and `steerEncoder` stand for
  four of each. Of what an earlier period left running (`abandoned`) the steps
  are not followed: `AbandonedSets` lets it set drive and elevator at any time. A
  line of colons alone, which has no name, ends the scheduler's thread and is
  left out.
* Of the file system, opening, writing, `scandir` and `unlink` may fail; the clock
  does not go backwards (`output_file.c:147` says what happens then).

## 3. What is checked

### Runs that pass

| run | instance | what it shows |
|---|---|---|
| `Vision` | all 4096 rows of 8 columns; all 32768 images of 5 columns and 3 rows, blobs of 3 pixels and more, 2 boxes, 1 entry in the message; 4^6 images of 15 columns and 6 rows; 8 entries | rows: the arrays of `cols/4` and `cols/2` entries are never outgrown, runs stay apart, and the last column of each chroma run is all that is missing. Small images: after each row the blobs are the connected components, with exact count, sums, top, left and right; boxes and message hold the largest components of the whole image, none twice. All images: list and forest agree, asserts, ranks, refinement of `Blobs`, and nothing counted twice when pixels are lost; wide ones have trees of depth 2, path compression in the middle of an image, and lists that run full |
| `FrameQueues` | a queue of sizes below, inside and above the range, all four ways of blocking, 7 frames; a camera with 5 buffers | without spurious wakeups, the ring is a bounded FIFO and every accepted frame comes out; the order in the driver and on the free list stays the same, each frame is in one place, images keep being shown unless the process ends |
| `Frames` | two viewers, 2 frames of any length in a buffer for 2 chunks, empty frames, spurious wakeups, 2 raw images; output_file with rings of none to 2 files, excess 0 to 2, 6 files in 3 seconds, 2 restarts anywhere, failures anywhere | no circular wait among the four mutexes, boxes of one image in a header; until the encoder unlocks a viewer's `db` or a frame does not fit, a viewer that was signalled gets a fresh frame, and `FrameMailbox` is refined (beyond that it is `broken`); the newest files are never deleted, the folder stays bounded as long as `scandir` and `unlink` succeed |
| `UdpComms` | 2 hosts, a table of one, 2 datagrams in flight, a clock that needs 2 samples and gets up to 3 | samples of a client are of its own clock; the offset is off by at most half the longest round trip and a millisecond, the time sent with the blobs by at most a round trip; no initial value is taken for an offset; a waiting constructor returns if no send fails |
| `CameraControl` | 3 windows, 2 with a saved file, one of them used for 2 messages, one may close, at most 2 open when one sends; a table of 2; messages that freeze, overrule the freeze, set thresholds and exceed a limit; the start sets the exposure mode meanwhile | the camera shows what the parameters say wherever a message or the start had the last word, but for a knob changed while the start was about to set it, and a frozen camera stays frozen until overruled; an image is searched with the thresholds of one message unless a restore interferes; the reply is heard before any text; a window is admitted unless the table is full, the server is kept by a window without a saved file, or a failed `accept` or `pthread_create` has ended the server |
| `Streamer` | both modes, two headers per port, pictures of up to 2 buffers, one client, a signal and an exit at any moment, a firmware that refuses headers or the disabling of a port | when the encoder's port has been closed no callback runs and the firmware has no header; the worker always gets the headers it counted; none is lost while pictures are taken but those the firmware did not take; the worker ends after a signal, and whoever waits for a picture gets one, if the encoder has a header left |
| `Autonomous` | 2 scripts, one with parallel lines and an unknown last line, and any number of autonomous, teleop, disabled and test periods in any order | lines are begun in turn; `disabledInit` and `teleopInit` stop all commands unless they meet the scheduler's update; each subsystem has the one timer that `stop()` cancels, and loses one only when autonomous does not follow disabled; a driver who does not calibrate for ever stays in control unless a stop was overlapped or an earlier period's scheduler abandoned; a script of known lines ends |

**Why the bounds are enough.** A row of 8 columns holds four chroma samples: the
fullest arrays (alternating samples), a run at the left edge, at the right edge
and in the middle, and two runs side by side. Images of 5 columns and 3 rows
have every way in which two rows of up to three runs overlap, blobs that begin
apart and merge (a U and a W), and blobs that end; with blobs of 3 pixels the
purge finds small ones before, between and after large ones, and both limits of
the report are passed. Depth-2 trees, the least on which path compression changes
anything, need seven runs in a row, hence the rows of 15 columns of `TreeRows`,
chosen so that four blobs are merged in pairs and then all; the seven fit the lists
of 8 entries, and of those that begin below them some do not. The queue sizes go round the ring more than once. Two
frames in a buffer for two chunks are a long frame followed by a short one, by an
empty one, or by one that does not fit, and two images make the splitter write
between two reads of the encoder. One datagram of the two
in flight in `UdpComms` can overtake or repeat the other while the second host
tries to get in; times run over three moments past the longest round trip, and a
millisecond has three microseconds, so that every rounding occurs. One entry in
the table is enough to have it full; that two entries do not disturb each other
is proved.

Of the three windows of `CameraControl` the third finds a full table or waits
behind the one without a saved file; two messages are a freeze and its overruling,
or two that arrive together, one of which is cut. The start's one setter is the
one that the freeze and two of the messages compete with; the theorems are about
any sequence of setters. Two headers are the fewest
with which the firmware can hold one while a callback has the other, or refuse
one and go on with the other, and a picture
in two buffers the shortest over which `db` is held from one callback to the
next; a second client adds nothing that the first does not meet, as `db` and the
condition are all that clients share. The scripts of `Autonomous` have up to three
lines, so that a finished command is removed in front of one that is not; its
periods are not bounded. Six files fill a ring of two, its excess
of two, and leave files for two later runs.

`MaxFrames`, `MaxChunks`, `MaxImages` and the constants of the other modules
named "bound" are the only things that stop a model which the program would not
stop at; deadlock checking is off because of them, because a scan ends, and
because processes exit.

Each property has a mutant in `PROJECT.json`: a plausible slip in the modelled
code (a guard dropped, a reset forgotten, an order swapped) with which TLC finds
the property violated. The operators stand before the ones they mutate, marked
as such. `TypeOK` of each module is not in a run of its own; it is the base of
the proofs where there are any.

### Fairness

`FrameStream` has weak fairness for each of its two threads, which
do nothing else, and `CamPipeline` for capture, display and the camera, which
goes on filling queued buffers. No strong fairness is needed: a woken waiter of
`FrameQueue` does not look at the queue again, so no one can overtake it.
`MCFrameQueues` states the same for whichever of the two a behaviour is of.
`FrameBuffer` has no liveness property: nothing in the code keeps the settings
threads and the splitter from taking `params_mutex` in turns for ever, and POSIX
does not promise otherwise. `YuvRuns` and `BlobList` are sequential loops.

`UdpComms` assumes that the three threads keep running and that `lock_mutex`, free
again and again, is got in the end (strong fairness): the sender takes it once an
image and holds it for a few `sendto`s only. Nothing is assumed of the network:
`ConstructorReturns` says what follows *if* no send fails and a clock gets known.
When the send before the only signal failed, the constructor finds no connection
and is not woken again; the camera plugin does not block there
(`input_raspicam_696.c:1342`).

`CameraControl` asks only that the server thread runs: it takes no mutex that is
held while somebody waits. Users, windows, the camera and the start's setters may
do nothing, and no failure has to occur.
`Streamer` has weak fairness for the worker and for the splitter's callback, and
strong fairness for the encoder's callback and the clients, which need `db`: it is
given back after each picture and each copy, so that whoever asks long enough
gets it. That the firmware goes on delivering pictures is the camera's part of
the same assumption, as long as it has a header (`Starved`). Nothing makes the
process exit: `WorkerEnds` must follow from the worker itself.

`Autonomous` has weak fairness for every timer and the main thread, and strong
fairness for the completion of a known command: a robot that never reaches its
goal would hold the script up for ever, and rightly so. Weak fairness of
`teleopPeriodic` says that in teleop the main thread calls it again and again and,
since a call that calibrates changes nothing here, that the driver does not hold
that button for ever. Nothing is asked of what an earlier period abandoned, and
nothing makes the mode change.

### The runs that find a violation

Each checks what a comment, a header or a message of the program says, and finds
a behaviour of the code that contradicts it; `PROJECT.json` quotes the lines.

| run | what is said | what happens |
|---|---|---|
| `UdpComms_hosts` | `sockaddr_equal` compares "the socket addresses and ports" (`udp_comms.c:99`) | addresses are compared with themselves: two hosts with the same port, such as two of the repository's clients, are one entry, whose clock is made of both, and the second never gets blobs |
| `YuvRuns_ends` | `run_high` is "one past", and runs are of "any pixel that is within threshold" (`detect_color_blobs.c:122, 145`) | the last column of each chroma run is lost |
| `FileOutput_noring` | with a size that is not positive there is "no ringbuffer" (`output_file.c:458`) | with size 0 every picture is deleted |
| `CamPipeline_exception` | the empty free list "should be impossible" (`usb_camera.h:54`), and a timeout "returns NULL" (`usb_camera.cpp:270`) | a `select` that timed out is taken for an image, and the exception is thrown |
| `CamPipeline_exclusive` | the holder of a frame has exclusive control of it (`frame_queue.h:13`) | `display_thread` reads the number of a frame that it has given back, while `VIDIOC_DQBUF` writes it for `capture_thread` |

### What else the modelling brought to light

Described here, where the modules have the code's side of it:

* Blob detection. `stats_add_singleton` sets the bottom of a box (documented as
  "bottom pixel of bbox") to the last run added below its top, also when that is
  not the lowest (`detect_color_blobs.c:95`), which is why the properties are
  about every number of a blob but this. `copy_best_bboxes_to_blob_stats_array`
  writes one entry more than the message has before it compares (`CopyStats`).
* The measured colour is written under `params_mutex` and read under `bbox_mutex`
  (`input_raspicam_696.c:628, 748`): its components may be of two images.
* Encoder. The flag of a picture's end is acted upon in a buffer without data too
  (`input_raspicam_696.c:779-797`). If that is a picture's only buffer, a picture of
  size 0 is published and `db` unlocked though the encoder has not taken it
  (`EncoderGetsEmpty`): a viewer that holds it then loses it, and from there
  on neither freshness nor whole frames are certain. The copy into the shared
  buffer is not checked against its size (772, `EncoderOverruns`).
* Odroid. `Usb_Camera::push` gives a buffer to the driver before the frame is on
  the free list, so `pop` can find an image and no frame, the other way to the
  exception (`FreePopThrows`); a `select` that fails makes `pop` return `NULL`,
  whose time `capture_thread` asks for (`SelectFails`).
* TCP. `exposure_mode_is_frozen` stays set after a message has set another
  exposure mode, and the next good gains do not freeze it again (`overruled`).
  Saved parameters are copied without `params_mutex` and without limits, and the
  camera is not told of them (`CopyParams`). A window without a saved file and
  the server wait for each other; of saved parameters that arrive in two pieces
  the first is thrown away and the rest read as messages (`RecvParams`). With a full table the place of
  the next connection is prepared past the array (`tcp_comms.c:577`), and that
  connection is never served nor closed. One failed `accept` frees a pointer into
  the table and ends the server (580-585), and so does one failed `pthread_create`
  (568), after the connection was counted. The limits of a region of interest are
  truncated to 0 or 1, as `float_limit` returns an int. `RASPICAM_QUIT` goes on
  as `RASPICAM_SATURATION`.
* Start. The worker sets all parameters of the camera without `params_mutex` when
  the TCP server runs already (`input_raspicam_696.c:1404, 1496`): a message
  between the reading and the setting of a value is undone in the camera (`stale`).
  The status of the first connection to the resizer is overwritten by that
  of the second, and a video capture that cannot be started is only logged: then
  viewers wait for ever, the exception in `ClientServed`. A resizer that was not
  created is used all the same. In video mode the semaphore is posted for every
  picture and never waited for.
* Headers. A header that the firmware does not take is only logged by the callbacks
  and, for video, by the worker, and is gone for good; when all are gone, pictures
  stop (`Starved`).
* Shutdown. `worker_cleanup` frees the shared picture without `db` while a client
  woken before may be about to copy it (`CopiesFreed`); a picture under way when
  the encoder's port is disabled leaves `db` locked. The status of
  `mmal_port_disable` is not looked at: if the firmware refuses, the pool of a port
  that is still open is freed (`FreedOpen`). The semaphore is deleted before the
  callback that posts it has come to rest (`input_raspicam_696.c:1946, 825`).
  `signal_handler` destroys the inputs' conditions in a loop over the outputs.
* Robot. `stop()` during an update of the scheduler can leave a command running
  that was just started or moved up, or end in an exception, hence `overlapped`
  in `StopIsFinal`. `autonomousInit` starts subsystems and a new scheduler without
  stopping anything: entered from teleop or test mode it replaces timers that
  then run for ever, and from test mode it can abandon a scheduler that runs
  (`abandoned`); entered first it loses the timers of the steering encoders, which
  `robotInit` has started. The LIDAR's task is never stopped. A line that names no
  command, or the short constructors of `navigate`, stall the script.
* Files. If the program is started again within the second of its last file, older
  files with higher counters outlive newer ones, hence `apart` in `NewestKept`.

## 4. What is proved

| theorem | says |
|---|---|
| `YuvRunsProofs!TypeCorrect`, `NoOverrun`, `AlwaysSeparated` | for every number of columns divisible by four and every row, types, array bounds and separation |
| `YuvRunsProofs!ExactlyThePixels` | with the same generality, the runs are exactly the pixels within the thresholds, but for the last column of each chroma run (`OnlyTrailingMissing`) |
| `BlobListProofs!TypeCorrect` | for every image size, every input and every capacity, types and indices |
| `BlobListProofs!ListAndForestAgree` | `root_info` lists the roots of the forest, each once |
| `BlobListProofs!RanksAlwaysIncrease` | ranks grow towards the root, so that `find_root` ends |
| `BlobListProofs!AssertsNeverFail` | the asserts of the code hold, in the middle of every `find_root` too |
| `BlobListProofs!ForestImplementsBlobs` | `BlobList` implements `Blobs`: every step begins, grows or merges a blob or leaves all alone |
| `BlobListProofs!BlobsAlwaysComponents` | as long as no set was refused, the blobs after each row are the connected components of the runs read, with exact count, sums, top, left and right |
| `BlobListProofs!FullListAlwaysSound` | whatever was refused, no pixel counts twice and each blob lies within a component |
| `BlobListProofs!ReportAlwaysBest` | for every size of the arrays and every order of equal counts, the message has the largest components of the image, none twice, and the boxes are those of the same blobs |
| `UdpCommsProofs!TypeCorrect`, `AlwaysClock` | for every number of hosts and every size of the table, indices are in use, and a client with a sample has an offset and a start time |
| `UdpCommsProofs!AlwaysOwnClient`, `AlwaysOffsetSound` | if no two hosts have the same port: a sample belongs to its host, and offsets are near the true ones, for every round trip and every resolution of the clocks |
| `UdpCommsProofs!AlwaysPredictionSound` | with the same assumption, the time sent with the blobs is where the client's clock may be when they arrive |
| `FrameBufferProofs!TypeCorrect`, `NeverCircularWait` | for any number of viewers, chunks and images: what is published and what a viewer copies lies inside the buffer, though nothing checks that the next chunk fits, and no set of threads waits in a circle |
| `FrameBufferProofs!AlwaysBoxesOfOneImage`, `AlwaysFreshFrame` | count and boxes in a header agree; until the encoder unlocks a viewer's `db`, a viewer that was signalled copies a frame begun after its wait |
| `FrameBufferProofs!MailboxImplemented` | with empty frames and frames that do not fit, `FrameBuffer` implements `FrameMailbox`, which breaks when the encoder unlocks a viewer's `db` or writes past the buffer, and for no other reason |
| `AutonomousProofs!TypeCorrect`, `AlwaysInTurn`, `StopAlwaysFinal`, `AlwaysOneTimer` | for scripts of any length and any number of periods in any order: the vector of commands, the turns of the lines, what `disabledInit` and `teleopInit` have stopped, and the timers of the subsystems, which only an autonomous period that does not follow disabled loses |
| `CameraControlProofs!TypeCorrect`, `AlwaysReplyFirst` | for any number of windows and any table: no more connections are counted than there are, the heap has been written past the table whenever the server accepts with a full one, and the reply comes before any text |
| `CameraControlProofs!AlwaysThresholdsOfOneMessage`, `AlwaysCameraInStep` | for any messages, with any values, cut anywhere, and any sequence of setters at the start between them: the thresholds of an image, and the camera against the parameters, but for a knob changed while the start was about to set it |
| `StreamerProofs!Inductive`, `Typed` | for any pools of headers, any number of clients and buffers of a picture, in both modes: where every header is, those included that the firmware did not take, and that no more are in transit than there are; until the process ends or the pool of a port is freed that could not be disabled |
| `StreamerProofs!DisableIsFinal`, `AlwaysAHeader`, `HeadersCirculate` | once the encoder's port is closed nothing runs or is in transit; the worker never meets an empty queue; no header is lost while pictures are taken but those the firmware did not take |
| `FrameQueueProofs!Inductive`, `Typed`, `DriverInStep`, `AlwaysOnePlace` | for any number of buffers: the invariant of the Odroid's pipeline, driver and free list in step, one place for each frame |
| `FrameQueueProofs!NeverFull` | with as many buffers as `MAX_QUEUE_SIZE`, a push in this pipeline still finds room: nothing is overwritten or refused |
| `FrameQueueProofs!RingIsFifo` | for any number of frames, any size asked for and every way of blocking: `FrameStream` implements `Fifo` |
| `FrameBufferProofs!NewestAlwaysKept`, `RingAlwaysBounded`, `FilesTyped` | for any ring, any number of files and of runs ended anywhere: `NewestKept`, `BoundedRing` (as long as `scandir` and `unlink` succeed) and `FileTypeOK` of `FileOutput` |

Assumptions are those of the modules: `ColsAssumption` (widths are port widths,
multiples of 32 in `input_raspicam_696.c:1507`; 4 is enough), `SizeAssumption`
(the counts fit unsigned shorts), `RowRunsAssumption` (proved of `YuvRuns`), `UdpAssumption` (times and counts are
whole numbers), `FrameAssumption` and `ControlAssumption` (the names of viewers
and windows are not those of the other threads; values are integers),
`ScriptAssumption` (scripts are finite sequences of lines), `PortAssumption`, `WorkerAssumption` and
`ClientAssumption` (pools are finite and disjoint, there are the two ports of the
worker, a picture takes a buffer at least, nobody is called "nobody") and
`PipelineAssumption` (the driver grants a buffer at least and a queue can
hold all of them: `MAX_BUFS` is 5, `MAX_QUEUE_SIZE` 32), and `FileAssumption` (bounds
are whole numbers). `FrameStream` is an instance where it is proved about, so that
there `QueueAssumption` and `StreamAssumption` stand as hypotheses of the theorem:
they say that bounds are whole numbers, the ring has a slot, and NULL is no frame. `DistinctPorts` is a hypothesis of three
theorems and not of the module: `UdpComms_hosts` shows what happens without it.

**The arguments.** None of the properties is inductive. For `YuvRuns` the
invariant counts columns: each finished chroma run took two and is followed by a
sample of two more (`UvCount`), each finished luma run took one and is followed
by another (`YuvCount`), and the runs lie in order before the place the loop has
reached (`UvOrder`, `YuvOrder`), which is inside the chroma run it looks at
(`InUvRun`). `ExactlyThePixels` needs the same loops column by column: up to
the place reached, a column is in a chroma run exactly if its sample is within the
thresholds and, for the second column of a sample, the next sample too; and it is
in a luma run exactly if it is in a chroma run and its own luma is within them (`UvPixels`, `YuvPixels`). For `BlobList`
the invariant is `ForestInv /\ ScanInv /\ FindInv`. `ForestInv` (types, list and
forest agree, parents in use, ranks increase) is kept by each operation on the
forest, shown in one lemma each (`MakeSetKeeps`, `CompressKeeps`, `AbsorbKeeps`,
`LinkKeeps`, `AddStatsKeeps`); `ScanInv` says where the walk over two rows is and
that what it reads there is in use; `FindInv` that the nodes whose parent is
still to be set are no roots and have a smaller rank than the node reached, so
that making the root found their parent keeps the ranks increasing. The step lemma
then has one case per action.

The refinement of `Blobs` maps an entry to the root its parents lead to. `Root`
follows as many parents as there are entries; that this is enough is shown once,
for a state with `ForestInv`: the longest way from an entry to a root has growing
ranks, so no entry twice, so it is no longer than the entries are many (`WayEnds`). The induction over its
length is one over a set of numbers, from the fact that a non-empty finite set of
numbers has a least one (`Least`, `AllNumbers`): no operator is quantified over.
From there on a state is described by any map `rho` from entries to roots that is
constant along parents (`Maps`): there is one (`MapFindsRoots`), it gives the
blobs (`MapGivesBlobs`), and a step says what the next map is: the same for
`Unwind`, one entry more for `UnionNew`, two roots in one for `FoundSecond`.

That the blobs are the components needs a second map, `own`, from each run of
the image to the entry it was put into, 0 for a run in no set. `Held(rho, own)` is the
strengthening: the runs in use by the two rows at hand are where the code says
(`RowsHeld`, `FindHeld`); the statistics of a root are, but for `max_y`, the totals of the runs that
lead to it (`AllCounted`); those runs hang together (`Connected`); and, as long as
no set was refused, two runs that share a column and were looked at are in one
blob (`AllJoined`). There are such maps at the start and after every step
(`StepHeld`), each step saying what the next maps are. That the walk passes
no pair of runs in contact without a union (`AllJoined`, for `SkipPair` and for the advance
after a union) is where the rule that leaves behind the run that ends first is used.

`Components` and `StatsOfComponent` are folds over finite sets, whose recursion is
a function over the subsets of a set. What such a function is, that it does not
depend on the order, and what it gives for a union is shown for folds with any
function of two arguments, the fact to be shown being a set of subsets that holds `{}` and with
each set its extensions by one element (`Grows`, `AllSubsets`); so no
operator is quantified over. Merging the blocks of a partition along all contacts
gives the finest partition that respects them (`PartsAreBlocks`), whose blocks
with at least two runs are the classes of `rho` and `own` (`ComponentsAreClasses`),
and statistics of runs add up in any order (`ImageTotals`). Of a list that ran full, each
class is still part of one component, the classes are apart, and a part has no
more pixels than the whole (`PartInside`, `CountsApart`).

For `Detector`, `DetectorIInv` is the invariant of the scan and, after it, a
naming of the entries by different components that misses no large one (`Names`): the
purge moves entries with their names (`NamesMove`), from the front part and the part still
to be looked at (`Compacting`), the sort permutes them, a one-to-one map of the
places being onto (`AllPlaces`), and the copies are prefixes of the sorted list
(`Copying`).

For `UdpComms` the invariant `IInv` follows a sample: what is on the network
carries a moment of the past (`NetSound`), an echo that is being handled was
written between that moment and its arrival (`Answered`, in `LoopSound`), which
puts its offset within the bounds (`SampleNear`); the least of several offsets
within the bounds is within them (`ClientSound`, for each entry written). The sum
of round trips is at most the count times the longest, so the mean is at most half
of it (`MeanBound`). The last theorem needs one more fact, that the start time is
one the client's clock has shown: C's division rounds up when the time since the
offset is negative, and then only that fact bounds the result (`PredictionNear`).

For `FrameBuffer` the invariant says of each mutex where the code of its holder is
(`LockInv`), and, as long as `db` was not taken from a viewer, that it stays with
the encoder from the first callback of a picture with data to the last, and with a
viewer while it copies (`DbInv`); of the data it says what each of these places implies: the
buffer begins with the chunks of the frame under way (`BufInv`), and a viewer's
wait cannot begin while there is one (`ViewInv`), so that the broadcast ends a
frame begun after it. `NeverCircularWait` then follows from who may want what
while holding what: only the encoder and the splitter want a mutex while they hold
another, and whoever can hold the one they want then wants none. For the
refinement, the last chunk is `FrameMailbox`'s publication, a copy is its read,
and every other step leaves what is mapped alone.

For `Autonomous` the vector of commands is increasing, and so has each line once
(`ListSound`); a line that was begun is finished or in the vector (`TurnSound`);
as long as no update overlaps a stop, the scheduler is between two updates and
the lines below the index of `stop()` are stopped (`StopSound`). `TimerSound`
speaks of the mode change half done: on the way to teleop no timer is set when the
main thread comes to start them, so that only `autonomousInit` can replace one that
is. Test mode and what was abandoned change none of this.

For `CameraControl` the thread that holds `params_mutex` is between the halves of
a case (`MutexInv`); only its knob may differ between parameters and camera, and
that only until it gives the mutex back (`CameraInv`), because a limited value is
one that the setter accepts (`LimitedIsAccepted`) and setting it again changes
nothing (`ShownTwice`). A setter of the start either sets the value that the
parameter still has, or makes its knob `stale` until that is set again. The two thresholds differ only in the middle of a message,
or in the middle of a copy of saved ones that has met nobody so far
(`ThresholdInv`). Whoever is in the table, or is about to be, has its reply
(`HeardInv`), so that no log message is anybody's first.

For `Streamer` the invariant is `SInv`, or, once the pool of an open port has been
freed, types only (`FInv`): nothing is claimed of what then follows. In `SInv` every
header of a port is at one place, lost ones included, so places are sets that can
be counted, and a step moves one header from one place to another (`Moving`).
The queue of a port then has what the worker has still to send and, between a
callback's release and its next `mmal_queue_get`, one more (`LeftToFill`);
`transit` counts what the component has and what the callback has not given up
(`InTransit`). That the semaphore is posted once for a picture (`Posted`) keeps
the encoder's callback away from the worker while that fills the port for the
next one, and the port drained in front of the disabling keeps it away for good.

For the Odroid's queue the ring of `Frame_Queue` is described by the sequence of
what it holds (`Contents`): storing a pointer changes none of it, since there is
always a slot more than `size`, advancing the tail appends and advancing the head
takes the first (lemmas on the ring, with the remainders reduced to one turn).
In `CamPipeline` all frames are then in one sequence, `Line`: display's frame, `q1`, capture's
frame, the free list. It only rotates, when display gives its frame back, and as
it has each frame once, no queue can be full. `InStep` says that the driver's queue
is the tail of that sequence, with the place of a thread between its two
accesses made good: this is why `VIDIOC_DQBUF` returns the buffer of the frame
that was popped, and why the assignment of the index in `Usb_Camera::pop` changes
nothing (`OwnIndex`). A thread that was woken does not look again at its condition;
it may go on since only one thread pushes to a queue and only one pops
(`Waiting`, `PusherWaits`, `PopperWaits`). For the refinement of `Fifo`, what was
accepted is what was popped followed by what the ring holds (`Difference`).

For `FileOutput`, as long as the runs are apart, the names saved grow in the order
of `alphasort` (`FilesInOrder`), so that a file has at most as many files after it
in the folder as were saved after it (`LaterSaved`), and only those with
`ringbuffer_size` later ones are deleted. The number of files follows the counter
(`FolderHeld`): it is the ring and the remainder of the counter between two
pictures, and `maintain_ringbuffer` brings it back to the ring, because two
files never have equally many files after them (`LeftOver`). A run that ends before
it has looked after the ring leaves one file more than it found allowed.

**Only model-checked:** liveness, as fairness and `ENABLED` are out of the provers'
reach. What limits the theorems is in their statements: `BlobsAreComponents` and
`ReportIsBest` speak of images for which no set was refused (`NeverFull`), and of
all of the statistics but `max_y`, which `stats_add_singleton` may move up.

## 5. Not modelled, and the plan

Left out for good:

* MMAL beyond the ports, pools and headers its user meets, navX, and the other
  vendored libraries: a third of the repository. They are not this program's
  logic, and half of MMAL talks to a firmware that is not here.
* Generated test pictures and tables (`testpictures.h` alone has 9800 lines), pixel
  arithmetic, drawing and JPEG tags: data and pure functions of data, with no state
  for a step to get wrong.
* PID, odometry and swerve arithmetic: floating point.
* The other input and output plugins, and `input_raspicam`, from which the 696
  plugin was derived: what they do with `db` and `db_update` is a step of
  `FrameMailbox`, what they do besides is their device.
* Option parsing, help texts and plugin loading, by one thread before all others.

This is most of the repository's lines, so that what is mapped is a small share
of them: it is the concurrent and the algorithmic part of the team's own code.

Left for later, in this order:

1. The rest of output_file: one MJPG file for all pictures, and TAKE, which
   saves a picture from the thread of whoever asks.
2. Requests of output_http: a header line that never ends, a command to a plugin
   while the picture is written.
3. `Elevator`: its preset positions and the switch that stops it, on integers.
