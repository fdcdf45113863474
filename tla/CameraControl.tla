----------------------------- MODULE CameraControl -----------------------------
(***************************************************************************)
(* The parameters that the windows on the driver station (dash696.py) send *)
(* to the camera over TCP, and what becomes of them: server_thread and the *)
(* connection threads of tcp_comms.c, the setters of RaspiCamControl.c,    *)
(* camera_control_callback, which freezes the exposure, and the reading of *)
(* the thresholds by splitter_buffer_callback.                             *)
(*                                                                         *)
(* A message of several numbers is one value.  A client with a saved file  *)
(* sends all its parameters when it connects; one without sends an empty   *)
(* string, which puts nothing on the wire.  Both wait for the reply before *)
(* they send anything else.                                                *)
(*                                                                         *)
(* When the table is full the code prepares one place more than it has,    *)
(* and when accept fails it frees a pointer into the table: what follows   *)
(* either is as if nothing had happened, or the end of the process.        *)
(***************************************************************************)
EXTENDS Integers, Sequences, FiniteSets, Functions

CONSTANTS
    Clients, Saved,     \* the windows, and those with a saved file
    Null,               \* nobody
    MaxConnections,     \* MAX_CONNECTIONS
    RecvRoom,           \* the messages that fit in MAX_MESG bytes
    Messages,           \* what the clients send once they are admitted
    Restored,           \* the camera's parameters a saved file may have
    SavedTargets,       \* the gain targets a saved file may have
    Setters,            \* the knobs in the order the worker sets them
    Users,              \* bound: the windows somebody uses
    MaxSent, MaxClosed, \* bounds: the messages they send, the windows closed,
    MaxBusy             \* and the windows that are open when one sends

-----------------------------------------------------------------------------
(* One parameter of the camera *)

\* The limits int_limit (and float_limit) put on a value, in the order of the
\* tags; roi is in percent.
Limits ==
    [saturation |-> <<-100, 100>>, sharpness |-> <<-100, 100>>,
     contrast |-> <<-100, 100>>, brightness |-> <<0, 100>>,
     exposureMeterMode |-> <<0, 3>>, videoStabilisation |-> <<0, 1>>,
     exposureCompensation |-> <<-10, 10>>, exposureMode |-> <<0, 12>>,
     awbMode |-> <<0, 9>>, imageEffect |-> <<0, 22>>, colourEffects |-> <<0, 255>>,
     rotation |-> <<0, 359>>, flips |-> <<0, 3>>, roi |-> <<0, 100>>,
     drc_level |-> <<0, 3>>, stats_pass |-> <<0, 1>>]

Unlimited == {"ISO", "shutter_speed", "awb_gains"}
Knobs == DOMAIN Limits \cup Unlimited

\* raspicamcontrol_set_all_parameters.
AllSetters ==
    <<"saturation", "sharpness", "contrast", "brightness", "ISO", "videoStabilisation",
      "exposureCompensation", "exposureMode", "exposureMeterMode", "awbMode", "awb_gains",
      "imageEffect", "colourEffects", "rotation", "flips", "roi", "shutter_speed",
      "drc_level", "stats_pass">>

int_limit(low, high, value) ==
    IF value < low THEN low ELSE IF value > high THEN high ELSE value

\* Mutant: the limit is forgotten.
ReceivedUnlimited(knob, value) == value

\* float_limit has no return type, so it returns an int: 0.5 becomes 0.
Received(knob, value) ==
    IF knob \in Unlimited THEN value
    ELSE LET limited == int_limit(Limits[knob][1], Limits[knob][2], value)
         IN  IF knob = "roi" THEN (limited \div 100) * 100 ELSE limited

\* Four of the setters reject a value out of range.
Accepted(knob, value) ==
    /\ knob \in {"saturation", "sharpness", "contrast"} => value \in -100 .. 100
    /\ knob = "brightness" => value \in 0 .. 100

\* What a setter makes of the camera's value: gains of zero it leaves alone,
\* rotations are quarter turns.
Shown(knob, value, current) ==
    IF ~Accepted(knob, value) \/ (knob = "awb_gains" /\ value = 0) THEN current
    ELSE IF knob = "rotation" THEN ((value % 360) \div 90) * 90 ELSE value

OFF == 0            \* MMAL_PARAM_EXPOSUREMODE_OFF
AUTO == 1

Defaults == [k \in Knobs |-> CASE k = "brightness" -> 50 [] k = "exposureMode" -> AUTO
                               [] k \in {"exposureMeterMode", "roi"} -> Limits[k][1]
                               [] OTHER -> 0]

\* What the tags do not name: a message QUIT is handled as SATURATION, whose
\* case follows without a break.
Field(tag) == IF tag = "quit" THEN "saturation" ELSE tag
StrayTag == "stray"      \* bytes of the middle of something, read as messages
Stray == [tag |-> StrayTag, value |-> 0]

ASSUME ControlAssumption ==
    /\ Saved \subseteq Clients /\ Users \subseteq Clients
    /\ Null \notin Clients /\ "splitter" \notin Clients /\ Null # "splitter"
    /\ MaxConnections \in Nat \ {0} /\ RecvRoom \in Nat \ {0} /\ MaxSent \in Nat /\ MaxClosed \in Nat /\ MaxBusy \in Nat
    /\ Setters \in Seq(Knobs)
    /\ Restored \subseteq [Knobs -> Int] /\ SavedTargets \subseteq Int
    /\ \A m \in Messages : m.value \in Int

-----------------------------------------------------------------------------
VARIABLES
    params,      \* Tcp_Params: the camera's, the thresholds, the gain target
    camera,      \* what the camera was last set to
    worker,      \* worker_thread: the setter it is at, the value it has read
    frozen,      \* exposure_mode_is_frozen
    mutex,       \* who holds params_mutex
    server,      \* server_thread: where it is, with whom, what is left to copy
    table,       \* connection[], the first connection_count of them
    client,      \* each window: where it is and what it hears first
    sent,        \* how many messages they sent
    wire,        \* the messages on the way from it
    thread,      \* its connection_thread
    process,     \* does the program run?
    damaged,     \* history: has the heap been written where the table ends?
    told,        \* history: the knobs set last by a message, or at the start
    stale,       \* history: those the start set to a value replaced meanwhile
    overruled,   \* history: has a message set the mode since the freeze?
    calm         \* history: has no copy of saved parameters met another thread?

control == <<params, camera, worker, frozen, told, stale, overruled>>
fate == <<process, damaged>>
vars == <<params, camera, worker, frozen, told, stale, overruled, mutex, server,
          table, client, wire, thread, sent, calm, process, damaged>>

Gone == [pc |-> "none", msg |-> Null]

Init ==
    /\ params = [knob |-> Defaults, min |-> 0, max |-> 0, target |-> -1]
    /\ camera = [k \in Knobs |-> 0]
    /\ worker = [pc |-> "read", at |-> 1, value |-> 0, good |-> TRUE]
    /\ frozen = FALSE /\ mutex = Null
    /\ server = [pc |-> "accept", with |-> Null, todo |-> <<>>]
    /\ table = <<>>
    /\ client = [c \in Clients |-> [at |-> "out", heard |-> "nothing"]]
    /\ wire = [c \in Clients |-> <<>>]
    /\ thread = [c \in Clients |-> Gone]
    /\ sent = 0 /\ told = {} /\ stale = {} /\ overruled = FALSE /\ calm = TRUE
    /\ process = "runs" /\ damaged = FALSE

-----------------------------------------------------------------------------
(* worker_thread sets all parameters, one after the other, while the server *)
(* is running already.  It takes no mutex.                                  *)

others == <<params, frozen, mutex, server, table, client, wire, thread, sent, calm>>

\* The value is an argument of the setter: it is read before the camera is set.
WorkerReads ==
    /\ worker.pc = "read" /\ worker.at \in DOMAIN Setters
    /\ worker' = [worker EXCEPT !.pc = "set", !.value = params.knob[Setters[worker.at]]]
    /\ UNCHANGED <<others, camera, told, stale, overruled, fate>>

\* A value that a setter rejected ends the process, once all are called.
WorkerSets ==
    LET k == Setters[worker.at] value == worker.value
        good == worker.good /\ Accepted(k, value) IN
    /\ worker.pc = "set"
    /\ camera' = [camera EXCEPT ![k] = Shown(k, value, @)]
    /\ worker' = [pc |-> "read", at |-> worker.at + 1, value |-> 0, good |-> good]
    /\ told' = IF value = params.knob[k] /\ Accepted(k, value) THEN told \cup {k} ELSE told
    /\ stale' = IF value = params.knob[k] THEN stale \ {k} ELSE stale \cup {k}
    /\ overruled' = (overruled \/ k = "exposureMode")
    /\ process' = IF worker.at = Len(Setters) /\ ~good THEN "ended" ELSE process
    /\ UNCHANGED <<others, damaged>>

Worker == WorkerReads \/ WorkerSets

-----------------------------------------------------------------------------
(* The windows *)

Open == {c \in Clients : client[c].at # "out"}
MaySend == sent < MaxSent /\ Cardinality(Open) <= MaxBusy

\* Tcp_Comms.__init__ and Dash_696.__init__.
Connects(c) ==
    /\ client[c].at = "out" /\ (sent = 0 \/ Cardinality(Open) < MaxBusy)
    /\ client' = [client EXCEPT ![c].at = "waiting"]
    /\ UNCHANGED <<control, mutex, server, table, wire, thread, sent, calm, fate>>

Sends(c) ==
    /\ c \in Users /\ client[c].at # "gone" /\ client[c].heard = "params" /\ MaySend
    /\ \E m \in Messages : wire' = [wire EXCEPT ![c] = Append(@, m)]
    /\ sent' = sent + 1
    /\ UNCHANGED <<control, mutex, server, table, client, thread, calm, fate>>

Closes(c) ==
    /\ client[c].at \notin {"out", "gone"}
    /\ Cardinality({d \in Clients : client[d].at = "gone"}) < MaxClosed
    /\ client' = [client EXCEPT ![c].at = "gone"]
    /\ UNCHANGED <<control, mutex, server, table, wire, thread, sent, calm, fate>>

-----------------------------------------------------------------------------
(* server_thread *)

\* Whoever is in connection[] hears what is logged.
HearsText(connection) == [c \in Clients |-> IF \E i \in DOMAIN connection : connection[i] = c
                                /\ client[c].heard = "nothing"
                             THEN [client[c] EXCEPT !.heard = "text"] ELSE client[c]]

\* accept takes a waiting client, also one that is gone by then.  With a full
\* table it is neither served nor closed.
Accepts ==
    /\ server.pc = "accept"
    /\ \E c \in Clients :
          /\ client[c].at \in {"waiting", "gone"} /\ client[c].heard = "nothing"
          /\ thread[c].pc = "none" /\ ~\E i \in DOMAIN table : table[i] = c
          /\ IF Len(table) >= MaxConnections
             THEN /\ client[c].at = "waiting"
                  /\ client' = [client EXCEPT ![c].at = "lost"] /\ UNCHANGED server
             ELSE /\ server' = [pc |-> "recv", with |-> c, todo |-> <<>>]
                  /\ client' = [client EXCEPT ![c].at = IF @ = "gone" THEN @ ELSE "accepted"]
    /\ UNCHANGED <<control, mutex, table, wire, thread, sent, calm, fate>>

\* accept fails: the place for the next connection is freed, which only the
\* first one can be, and the server ends.
AcceptFails ==
    /\ server.pc = "accept" /\ server' = [server EXCEPT !.pc = "ended"]
    /\ damaged' = (damaged \/ table # <<>>)
    /\ client' = HearsText(table)
    /\ UNCHANGED <<control, mutex, table, wire, thread, sent, calm, process>>

Groups == <<"knob", "min", "max", "target">>

\* Mutant: recv is repeated until there are bytes.
RecvParamsPatiently ==
    /\ server.pc = "recv" /\ server.with \in Saved
    /\ server' = [server EXCEPT !.pc = "copy", !.todo = Groups]
    /\ UNCHANGED <<control, mutex, table, client, wire, thread, sent, calm, fate>>

\* recv returns the saved parameters; or fewer bytes than they have, which
\* leaves the rest on the wire, to be read as messages; or nothing once the
\* client has closed.  Until then a client without a saved file keeps the server
\* waiting.
RecvParams ==
    /\ server.pc = "recv"
    /\ \/ /\ server.with \in Saved /\ UNCHANGED <<wire, sent>>
          /\ server' = [server EXCEPT !.pc = "copy", !.todo = Groups]
       \/ /\ server.with \in Saved /\ server' = [server EXCEPT !.pc = "reply"]
          /\ MaySend /\ \E n \in 1 .. MaxSent - sent :
                /\ wire' = [wire EXCEPT ![server.with] = @ \o [i \in 1 .. n |-> Stray]]
                /\ sent' = sent + n
       \/ /\ client[server.with].at = "gone" /\ UNCHANGED <<wire, sent>>
          /\ server' = [server EXCEPT !.pc = "reply"]
    /\ UNCHANGED <<control, mutex, table, client, thread, calm, fate>>

\* The saved parameters are copied group by group, without params_mutex, and
\* the camera is not told.
CopyParams ==
    /\ server.pc = "copy"
    /\ LET group == Head(server.todo) IN
       /\ \E value \in CASE group = "knob" -> Restored
                         [] group = "target" -> SavedTargets
                         [] OTHER -> {server.with} :
             params' = [params EXCEPT ![group] = value]
       /\ told' = IF group = "knob" THEN {} ELSE told
    /\ server' = [server EXCEPT !.todo = Tail(@), !.pc = IF Len(server.todo) = 1 THEN "reply" ELSE @]
    /\ calm' = (calm /\ mutex = Null)
    /\ UNCHANGED <<camera, worker, frozen, stale, overruled, mutex, table, client, wire, thread, sent, fate>>

\* Mutant: the success is logged to the new connection before the reply.
ReplyAfterLog ==
    /\ server.pc = "reply"
    /\ client' = HearsText(Append(table, server.with))
    /\ server' = [server EXCEPT !.pc = "create"]
    /\ UNCHANGED <<control, mutex, table, wire, thread, sent, calm, fate>>

Reply ==
    /\ server.pc = "reply"
    /\ client' = [client EXCEPT ![server.with].heard = IF @ = "nothing" THEN "params" ELSE @]
    /\ server' = [server EXCEPT !.pc = "create"]
    /\ UNCHANGED <<control, mutex, table, wire, thread, sent, calm, fate>>

\* Counts the connection, "so the new connection sees the log message",
\* starts its thread and prepares the place of the next.  After the last there
\* is none: what is prepared lies past the end of the table.
CreatesThread ==
    /\ server.pc = "create"
    /\ table' = Append(table, server.with)
    /\ client' = HearsText(table')
    /\ thread' = [thread EXCEPT ![server.with].pc = "recv"]
    /\ server' = [pc |-> "accept", with |-> Null, todo |-> <<>>]
    /\ damaged' = (damaged \/ Len(table') = MaxConnections)
    /\ UNCHANGED <<control, mutex, wire, sent, calm, process>>

\* pthread_create fails: the connection is counted, has no thread, and the
\* server ends.
CreateFails ==
    /\ server.pc = "create"
    /\ table' = Append(table, server.with)
    /\ client' = HearsText(table')
    /\ server' = [pc |-> "ended", with |-> Null, todo |-> <<>>]
    /\ UNCHANGED <<control, mutex, wire, thread, sent, calm, fate>>

Server == Accepts \/ RecvParams \/ CopyParams \/ Reply \/ CreatesThread

-----------------------------------------------------------------------------
(* connection_thread *)

\* recv takes whatever has arrived, up to MAX_MESG bytes.  Only the first
\* message is looked at; one cut by the limit leaves its rest for the next recv.
Receives(c) ==
    /\ thread[c].pc = "recv" /\ wire[c] # <<>>
    /\ \E n \in 1 .. Len(wire[c]) :
          /\ n <= RecvRoom
          /\ \/ wire' = [wire EXCEPT ![c] = SubSeq(@, n + 1, Len(@))]
             \/ /\ n = RecvRoom /\ n < Len(wire[c])
                /\ wire' = [wire EXCEPT ![c] = <<Stray>> \o SubSeq(@, n + 2, Len(@))]
    /\ \E m \in Messages : thread' = [thread EXCEPT ![c] =
          [pc |-> "lock", msg |-> IF wire[c][1].tag = StrayTag THEN m ELSE wire[c][1]]]
    /\ UNCHANGED <<control, mutex, server, table, client, sent, calm, fate>>

Disconnects(c) ==
    /\ thread[c].pc = "recv" /\ wire[c] = <<>> /\ client[c].at = "gone"
    /\ thread' = [thread EXCEPT ![c].pc = "ended"] /\ client' = HearsText(table)
    /\ UNCHANGED <<control, mutex, server, table, wire, sent, calm, fate>>

\* Mutant: the message is handled without the mutex.
TakesNoMutex(who) == mutex' = who /\ calm' = (calm /\ server.pc # "copy")

\* Taking params_mutex does not keep the server from its copy.
TakesMutex(who) ==
    /\ mutex = Null /\ mutex' = who
    /\ calm' = (calm /\ server.pc # "copy")

\* The mutex and the first half of a case.  A short message or an unknown tag
\* changes nothing here; nor do the flags that only the callbacks look at.
Stores(c) ==
    LET msg == thread[c].msg knob == Field(msg.tag) IN
    /\ thread[c].pc = "lock" /\ TakesMutex(c)
    /\ thread' = [thread EXCEPT ![c].pc = "finish"]
    /\ params' = CASE knob \in Knobs -> [params EXCEPT !.knob[knob] = Received(knob, msg.value)]
                   [] knob = "blob_yuv" -> [params EXCEPT !.min = msg.value]
                   [] knob = "freeze" -> [params EXCEPT !.target = msg.value]
                   [] OTHER -> params
    /\ told' = IF knob \in Knobs THEN told \cup {knob} ELSE told
    /\ UNCHANGED <<camera, worker, frozen, stale, overruled, server, table, client, wire, sent, fate>>

\* The second half of a case: the setter, which reads the parameter again, or
\* the other threshold.  FREEZE_EXPOSURE sets the exposure mode as well.
Tells(c) ==
    LET msg == thread[c].msg
        knob == IF msg.tag = "freeze" THEN "exposureMode" ELSE Field(msg.tag) IN
    /\ camera' = IF knob \notin Knobs THEN camera
                 ELSE [camera EXCEPT ![knob] = Shown(knob, params.knob[knob], @)]
    /\ overruled' = (overruled \/ knob = "exposureMode")
    /\ stale' = stale \ {knob}
    /\ params' = IF knob = "blob_yuv" THEN [params EXCEPT !.max = msg.value] ELSE params

Finishes(c) ==
    /\ thread[c].pc = "finish" /\ Tells(c)
    /\ mutex' = Null /\ thread' = [thread EXCEPT ![c] = [pc |-> "recv", msg |-> Null]]
    /\ UNCHANGED <<worker, frozen, told, server, table, client, wire, sent, calm, fate>>

Connection(c) == Receives(c) \/ Disconnects(c) \/ Stores(c) \/ Finishes(c)

-----------------------------------------------------------------------------
(* The callbacks *)

\* camera_control_callback; right says whether the gains are within the
\* tolerances of their targets.
CameraControlCallback ==
    /\ mutex = Null
    /\ \E right \in BOOLEAN :
       LET auto == params.target > 0 /\ params.knob.exposureMode # OFF
           freeze == auto /\ right /\ ~frozen
           unfreeze == frozen /\ ~(auto /\ right) IN
       /\ freeze \/ unfreeze
       /\ frozen' = freeze
       /\ camera' = [camera EXCEPT !.exposureMode =
                        IF freeze THEN OFF ELSE params.knob.exposureMode]
       /\ overruled' = (overruled /\ ~freeze)
       /\ stale' = IF freeze THEN stale ELSE stale \ {"exposureMode"}
    /\ client' = HearsText(table)
    /\ UNCHANGED <<params, worker, told, mutex, server, table, wire, thread, sent, calm, fate>>

\* splitter_buffer_callback holds the mutex while it searches an image with
\* the thresholds.
ImageArrives ==
    /\ TakesMutex("splitter")
    /\ UNCHANGED <<control, server, table, client, wire, thread, sent, fate>>

SplitterCallback ==
    /\ mutex = "splitter" /\ mutex' = Null
    /\ UNCHANGED <<control, server, table, client, wire, thread, sent, calm, fate>>

-----------------------------------------------------------------------------

\* What a write past the table may come to.
Crashes ==
    /\ damaged /\ process' = "ended"
    /\ UNCHANGED <<control, mutex, server, table, client, wire, thread, sent, calm, damaged>>

Next ==
    /\ process = "runs"
    /\ \/ Worker \/ Server \/ AcceptFails \/ CreateFails
       \/ CameraControlCallback \/ ImageArrives \/ SplitterCallback \/ Crashes
       \/ \E c \in Clients : Connects(c) \/ Sends(c) \/ Closes(c) \/ Connection(c)

\* The server thread runs while the process does, and never waits for a mutex
\* held for long.  Windows need not be opened, used or closed, the camera need
\* not report, and neither accept nor pthread_create must fail.
Spec == Init /\ [][Next]_vars /\ WF_vars(process = "runs" /\ Server)

-----------------------------------------------------------------------------
(* Properties *)

TypeOK ==
    /\ params \in [knob : [Knobs -> Int], min : Int \cup Clients, max : Int \cup Clients, target : Int]
    /\ camera \in [Knobs -> Int] /\ frozen \in BOOLEAN
    /\ worker.pc \in {"read", "set"} /\ worker.at \in 1 .. Len(Setters) + 1
    /\ worker.value \in Int /\ worker.good \in BOOLEAN
    /\ mutex \in Clients \cup {Null, "splitter"}
    /\ server.pc \in {"accept", "recv", "copy", "reply", "create", "ended"}
    /\ server.with \in Clients \cup {Null} /\ Len(server.todo) <= 4
    /\ (server.pc \in {"accept", "ended"}) = (server.with = Null)
    /\ Len(table) <= MaxConnections /\ \A i \in DOMAIN table : table[i] \in Clients
    /\ \A c \in Clients : thread[c].pc \in {"none", "recv", "lock", "finish", "ended"}
    /\ process \in {"runs", "ended"} /\ damaged \in BOOLEAN
    /\ server.pc = "accept" /\ Len(table) = MaxConnections => damaged
    /\ told \subseteq Knobs /\ stale \subseteq Knobs /\ overruled \in BOOLEAN /\ calm \in BOOLEAN

\* Between messages the camera shows what the parameters say, wherever a
\* message or the start had the last word, and a frozen camera has its exposure
\* mode off until either overrules it: the limits of the messages, the setters,
\* the freeze and the threads' turns all agree.  Except for a knob that a
\* message changed while the start was about to set it: the start takes no
\* mutex, and leaves the camera with the value the message replaced.
CameraInStep ==
    mutex = Null =>
       /\ frozen /\ ~overruled => camera.exposureMode = OFF
       /\ \A k \in told \ stale :
             \/ Shown(k, params.knob[k], camera[k]) = camera[k] /\ Accepted(k, params.knob[k])
             \/ k = "exposureMode" /\ frozen /\ ~overruled

\* Unless a copy of saved parameters, which takes no mutex, meets another
\* thread, an image is searched with the thresholds of one message.
ThresholdsOfOneMessage == calm /\ mutex = "splitter" => params.min = params.max

\* What a window hears first is the reply with the parameters: it takes the
\* first bytes for them.  A log message in between would be read as parameters.
ReplyFirst == \A c \in Clients : client[c].heard # "text"

\* A waiting window is served in the end, unless the table is full, or the
\* server waits for ever for the parameters of a window that has none and is
\* not closed (it waits for the server in turn), or the server has ended because
\* accept or pthread_create failed once, or the whole process has.
AdmittedOrBlocked ==
    \A c \in Clients :
       <>[](client[c].at = "waiting") =>
          <>[](\/ Len(table) = MaxConnections \/ server.pc = "ended" \/ process = "ended"
               \/ server.pc = "recv" /\ client[server.with].at # "gone")
=============================================================================
