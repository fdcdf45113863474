-------------------------- MODULE CameraControlProofs --------------------------
(***************************************************************************)
(* What CameraControl keeps for any number of windows, any table of        *)
(* connections and any messages they send.                                 *)
(*                                                                         *)
(* The invariant has four parts: the types, with the place of each thread  *)
(* that holds params_mutex (Types, MutexInv); what each window has heard   *)
(* (HeardInv); the thresholds (ThresholdInv); and the parameters and the   *)
(* camera, which may differ in the knob of the message being handled only  *)
(* (CameraInv).                                                            *)
(***************************************************************************)
EXTENDS CameraControl, SequenceTheorems, TLAPS

\* What the clients send, and what a cut message looks like.
OnWire == Messages \cup {Stray}

Todos == {<<"knob", "min", "max", "target">>, <<"min", "max", "target">>,
          <<"max", "target">>, <<"target">>}

Parameters ==
    [knob : [Knobs -> Int], min : Int \cup Clients, max : Int \cup Clients, target : Int]

Workers == [pc : {"read", "set"}, at : 1 .. Len(Setters) + 1, value : Int, good : BOOLEAN]

Servers == [pc : {"accept", "recv", "copy", "reply", "create", "ended"},
            with : Clients \cup {Null}, todo : Todos \cup {<<>>}]

Windows == [Clients -> [at : {"out", "waiting", "accepted", "lost", "gone"},
                        heard : {"nothing", "text", "params"}]]

Threads == [Clients -> [pc : {"none", "recv", "lock", "finish", "ended"},
                        msg : OnWire \cup {Null}]]

Types ==
    /\ params \in Parameters
    /\ camera \in [Knobs -> Int]
    /\ server \in Servers
    /\ server.pc = "copy" => server.todo # <<>>
    /\ table \in Seq(Clients)
    /\ client \in Windows
    /\ wire \in [Clients -> Seq(OnWire)]
    /\ thread \in Threads
    /\ worker \in Workers
    /\ worker.pc = "set" => worker.at \in 1 .. Len(Setters)
    /\ frozen \in BOOLEAN /\ told \subseteq Knobs /\ stale \subseteq Knobs
    /\ process \in {"runs", "ended"} /\ damaged \in BOOLEAN
    /\ overruled \in BOOLEAN /\ calm \in BOOLEAN

\* The server is with a window.
Serves == server.pc \notin {"accept", "ended"}

\* A connection's thread holds params_mutex between the halves of a case, and
\* has a message from before the first.
MutexInv ==
    /\ mutex \in Clients \cup {Null, "splitter"}
    /\ \A c \in Clients : mutex = c <=> thread[c].pc = "finish"
    /\ \A c \in Clients : thread[c].pc \in {"lock", "finish"} => thread[c].msg \in Messages
    /\ ~Serves <=> server.with = Null
    /\ Serves => thread[server.with].pc = "none"

Room ==
    /\ Serves => Len(table) < MaxConnections
    /\ server.pc = "accept" /\ Len(table) = MaxConnections => damaged

\* A window that is in the table, or about to be, has its reply.
HeardInv ==
    /\ ReplyFirst
    /\ \A i \in DOMAIN table : client[table[i]].heard = "params"
    /\ server.pc = "create" => client[server.with].heard = "params"
    /\ Len(table) <= MaxConnections /\ Room

CopiesMax == server.pc = "copy" /\ Head(server.todo) = "max"
Between(c) == mutex = c /\ thread[c].msg.tag = "blob_yuv"

\* The thresholds differ only between the halves of a case, and between the
\* copies of the two, which no calm thread meets.
ThresholdInv ==
    calm =>
       /\ CopiesMax => mutex = Null /\ params.min = server.with
       /\ \A c \in Clients : Between(c) => params.min = thread[c].msg.value
       /\ ~CopiesMax /\ (\A c \in Clients : ~Between(c)) => params.min = params.max

\* The knob that the second half of a case sets.
Sets(msg) == IF msg.tag = "freeze" THEN "exposureMode" ELSE Field(msg.tag)
Pending(k) == \E c \in Clients : mutex = c /\ Sets(thread[c].msg) = k

InStep(k) == Shown(k, params.knob[k], camera[k]) = camera[k]

CameraInv ==
    /\ frozen /\ ~overruled => camera["exposureMode"] = OFF
    /\ \A k \in told :
          /\ Accepted(k, params.knob[k])
          /\ Pending(k) \/ InStep(k) \/ k \in stale \/ (k = "exposureMode" /\ frozen /\ ~overruled)

IInv == Types /\ MutexInv /\ HeardInv /\ ThresholdInv /\ CameraInv

--------------------------------------------------------------------------------
(* Data *)

\* Neither a threshold nor a gain target is a knob of the camera.
LEMMA KnobNames ==
    /\ "blob_yuv" \notin Knobs /\ "freeze" \notin Knobs
    /\ "exposureMode" \in Knobs /\ "saturation" \in Knobs
    /\ Field("blob_yuv") = "blob_yuv" /\ Field("freeze") = "freeze"
    /\ \A tag : Field(tag) = "blob_yuv" <=> tag = "blob_yuv"
BY DEF Knobs, Limits, Unlimited, Field

\* A value that was limited is one that no setter rejects.
LEMMA LimitedIsAccepted ==
    ASSUME NEW k \in Knobs, NEW v \in Int
    PROVE  Received(k, v) \in Int /\ Accepted(k, Received(k, v))
<1>1. \A low, high \in Int : low <= high => int_limit(low, high, v) \in low .. high
  BY DEF int_limit
<1>2. CASE k \in Unlimited
  BY <1>2 DEF Received, Accepted, Unlimited
<1>3. CASE k \notin Unlimited
  <2>1. \A x \in DOMAIN Limits : Limits[x][1] \in Int /\ Limits[x][2] \in Int
                                 /\ Limits[x][1] <= Limits[x][2]
    BY DEF Limits
  <2>2. k \in DOMAIN Limits
    BY <1>3 DEF Knobs
  <2> DEFINE l == int_limit(Limits[k][1], Limits[k][2], v)
  <2>3. l \in Limits[k][1] .. Limits[k][2] /\ l \in Int
    BY <1>1, <2>1, <2>2
  <2> HIDE DEF l
  <2>4. Received(k, v) = IF k = "roi" THEN (l \div 100) * 100 ELSE l
    BY <1>3 DEF Received, l
  <2>5. (l \div 100) * 100 \in Int
    BY <2>3
  <2>6. CASE k \in {"saturation", "sharpness", "contrast"}
    <3>1. Limits[k][1] = -100 /\ Limits[k][2] = 100
      BY <2>6 DEF Limits
    <3> QED
      BY <2>3, <2>4, <2>6, <3>1 DEF Accepted
  <2>7. CASE k = "brightness"
    <3>1. Limits[k][1] = 0 /\ Limits[k][2] = 100
      BY <2>7 DEF Limits
    <3> QED
      BY <2>3, <2>4, <2>7, <3>1 DEF Accepted
  <2>8. CASE k \notin {"saturation", "sharpness", "contrast", "brightness"}
    BY <2>3, <2>4, <2>5, <2>8 DEF Accepted
  <2> QED
    BY <2>6, <2>7, <2>8
<1> QED
  BY <1>2, <1>3

\* Setting a knob twice is setting it once, if the setter accepts the value.
LEMMA ShownTwice ==
    ASSUME NEW k, NEW v, NEW current, Accepted(k, v)
    PROVE  Shown(k, v, Shown(k, v, current)) = Shown(k, v, current)
BY DEF Shown

\* What the camera shows is a number.
LEMMA ShownIsInt ==
    ASSUME NEW k, NEW v \in Int, NEW current \in Int
    PROVE  Shown(k, v, current) \in Int
<1>1. ((v % 360) \div 90) * 90 \in Int
  OBVIOUS
<1> QED
  BY <1>1 DEF Shown

\* The copy goes from group to group.
LEMMA TodoStep ==
    ASSUME NEW todo \in Todos
    PROVE  /\ Head(todo) \in {"knob", "min", "max", "target"}
           /\ Len(todo) = 1 <=> Head(todo) = "target"
           /\ Len(todo) = 1 => Tail(todo) = <<>>
           /\ Len(todo) # 1 => Tail(todo) \in Todos
           /\ Len(todo) # 1 => (Head(todo) = "min" <=> Head(Tail(todo)) = "max")
<1>1. CASE todo = <<"knob", "min", "max", "target">>
  BY <1>1 DEF Todos
<1>2. CASE todo = <<"min", "max", "target">>
  BY <1>2 DEF Todos
<1>3. CASE todo = <<"max", "target">>
  BY <1>3 DEF Todos
<1>4. CASE todo = <<"target">>
  BY <1>4 DEF Todos
<1> QED
  BY <1>1, <1>2, <1>3, <1>4 DEF Todos

--------------------------------------------------------------------------------
(* The initial states and the steps *)

\* The invariant holds at first.
LEMMA InitIInv == Init => IInv
<1> SUFFICES ASSUME Init PROVE IInv
  OBVIOUS
<1> USE ControlAssumption
<1>1. Types
  <2>1. Defaults \in [Knobs -> Int]
    <3>1. \A k \in {"exposureMeterMode", "roi"} : Limits[k][1] \in Int
      BY DEF Limits
    <3> DEFINE Default(k) == CASE k = "brightness" -> 50 [] k = "exposureMode" -> AUTO
                               [] k \in {"exposureMeterMode", "roi"} -> Limits[k][1]
                               [] OTHER -> 0
    <3>2. \A k \in Knobs : Default(k) \in Int
      BY <3>1 DEF AUTO
    <3>3. Defaults = [k \in Knobs |-> Default(k)]
      BY DEF Defaults
    <3> HIDE DEF Default
    <3> QED
      BY <3>2, <3>3
  <2>2. params \in Parameters
    BY <2>1 DEF Init, Parameters
  <2>3. camera \in [Knobs -> Int] /\ worker \in Workers /\ worker.pc # "set"
    <3>1. Len(Setters) \in Nat
      BY LenProperties
    <3>2. 1 \in 1 .. Len(Setters) + 1
      BY <3>1
    <3> QED
      BY <3>2 DEF Init, Workers
  <2>4. server \in Servers
    BY DEF Init, Servers
  <2>5. /\ client \in [Clients -> [at : {"out", "waiting", "accepted", "lost", "gone"},
                                   heard : {"nothing", "text", "params"}]]
        /\ wire \in [Clients -> Seq(OnWire)]
        /\ thread \in [Clients -> [pc : {"none", "recv", "lock", "finish", "ended"},
                                   msg : OnWire \cup {Null}]]
    BY DEF Init, Gone
  <2>6. table \in Seq(Clients) /\ server.pc # "copy"
    BY DEF Init
  <2> QED
    BY <2>2, <2>3, <2>4, <2>5, <2>6 DEF Init, Types, Windows, Threads
<1>2. MutexInv
  BY DEF Init, MutexInv, Serves, Gone
<1>3. HeardInv
  <2>1. table = <<>> /\ server.pc = "accept" /\ \A c \in Clients : client[c].heard = "nothing"
    BY DEF Init
  <2>2. Len(table) < MaxConnections
    BY <2>1
  <2> QED
    BY <2>1, <2>2 DEF HeardInv, ReplyFirst, Room, Serves
<1>4. ThresholdInv
  <2>1. ~CopiesMax /\ params.min = params.max
    BY DEF Init, CopiesMax
  <2>2. \A c \in Clients : ~Between(c)
    BY DEF Init, Between
  <2> QED
    BY <2>1, <2>2 DEF ThresholdInv
<1>5. CameraInv
  BY DEF Init, CameraInv
<1> QED
  BY <1>1, <1>2, <1>3, <1>4, <1>5 DEF IInv

\* The action of each thread and window.
LEMMA StepCases ==
    ASSUME [Next]_vars
    PROVE  \/ WorkerReads \/ WorkerSets \/ AcceptFails \/ CreateFails \/ Crashes
           \/ Accepts \/ RecvParams \/ CopyParams \/ Reply \/ CreatesThread
           \/ CameraControlCallback \/ ImageArrives \/ SplitterCallback
           \/ (\E c \in Clients : Connects(c) \/ Sends(c) \/ Closes(c))
           \/ (\E c \in Clients : Receives(c)) \/ (\E c \in Clients : Disconnects(c))
           \/ (\E c \in Clients : Stores(c)) \/ (\E c \in Clients : Finishes(c))
           \/ UNCHANGED vars
BY DEF Next, Worker, Server, Connection

\* A log message reaches only windows that have their reply.
LEMMA NothingNew ==
    ASSUME Types, NEW connection,
           \A i \in DOMAIN connection : client[connection[i]].heard = "params"
    PROVE  HearsText(connection) = client
<1>1. \A c \in Clients : HearsText(connection)[c] = client[c]
  BY DEF HearsText
<1>2. HearsText(connection) = [c \in Clients |-> HearsText(connection)[c]]
  BY DEF HearsText
<1>3. client = [c \in Clients |-> client[c]]
  BY DEF Types, Windows
<1> HIDE DEF HearsText
<1> QED
  BY <1>1, <1>2, <1>3

\* So what is logged changes nothing for the windows.
LEMMA LogIsLate ==
    ASSUME IInv
    PROVE  /\ HearsText(table) = client
           /\ CreatesThread \/ CreateFails => HearsText(table') = client
<1>1. HearsText(table) = client
  BY NothingNew DEF IInv, HeardInv
<1>2. ASSUME CreatesThread \/ CreateFails PROVE HearsText(table') = client
  <2>1. table' = Append(table, server.with) /\ server.pc = "create"
    BY <1>2 DEF CreatesThread, CreateFails
  <2>2. table \in Seq(Clients) /\ server.with \in Clients
    BY <2>1 DEF IInv, Types, Servers, MutexInv, Serves
  <2>3. \A i \in DOMAIN table' : table'[i] = server.with \/ (i \in DOMAIN table /\ table'[i] = table[i])
    BY <2>1, <2>2
  <2>4. \A i \in DOMAIN table' : client[table'[i]].heard = "params"
    BY <2>1, <2>3 DEF IInv, HeardInv
  <2> QED
    BY <2>4, NothingNew DEF IInv
<1> QED
  BY <1>1, <1>2

--------------------------------------------------------------------------------
(* Each part of the invariant is kept *)

\* What the windows hear.
LEMMA HeardKept == ASSUME IInv, [Next]_vars PROVE HeardInv'
<1> USE DEF IInv
<1>0. /\ table \in Seq(Clients) /\ MaxConnections \in Nat
      /\ client \in [Clients -> [at : {"out", "waiting", "accepted", "lost", "gone"},
                                 heard : {"nothing", "text", "params"}]]
      /\ \A i \in DOMAIN table : table[i] \in Clients
      /\ Serves => server.with \in Clients
  BY ControlAssumption, ElementOfSeq DEF Types, Windows, Servers, MutexInv, Serves
<1>1. ASSUME UNCHANGED <<table, server, damaged>>,
             \A c \in Clients : client'[c].heard = client[c].heard
      PROVE  HeardInv'
  <2>1. Serves => server.with \in Clients
    BY <1>0
  <2> QED
    BY <1>0, <1>1, <2>1 DEF HeardInv, ReplyFirst, Room, Serves
<1>2. CASE Accepts
  <2>1. table' = table /\ server.pc = "accept" /\ damaged' = damaged
        /\ \A c \in Clients : client'[c].heard = client[c].heard
    BY <1>0, <1>2 DEF Accepts, fate
  <2>2. CASE server' = server
    BY <1>1, <2>1, <2>2
  <2>3. CASE server' # server
    <3>1. server'.pc = "recv" /\ Len(table) < MaxConnections
      BY <1>0, <1>2, <2>3 DEF Accepts
    <3> QED
      BY <1>0, <2>1, <3>1 DEF HeardInv, ReplyFirst, Room, Serves
  <2> QED
    BY <2>2, <2>3
<1>3. CASE RecvParams \/ CopyParams
  <2>1. /\ UNCHANGED <<table, client>> /\ Serves
        /\ server'.pc \in {"copy", "reply"}
    <3>1. CASE RecvParams
      BY <3>1 DEF RecvParams, Types, Servers, Serves
    <3>2. CASE CopyParams
      BY <3>2 DEF CopyParams, Types, Servers, Serves
    <3> QED
      BY <1>3, <3>1, <3>2
  <2> QED
    BY <2>1 DEF HeardInv, ReplyFirst, Room, Serves
<1>4. CASE Reply
  <2>1. /\ table' = table /\ server.pc = "reply"
        /\ server'.pc = "create" /\ server'.with = server.with
    BY <1>4 DEF Reply, Types, Servers
  <2>2. client' = [client EXCEPT ![server.with].heard = IF @ = "nothing" THEN "params" ELSE @]
    BY <1>4 DEF Reply
  <2>3. /\ \A c \in Clients : c # server.with => client'[c] = client[c]
        /\ client'[server.with].heard = "params"
    BY <1>0, <2>1, <2>2 DEF HeardInv, ReplyFirst, Serves
  <2> QED
    BY <1>0, <2>1, <2>3 DEF HeardInv, ReplyFirst, Room, Serves
<1>5. CASE CreatesThread \/ CreateFails
  <2>1. /\ client' = client /\ table' = Append(table, server.with)
        /\ server.pc = "create" /\ server'.pc \in {"accept", "ended"}
    BY <1>5, LogIsLate DEF CreatesThread, CreateFails
  <2>5. server'.pc = "accept" /\ Len(table') = MaxConnections => damaged'
    <3>1. CASE CreatesThread
      <4>1. damaged' = (damaged \/ Len(table') = MaxConnections)
        BY <3>1 DEF CreatesThread
      <4> QED
        BY <4>1, Zenon
    <3>2. CASE CreateFails
      <4>1. server'.pc = "ended"
        BY <3>2 DEF CreateFails
      <4> QED
        BY <4>1
    <3> QED
      BY <1>5, <3>1, <3>2
  <2>2. \A i \in DOMAIN table' : table'[i] = server.with \/ (i \in DOMAIN table /\ table'[i] = table[i])
    BY <1>0, <2>1
  <2>3. \A i \in DOMAIN table' : client'[table'[i]].heard = "params"
    BY <2>1, <2>2 DEF HeardInv
  <2>4. Len(table') <= MaxConnections
    BY <1>0, <2>1 DEF HeardInv, Room, Serves
  <2> QED
    BY <2>1, <2>3, <2>4, <2>5 DEF HeardInv, ReplyFirst, Room, Serves
<1>6. ASSUME NEW c \in Clients, Connects(c) \/ Sends(c) \/ Closes(c) PROVE HeardInv'
  <2>1. UNCHANGED <<table, server, damaged>>
        /\ \A d \in Clients : client'[d].heard = client[d].heard
    BY <1>0, <1>6 DEF Connects, Sends, Closes, fate
  <2> QED
    BY <1>1, <2>1
<1>7. ASSUME NEW c \in Clients, Disconnects(c) PROVE HeardInv'
  BY <1>1, <1>7, LogIsLate DEF Disconnects, fate
<1>8. CASE CameraControlCallback
  BY <1>1, <1>8, LogIsLate DEF CameraControlCallback, fate
<1>9. CASE UNCHANGED <<table, server, client, damaged>>
  BY <1>1, <1>9
<1>11. CASE AcceptFails
  <2>1. UNCHANGED <<table, client>> /\ server'.pc = "ended"
    BY <1>11, LogIsLate DEF AcceptFails, Types, Servers
  <2> QED
    BY <1>0, <2>1 DEF HeardInv, ReplyFirst, Room, Serves
<1>10. \/ Accepts \/ RecvParams \/ CopyParams \/ Reply \/ (CreatesThread \/ CreateFails)
       \/ AcceptFails
       \/ (\E c \in Clients : Connects(c) \/ Sends(c) \/ Closes(c))
       \/ (\E c \in Clients : Disconnects(c)) \/ CameraControlCallback
       \/ UNCHANGED <<table, server, client, damaged>>
  BY StepCases
  DEF WorkerReads, WorkerSets, Crashes, Receives, Stores, Finishes, ImageArrives,
      SplitterCallback, vars, others, fate
<1> QED
  BY <1>2, <1>3, <1>4, <1>5, <1>6, <1>7, <1>8, <1>9, <1>10, <1>11

\* The types.
LEMMA TypesKept == ASSUME IInv, [Next]_vars PROVE Types'
<1> USE DEF IInv
<1>0. /\ params \in Parameters /\ camera \in [Knobs -> Int]
      /\ params.knob \in [Knobs -> Int] /\ "exposureMode" \in Knobs
  BY KnobNames DEF Types, Parameters
<1>1. CASE WorkerReads
  <2>1. /\ worker.pc = "read" /\ worker.at \in DOMAIN Setters
        /\ worker' = [worker EXCEPT !.pc = "set", !.value = params.knob[Setters[worker.at]]]
        /\ UNCHANGED <<others, camera, told, stale, overruled, fate>>
    BY <1>1 DEF WorkerReads
  <2>2. DOMAIN Setters = 1 .. Len(Setters) /\ Setters[worker.at] \in Knobs
    BY <2>1, ControlAssumption, ElementOfSeq, LenProperties
  <2>3. params.knob[Setters[worker.at]] \in Int
    BY <1>0, <2>2
  <2>4. worker' \in Workers /\ worker'.at \in 1 .. Len(Setters)
    BY <2>1, <2>2, <2>3 DEF Types, Workers
  <2> QED
    BY <2>1, <2>4 DEF Types, others, fate
<1>16. CASE WorkerSets
  <2> DEFINE k == Setters[worker.at]
             value == worker.value
             good == worker.good /\ Accepted(k, value)
  <2>1. /\ worker.pc = "set"
        /\ camera' = [camera EXCEPT ![k] = Shown(k, value, @)]
        /\ worker' = [pc |-> "read", at |-> worker.at + 1, value |-> 0, good |-> good]
        /\ told' \in {told, told \cup {k}} /\ stale' \in {stale \ {k}, stale \cup {k}}
        /\ process' \in {"ended", process}
        /\ UNCHANGED <<others, damaged>>
    BY <1>16 DEF WorkerSets
  <2>2. overruled' = (overruled \/ k = "exposureMode")
    BY <1>16 DEF WorkerSets
  <2>3. worker.at \in 1 .. Len(Setters) /\ value \in Int
    BY <2>1 DEF Types, Workers
  <2>4. k \in Knobs /\ Len(Setters) \in Nat
    BY <2>3, ControlAssumption, ElementOfSeq, LenProperties
  <2>5. good \in BOOLEAN
    BY Zenon
  <2>6. worker' \in Workers /\ worker'.pc = "read"
    <3> HIDE DEF good
    <3>1. worker.at + 1 \in 1 .. Len(Setters) + 1
      BY <2>3, <2>4
    <3> QED
      BY <2>1, <2>5, <3>1 DEF Workers
  <2> HIDE DEF k, value, good
  <2>7. camera' \in [Knobs -> Int]
    BY <1>0, <2>1, <2>3, <2>4, ShownIsInt
  <2>8. told' \subseteq Knobs /\ stale' \subseteq Knobs
    BY <2>1, <2>4 DEF Types
  <2>9. overruled' \in BOOLEAN
    BY <2>2 DEF Types
  <2>10. process' \in {"runs", "ended"}
    BY <2>1 DEF Types
  <2> QED
    BY <2>1, <2>6, <2>7, <2>8, <2>9, <2>10 DEF Types, others
<1>2. CASE Accepts
  <2>1. UNCHANGED <<control, mutex, table, wire, thread, sent, calm, fate>>
    BY <1>2 DEF Accepts
  <2>2. client' \in Windows
    <3>1. PICK c \in Clients, at \in {"lost", "gone", "accepted"} :
             client' = [client EXCEPT ![c].at = at]
      BY <1>2 DEF Accepts
    <3> QED
      BY <3>1 DEF Types, Windows
  <2>3. /\ server' \in Servers
        /\ server'.pc = "copy" => server'.todo # <<>>
    BY <1>2 DEF Accepts, Types, Servers
  <2> QED
    BY <2>1, <2>2, <2>3 DEF Types, control, fate
<1>3. CASE RecvParams
  <2>1. UNCHANGED <<control, mutex, table, client, thread, calm, fate>>
    BY <1>3 DEF RecvParams
  <2>2. Groups \in Todos /\ Groups # <<>>
    BY DEF Todos, Groups
  <2>3. PICK pc \in {"copy", "reply"}, todo \in Todos \cup {<<>>} :
           /\ server' = [pc |-> pc, with |-> server.with, todo |-> todo]
           /\ pc = "copy" => todo # <<>>
    <3>1. \/ server' = [pc |-> "copy", with |-> server.with, todo |-> Groups]
          \/ server' = [pc |-> "reply", with |-> server.with, todo |-> server.todo]
      BY <1>3 DEF RecvParams, Types, Servers
    <3> QED
      BY <2>2, <3>1 DEF Types, Servers
  <2>4. server' \in Servers /\ (server'.pc = "copy" => server'.todo # <<>>)
    BY <2>3 DEF Types, Servers
  <2>5. wire' \in [Clients -> Seq(OnWire)]
    <3>1. CASE wire' = wire
      BY <3>1 DEF Types
    <3>2. CASE wire' # wire
      <4>1. PICK n \in 1 .. MaxSent - sent :
               wire' = [wire EXCEPT ![server.with] = @ \o [i \in 1 .. n |-> Stray]]
        BY <1>3, <3>2 DEF RecvParams
      <4>2. n \in Nat /\ Stray \in OnWire
        <5>1. n \in Int /\ n >= 1
          OBVIOUS
        <5> QED
          BY <5>1 DEF OnWire
      <4>3. [i \in 1 .. n |-> Stray] \in Seq(OnWire)
        BY <4>2
      <4>4. server.with \in Clients
        BY <1>3 DEF RecvParams, MutexInv, Types, Servers, Serves
      <4>5. wire[server.with] \o [i \in 1 .. n |-> Stray] \in Seq(OnWire)
        BY <4>3, <4>4, ConcatProperties DEF Types
      <4> QED
        BY <4>1, <4>5 DEF Types
    <3> QED
      BY <3>1, <3>2
  <2> QED
    BY <2>1, <2>4, <2>5 DEF Types, control, fate
<1>4. CASE CopyParams
  <2> DEFINE group == Head(server.todo)
  <2>1. server.pc = "copy" /\ server.todo \in Todos /\ server.with \in Clients
    BY <1>4 DEF CopyParams, Types, Servers, MutexInv, Serves
  <2>2. group \in {"knob", "min", "max", "target"}
    BY <2>1, TodoStep
  <2> HIDE DEF group
  <2>3. PICK value \in CASE group = "knob" -> Restored
                         [] group = "target" -> SavedTargets
                         [] OTHER -> {server.with} :
           params' = [params EXCEPT ![group] = value]
    BY <1>4 DEF CopyParams, group
  <2>4. params' \in Parameters
    <3>1. CASE group = "knob"
      BY <1>0, <2>3, <3>1, ControlAssumption DEF Parameters
    <3>2. CASE group = "target"
      BY <1>0, <2>3, <3>2, ControlAssumption DEF Parameters
    <3>3. CASE group \in {"min", "max"}
      BY <1>0, <2>1, <2>3, <3>3 DEF Parameters
    <3> QED
      BY <2>2, <3>1, <3>2, <3>3
  <2>5. /\ server' = [server EXCEPT !.todo = Tail(@), !.pc = IF Len(server.todo) = 1 THEN "reply" ELSE @]
        /\ told' \in {{}, told} /\ calm' = (calm /\ mutex = Null)
        /\ UNCHANGED <<camera, worker, frozen, stale, overruled, mutex, table, client, wire,
                       thread, sent, fate>>
    BY <1>4 DEF CopyParams
  <2>6. \/ Len(server.todo) = 1 /\ Tail(server.todo) = <<>>
        \/ Len(server.todo) # 1 /\ Tail(server.todo) \in Todos
    BY <2>1, TodoStep
  <2>7. <<>> \notin Todos
    BY DEF Todos
  <2>8. /\ server' \in Servers
        /\ server'.pc = "copy" => server'.todo # <<>>
    BY <2>5, <2>6, <2>7 DEF Types, Servers
  <2>9. calm' \in BOOLEAN
    BY <2>5 DEF Types
  <2> QED
    BY <2>4, <2>5, <2>8, <2>9 DEF Types, fate
<1>5. CASE Reply
  <2>1. UNCHANGED <<control, mutex, table, wire, thread, sent, calm, fate>>
    BY <1>5 DEF Reply
  <2>2. client' \in Windows
    <3>1. server.with \in Clients
      BY <1>5 DEF Reply, MutexInv, Types, Servers, Serves
    <3>2. PICK heard \in {"nothing", "text", "params"} :
             client' = [client EXCEPT ![server.with].heard = heard]
      BY <1>5, <3>1 DEF Reply, Types, Windows
    <3> QED
      BY <3>2 DEF Types, Windows
  <2>3. /\ server' \in Servers
        /\ server'.pc = "copy" => server'.todo # <<>>
    BY <1>5 DEF Reply, Types, Servers
  <2> QED
    BY <2>1, <2>2, <2>3 DEF Types, control, fate
<1>6. CASE CreatesThread \/ CreateFails
  <2>1. /\ client' = client /\ table' = Append(table, server.with)
        /\ thread' \in {thread, [thread EXCEPT ![server.with].pc = "recv"]}
        /\ UNCHANGED <<control, mutex, wire, sent, calm, process>>
    BY <1>6, LogIsLate DEF CreatesThread, CreateFails, fate
  <2>2. server.with \in Clients
    BY <1>6 DEF CreatesThread, CreateFails, MutexInv, Types, Servers, Serves
  <2>3. table' \in Seq(Clients)
    BY <2>1, <2>2 DEF Types
  <2>4. thread' \in Threads
    <3>1. CASE thread' = thread
      BY <3>1 DEF Types
    <3>2. CASE thread' = [thread EXCEPT ![server.with].pc = "recv"]
      BY <3>2 DEF Types, Threads
    <3> QED
      BY <2>1, <3>1, <3>2
  <2>5. server' \in Servers /\ server'.pc # "copy"
    BY <1>6 DEF CreatesThread, CreateFails, Servers
  <2>6. damaged' \in BOOLEAN
    BY <1>6 DEF CreatesThread, CreateFails, fate, Types
  <2> QED
    BY <2>1, <2>3, <2>4, <2>5, <2>6 DEF Types, control
<1>17. CASE AcceptFails
  <2>1. /\ client' = client /\ damaged' \in BOOLEAN
        /\ UNCHANGED <<control, mutex, table, wire, thread, sent, calm, process>>
    BY <1>17, LogIsLate DEF AcceptFails, Types
  <2>2. server' \in Servers /\ server'.pc # "copy"
    BY <1>17 DEF AcceptFails, Types, Servers
  <2> QED
    BY <2>1, <2>2 DEF Types, control
<1>18. CASE Crashes
  <2>1. /\ UNCHANGED <<control, mutex, server, table, client, wire, thread, sent, calm, damaged>>
        /\ process' = "ended"
    BY <1>18 DEF Crashes
  <2> QED
    BY <2>1 DEF Types, control
<1>7. ASSUME NEW c \in Clients, Connects(c) \/ Closes(c) PROVE Types'
  <2>1. UNCHANGED <<control, mutex, server, table, wire, thread, sent, calm, fate>>
    BY <1>7 DEF Connects, Closes
  <2>2. client' \in Windows
    <3>1. PICK at \in {"waiting", "gone"} : client' = [client EXCEPT ![c].at = at]
      BY <1>7 DEF Connects, Closes
    <3> QED
      BY <3>1 DEF Types, Windows
  <2> QED
    BY <2>1, <2>2 DEF Types, control, fate
<1>8. ASSUME NEW c \in Clients, Sends(c) PROVE Types'
  <2>1. UNCHANGED <<control, mutex, server, table, client, thread, calm, fate>>
    BY <1>8 DEF Sends
  <2>2. PICK m \in Messages : wire' = [wire EXCEPT ![c] = Append(@, m)]
    BY <1>8 DEF Sends
  <2>3. wire' \in [Clients -> Seq(OnWire)]
    <3>1. m \in OnWire /\ wire[c] \in Seq(OnWire)
      BY DEF Types, OnWire
    <3>2. Append(wire[c], m) \in Seq(OnWire)
      BY <3>1
    <3> QED
      BY <2>2, <3>2 DEF Types
  <2> QED
    BY <2>1, <2>3 DEF Types, control, fate
<1>9. ASSUME NEW c \in Clients, Receives(c) PROVE Types'
  <2>1. UNCHANGED <<control, mutex, server, table, client, sent, calm, fate>> /\ wire[c] # <<>>
    BY <1>9 DEF Receives
  <2>2. wire[c] \in Seq(OnWire) /\ wire[c][1] \in OnWire
    BY <2>1, ElementOfSeq DEF Types
  <2>3. Stray \in OnWire
    BY DEF OnWire
  <2>4. wire' \in [Clients -> Seq(OnWire)]
    <3>1. PICK n \in 1 .. Len(wire[c]) :
             \/ wire' = [wire EXCEPT ![c] = SubSeq(@, n + 1, Len(@))]
             \/ wire' = [wire EXCEPT ![c] = <<Stray>> \o SubSeq(@, n + 2, Len(@))]
      BY <1>9 DEF Receives
    <3>2. SubSeq(wire[c], n + 1, Len(wire[c])) \in Seq(OnWire)
      BY <2>2, SubSeqProperties
    <3>3. SubSeq(wire[c], n + 2, Len(wire[c])) \in Seq(OnWire)
      BY <2>2, SubSeqProperties
    <3>4. <<Stray>> \in Seq(OnWire)
      BY <2>3
    <3>5. <<Stray>> \o SubSeq(wire[c], n + 2, Len(wire[c])) \in Seq(OnWire)
      BY <3>3, <3>4, ConcatProperties
    <3> QED
      BY <3>1, <3>2, <3>5 DEF Types
  <2>5. thread' \in Threads
    <3>1. PICK msg \in OnWire : thread' = [thread EXCEPT ![c] = [pc |-> "lock", msg |-> msg]]
      BY <1>9, <2>2 DEF Receives, OnWire
    <3> QED
      BY <3>1 DEF Types, Threads
  <2> QED
    BY <2>1, <2>4, <2>5 DEF Types, control, fate
<1>10. ASSUME NEW c \in Clients, Disconnects(c) PROVE Types'
  <2>1. /\ client' = client /\ thread' = [thread EXCEPT ![c].pc = "ended"]
        /\ UNCHANGED <<control, mutex, server, table, wire, sent, calm, fate>>
    BY <1>10, LogIsLate DEF Disconnects
  <2> QED
    BY <2>1 DEF Types, Threads, control, fate
<1>11. ASSUME NEW c \in Clients, Stores(c) PROVE Types'
  <2> DEFINE msg == thread[c].msg
             knob == Field(msg.tag)
  <2>1. /\ thread' = [thread EXCEPT ![c].pc = "finish"]
        /\ told' = IF knob \in Knobs THEN told \cup {knob} ELSE told
        /\ calm' = (calm /\ server.pc # "copy")
        /\ UNCHANGED <<camera, worker, frozen, stale, overruled, server, table, client, wire,
                       sent, fate>>
    BY <1>11 DEF Stores, TakesMutex
  <2>2. msg.value \in Int
    BY <1>11, ControlAssumption DEF Stores, MutexInv
  <2>3. params' = CASE knob \in Knobs -> [params EXCEPT !.knob[knob] = Received(knob, msg.value)]
                    [] knob = "blob_yuv" -> [params EXCEPT !.min = msg.value]
                    [] knob = "freeze" -> [params EXCEPT !.target = msg.value]
                    [] OTHER -> params
    BY <1>11 DEF Stores
  <2> HIDE DEF msg, knob
  <2>4. params' \in Parameters
    <3>1. CASE knob \in Knobs
      <4>1. Received(knob, msg.value) \in Int
        BY <2>2, <3>1, LimitedIsAccepted
      <4>2. params' = [params EXCEPT !.knob[knob] = Received(knob, msg.value)]
        BY <2>3, <3>1, KnobNames
      <4> QED
        BY <1>0, <4>1, <4>2 DEF Parameters
    <3>2. CASE knob = "blob_yuv"
      BY <1>0, <2>2, <2>3, <3>2, KnobNames DEF Parameters
    <3>3. CASE knob = "freeze"
      BY <1>0, <2>2, <2>3, <3>3, KnobNames DEF Parameters
    <3>4. CASE knob \notin Knobs \cup {"blob_yuv", "freeze"}
      BY <1>0, <2>3, <3>4
    <3> QED
      BY <3>1, <3>2, <3>3, <3>4
  <2>5. told' \subseteq Knobs /\ calm' \in BOOLEAN
    BY <2>1 DEF Types
  <2> QED
    BY <2>1, <2>4, <2>5 DEF Types, Threads, fate
<1>12. ASSUME NEW c \in Clients, Finishes(c) PROVE Types'
  <2> DEFINE msg == thread[c].msg
             knob == Sets(msg)
  <2>1. /\ thread' = [thread EXCEPT ![c] = [pc |-> "recv", msg |-> Null]]
        /\ UNCHANGED <<worker, frozen, told, server, table, client, wire, sent, calm, fate>>
        /\ overruled' = (overruled \/ knob = "exposureMode")
        /\ stale' = stale \ {knob}
    BY <1>12 DEF Finishes, Tells, Sets
  <2>2. msg.value \in Int
    BY <1>12, ControlAssumption DEF Finishes, MutexInv
  <2>3. /\ camera' = IF knob \notin Knobs THEN camera
                     ELSE [camera EXCEPT ![knob] = Shown(knob, params.knob[knob], @)]
        /\ params' = IF knob = "blob_yuv" THEN [params EXCEPT !.max = msg.value] ELSE params
    BY <1>12 DEF Finishes, Tells, Sets
  <2> HIDE DEF msg, knob
  <2>4. params' \in Parameters
    BY <1>0, <2>2, <2>3 DEF Parameters
  <2>5. camera' \in [Knobs -> Int]
    BY <1>0, <2>3, ShownIsInt
  <2>6. overruled' \in BOOLEAN
    BY <2>1 DEF Types
  <2> QED
    BY <2>1, <2>4, <2>5, <2>6 DEF Types, Threads, fate
<1>13. CASE CameraControlCallback
  <2>1. client' = client
        /\ stale' \subseteq stale
        /\ UNCHANGED <<params, worker, told, mutex, server, table, wire, thread, sent, calm, fate>>
    BY <1>13, LogIsLate DEF CameraControlCallback
  <2>2. PICK freeze \in BOOLEAN :
           /\ frozen' = freeze /\ overruled' = (overruled /\ ~freeze)
           /\ camera' = [camera EXCEPT !.exposureMode =
                            IF freeze THEN OFF ELSE params.knob.exposureMode]
    <3>1. PICK right \in BOOLEAN :
             LET auto == params.target > 0 /\ params.knob.exposureMode # OFF
                 freeze == auto /\ right /\ ~frozen IN
             /\ frozen' = freeze /\ overruled' = (overruled /\ ~freeze)
             /\ camera' = [camera EXCEPT !.exposureMode =
                              IF freeze THEN OFF ELSE params.knob.exposureMode]
      BY <1>13, Zenon DEF CameraControlCallback
    <3> DEFINE freeze == (params.target > 0 /\ params.knob.exposureMode # OFF) /\ right /\ ~frozen
    <3>2. freeze \in BOOLEAN
      BY Zenon
    <3> HIDE DEF freeze
    <3>3. /\ frozen' = freeze /\ overruled' = (overruled /\ ~freeze)
          /\ camera' = [camera EXCEPT !.exposureMode =
                            IF freeze THEN OFF ELSE params.knob.exposureMode]
      BY <3>1 DEF freeze
    <3> QED
      BY <3>2, <3>3
  <2>3. camera' \in [Knobs -> Int]
    BY <1>0, <2>2 DEF OFF
  <2>4. frozen' \in BOOLEAN /\ overruled' \in BOOLEAN
    BY <2>2 DEF Types
  <2> QED
    BY <2>1, <2>3, <2>4 DEF Types, fate
<1>14. CASE ImageArrives \/ SplitterCallback
  <2>1. UNCHANGED <<control, server, table, client, wire, thread, sent, fate>>
        /\ calm' \in BOOLEAN
    <3>1. CASE ImageArrives
      BY <3>1 DEF ImageArrives, TakesMutex, Types
    <3>2. CASE SplitterCallback
      BY <3>2 DEF SplitterCallback, Types
    <3> QED
      BY <1>14, <3>1, <3>2
  <2> QED
    BY <2>1 DEF Types, control, fate
<1>15. CASE UNCHANGED vars
  BY <1>15 DEF vars, Types
<1> QED
  BY StepCases, <1>1, <1>2, <1>3, <1>4, <1>5, <1>6, <1>7, <1>8, <1>9, <1>10, <1>11, <1>12,
     <1>13, <1>14, <1>15, <1>16, <1>17, <1>18

\* Who holds params_mutex.
LEMMA MutexKept == ASSUME IInv, [Next]_vars PROVE MutexInv'
<1> USE DEF IInv
<1>0. /\ Null \notin Clients /\ "splitter" \notin Clients /\ Null # "splitter"
      /\ thread \in Threads /\ server \in Servers
  BY ControlAssumption DEF Types
<1>1. CASE Accepts
  <2>1. UNCHANGED <<mutex, thread>> /\ server.pc = "accept"
    BY <1>1 DEF Accepts
  <2>2. PICK c \in Clients :
           /\ thread[c].pc = "none"
           /\ server' = server \/ server' = [pc |-> "recv", with |-> c, todo |-> <<>>]
    BY <1>1 DEF Accepts
  <2> QED
    BY <1>0, <2>1, <2>2 DEF MutexInv, Serves
<1>2. CASE RecvParams \/ CopyParams \/ Reply
  <2>1. /\ UNCHANGED <<mutex, thread>> /\ server'.with = server.with
        /\ Serves /\ server'.pc \notin {"accept", "ended"}
    <3>1. CASE RecvParams
      BY <1>0, <3>1 DEF RecvParams, Servers, Serves
    <3>2. CASE CopyParams
      BY <1>0, <3>2 DEF CopyParams, Servers, Serves
    <3>3. CASE Reply
      BY <1>0, <3>3 DEF Reply, Servers, Serves
    <3> QED
      BY <1>2, <3>1, <3>2, <3>3
  <2> QED
    BY <1>0, <2>1 DEF MutexInv, Serves
<1>3. CASE CreatesThread
  <2>1. /\ mutex' = mutex /\ thread' = [thread EXCEPT ![server.with].pc = "recv"]
        /\ server' = [pc |-> "accept", with |-> Null, todo |-> <<>>] /\ server.pc = "create"
    BY <1>3 DEF CreatesThread
  <2>2. thread[server.with].pc = "none" /\ server.with \in Clients
    BY <1>0, <2>1 DEF MutexInv, Servers, Serves
  <2> QED
    BY <1>0, <2>1, <2>2 DEF MutexInv, Threads, Serves
<1>4. ASSUME NEW c \in Clients, Receives(c) PROVE MutexInv'
  <2>1. UNCHANGED <<mutex, server>> /\ thread[c].pc = "recv" /\ wire[c] # <<>>
    BY <1>4 DEF Receives
  <2>2. wire[c][1] \in OnWire
    BY <2>1, ElementOfSeq DEF Types
  <2>3. PICK msg \in Messages : thread' = [thread EXCEPT ![c] = [pc |-> "lock", msg |-> msg]]
    <3>1. wire[c][1] \in Messages \/ wire[c][1].tag = StrayTag
      BY <2>2 DEF OnWire, Stray
    <3> QED
      BY <1>4, <3>1 DEF Receives
  <2> QED
    BY <1>0, <2>1, <2>3 DEF MutexInv, Threads, Serves
<1>5. ASSUME NEW c \in Clients, Disconnects(c) PROVE MutexInv'
  BY <1>0, <1>5 DEF Disconnects, MutexInv, Threads, Serves
<1>6. ASSUME NEW c \in Clients, Stores(c) PROVE MutexInv'
  BY <1>0, <1>6 DEF Stores, TakesMutex, MutexInv, Threads, Serves
<1>7. ASSUME NEW c \in Clients, Finishes(c) PROVE MutexInv'
  BY <1>0, <1>7 DEF Finishes, MutexInv, Threads, Serves
<1>8. CASE ImageArrives \/ SplitterCallback
  BY <1>0, <1>8 DEF ImageArrives, TakesMutex, SplitterCallback, MutexInv, Serves
<1>9. CASE UNCHANGED <<mutex, thread, server>>
  BY <1>9 DEF MutexInv, Serves
<1>11. CASE AcceptFails
  BY <1>0, <1>11 DEF AcceptFails, MutexInv, Serves, Servers
<1>12. CASE CreateFails
  BY <1>0, <1>12 DEF CreateFails, MutexInv, Serves
<1>10. \/ AcceptFails \/ CreateFails \/ Accepts \/ RecvParams \/ CopyParams \/ Reply \/ CreatesThread
       \/ ImageArrives \/ SplitterCallback
       \/ (\E c \in Clients : Receives(c)) \/ (\E c \in Clients : Disconnects(c))
       \/ (\E c \in Clients : Stores(c)) \/ (\E c \in Clients : Finishes(c))
       \/ UNCHANGED <<mutex, thread, server>>
  BY StepCases DEF WorkerReads, WorkerSets, Crashes, CameraControlCallback, Connects, Sends,
                   Closes, vars, others
<1> QED
  BY <1>1, <1>2, <1>3, <1>4, <1>5, <1>6, <1>7, <1>8, <1>9, <1>10, <1>11, <1>12

\* The steps that neither take nor release params_mutex, nor copy, nor report.
Quiet ==
    \/ Accepts \/ RecvParams \/ Reply \/ CreatesThread
    \/ AcceptFails \/ CreateFails \/ Crashes
    \/ (\E c \in Clients : Connects(c) \/ Sends(c) \/ Closes(c))
    \/ (\E c \in Clients : Receives(c)) \/ (\E c \in Clients : Disconnects(c))
    \/ UNCHANGED vars

\* They leave what is controlled, and the thread that holds the mutex, alone.
LEMMA QuietKeeps ==
    ASSUME IInv, Quiet
    PROVE  /\ UNCHANGED <<control, mutex, calm>>
           /\ \A c \in Clients : mutex = c => thread'[c] = thread[c]
<1> USE DEF IInv
<1>0. thread \in Threads /\ server \in Servers
  BY DEF Types
<1>1. CASE CreatesThread
  <2>1. /\ UNCHANGED <<control, mutex, calm>> /\ server.pc = "create"
        /\ thread' = [thread EXCEPT ![server.with].pc = "recv"]
    BY <1>1 DEF CreatesThread
  <2>2. thread[server.with].pc = "none" /\ server.with \in Clients
    BY <1>0, <2>1 DEF MutexInv, Servers, Serves
  <2> QED
    BY <1>0, <2>1, <2>2 DEF MutexInv, Threads
<1>2. ASSUME NEW c \in Clients, Receives(c)
      PROVE  /\ UNCHANGED <<control, mutex, calm>>
             /\ \A d \in Clients : mutex = d => thread'[d] = thread[d]
  <2>1. /\ UNCHANGED <<control, mutex, calm>> /\ thread[c].pc = "recv"
        /\ \E m : thread' = [thread EXCEPT ![c] = m]
    BY <1>2 DEF Receives
  <2> QED
    BY <1>0, <2>1 DEF MutexInv, Threads
<1>3. ASSUME NEW c \in Clients, Disconnects(c)
      PROVE  /\ UNCHANGED <<control, mutex, calm>>
             /\ \A d \in Clients : mutex = d => thread'[d] = thread[d]
  BY <1>0, <1>3 DEF Disconnects, MutexInv, Threads
<1>4. CASE UNCHANGED <<control, mutex, calm, thread>>
  BY <1>4
<1>5. \/ CreatesThread
      \/ (\E c \in Clients : Receives(c)) \/ (\E c \in Clients : Disconnects(c))
      \/ UNCHANGED <<control, mutex, calm, thread>>
  BY DEF Quiet, Accepts, AcceptFails, CreateFails, Crashes, RecvParams, Reply, Connects,
         Sends, Closes, vars, control
<1> QED
  BY <1>1, <1>2, <1>3, <1>4, <1>5

\* What a step can be for the parameters.
LEMMA ParameterCases ==
    ASSUME [Next]_vars
    PROVE  \/ Quiet \/ WorkerReads \/ WorkerSets \/ CopyParams \/ CameraControlCallback
           \/ ImageArrives \/ SplitterCallback
           \/ (\E c \in Clients : Stores(c)) \/ (\E c \in Clients : Finishes(c))
BY StepCases DEF Quiet
\* The thresholds.
LEMMA ThresholdKept == ASSUME IInv, [Next]_vars PROVE ThresholdInv'
<1> USE DEF IInv
<1>0. /\ Null \notin Clients /\ "splitter" \notin Clients /\ Null # "splitter"
      /\ thread \in Threads /\ server \in Servers /\ params \in Parameters
      /\ server.pc = "copy" => server.todo \in Todos
  BY ControlAssumption DEF Types, Servers
<1>1. CASE Quiet
  <2>1. /\ UNCHANGED <<params, mutex, calm>>
        /\ \A c \in Clients : mutex = c => thread'[c] = thread[c]
    BY <1>1, QuietKeeps DEF control
  <2>2. CopiesMax' <=> CopiesMax
    <3>1. CASE server' = server
      BY <3>1 DEF CopiesMax
    <3>2. CASE server' # server
      <4>1. server.pc # "copy"
        BY <1>1, <3>2
        DEF Quiet, Accepts, AcceptFails, CreateFails, Crashes, RecvParams, Reply,
            CreatesThread, Connects, Sends, Closes, Receives, Disconnects, vars
      <4>2. ~CopiesMax'
        <5>1. CASE RecvParams
          <6>1. server'.pc = "copy" => server'.todo = <<"knob", "min", "max", "target">>
            BY <1>0, <4>1, <5>1 DEF RecvParams, Servers, Groups
          <6> QED
            BY <6>1 DEF CopiesMax
        <5>2. CASE ~RecvParams
          <6>1. Accepts \/ Reply \/ CreatesThread \/ AcceptFails \/ CreateFails
            BY <1>1, <3>2, <5>2
            DEF Quiet, Crashes, Connects, Sends, Closes, Receives, Disconnects, vars
          <6>2. CASE Accepts
            BY <3>2, <6>2 DEF Accepts, CopiesMax
          <6>3. CASE Reply
            BY <1>0, <6>3 DEF Reply, CopiesMax, Servers
          <6>4. CASE CreatesThread \/ CreateFails
            BY <6>4 DEF CreatesThread, CreateFails, CopiesMax
          <6>5. CASE AcceptFails
            BY <1>0, <6>5 DEF AcceptFails, CopiesMax, Servers
          <6> QED
            BY <6>1, <6>2, <6>3, <6>4, <6>5
        <5> QED
          BY <5>1, <5>2
      <4> QED
        BY <4>1, <4>2 DEF CopiesMax
    <3> QED
      BY <3>1, <3>2
  <2>3. CopiesMax => server'.with = server.with
    BY <1>1
    DEF CopiesMax, Quiet, Accepts, AcceptFails, CreateFails, Crashes, RecvParams, Reply,
        CreatesThread, Connects, Sends, Closes, Receives, Disconnects, vars
  <2>4. \A c \in Clients : Between(c)' <=> Between(c)
    BY <2>1 DEF Between
  <2> QED
    BY <2>1, <2>2, <2>3, <2>4 DEF ThresholdInv, Between
<1>2. CASE WorkerReads \/ WorkerSets \/ CameraControlCallback
  <2>1. UNCHANGED <<params, mutex, server, thread, calm>>
    BY <1>2 DEF WorkerReads, WorkerSets, CameraControlCallback, others
  <2> QED
    BY <2>1 DEF ThresholdInv, CopiesMax, Between
<1>3. CASE CopyParams
  <2> SUFFICES ASSUME calm' PROVE ThresholdInv'
    BY DEF ThresholdInv
  <2> DEFINE group == Head(server.todo)
  <2>1. /\ server.pc = "copy" /\ mutex = Null /\ mutex' = Null /\ thread' = thread /\ calm
        /\ server'.todo = Tail(server.todo) /\ server'.with = server.with
        /\ server'.pc = IF Len(server.todo) = 1 THEN "reply" ELSE "copy"
    BY <1>0, <1>3 DEF CopyParams, Servers
  <2>2. /\ group \in {"knob", "min", "max", "target"}
        /\ Len(server.todo) # 1 => (group = "min" <=> Head(Tail(server.todo)) = "max")
        /\ Len(server.todo) = 1 <=> group = "target"
    BY <1>0, <2>1, TodoStep
  <2>3. CopiesMax' <=> group = "min"
    BY <2>1, <2>2 DEF CopiesMax
  <2>4. \A c \in Clients : ~Between(c) /\ ~Between(c)'
    BY <1>0, <2>1 DEF Between
  <2>5. CopiesMax <=> group = "max"
    BY <2>1 DEF CopiesMax
  <2>6. PICK value \in CASE group = "knob" -> Restored
                         [] group = "target" -> SavedTargets
                         [] OTHER -> {server.with} :
           params' = [params EXCEPT ![group] = value]
    BY <1>3 DEF CopyParams
  <2> HIDE DEF group
  <2>7. CASE group \in {"knob", "target"}
    <3>1. params'.min = params.min /\ params'.max = params.max
      BY <1>0, <2>6, <2>7 DEF Parameters
    <3> QED
      BY <2>1, <2>3, <2>4, <2>5, <2>7, <3>1 DEF ThresholdInv
  <2>8. CASE group = "min"
    <3>1. params'.min = server.with
      BY <1>0, <2>6, <2>8 DEF Parameters
    <3> QED
      BY <2>1, <2>3, <2>4, <2>8, <3>1 DEF ThresholdInv
  <2>9. CASE group = "max"
    <3>1. params'.max = server.with /\ params'.min = params.min
      BY <1>0, <2>6, <2>9 DEF Parameters
    <3> QED
      BY <2>1, <2>3, <2>4, <2>5, <2>9, <3>1 DEF ThresholdInv
  <2> QED
    BY <2>2, <2>7, <2>8, <2>9
<1>4. ASSUME NEW c \in Clients, Stores(c) PROVE ThresholdInv'
  <2> SUFFICES ASSUME calm' PROVE ThresholdInv'
    BY DEF ThresholdInv
  <2> DEFINE msg == thread[c].msg
             knob == Field(msg.tag)
  <2>1. /\ calm /\ server' = server /\ mutex = Null /\ mutex' = c
        /\ thread' = [thread EXCEPT ![c].pc = "finish"]
        /\ ~CopiesMax /\ ~CopiesMax'
    BY <1>4 DEF Stores, TakesMutex, CopiesMax
  <2>2. params.min = params.max
    BY <1>0, <2>1 DEF ThresholdInv, Between
  <2>3. thread'[c].msg = msg
    BY <1>0, <2>1 DEF Threads
  <2>4. params' = CASE knob \in Knobs -> [params EXCEPT !.knob[knob] = Received(knob, msg.value)]
                    [] knob = "blob_yuv" -> [params EXCEPT !.min = msg.value]
                    [] knob = "freeze" -> [params EXCEPT !.target = msg.value]
                    [] OTHER -> params
    BY <1>4 DEF Stores
  <2>5. knob = "blob_yuv" <=> msg.tag = "blob_yuv"
    BY KnobNames
  <2> HIDE DEF msg, knob
  <2>6. CASE knob = "blob_yuv"
    <3>1. params'.min = msg.value
      BY <1>0, <2>4, <2>6, KnobNames DEF Parameters
    <3>2. \A d \in Clients : Between(d)' => d = c
      BY <2>1 DEF Between
    <3>3. Between(c)'
      BY <2>1, <2>3, <2>5, <2>6 DEF Between
    <3> QED
      BY <2>1, <2>3, <3>1, <3>2, <3>3 DEF ThresholdInv
  <2>7. CASE knob # "blob_yuv"
    <3>1. params'.min = params.min /\ params'.max = params.max
      <4>1. CASE knob \in Knobs
        BY <1>0, <2>4, <4>1, KnobNames DEF Parameters
      <4>2. CASE knob = "freeze"
        BY <1>0, <2>4, <4>2, KnobNames DEF Parameters
      <4>3. CASE knob \notin Knobs /\ knob # "freeze"
        BY <2>4, <2>7, <4>3
      <4> QED
        BY <4>1, <4>2, <4>3
    <3>2. \A d \in Clients : ~Between(d)'
      BY <2>1, <2>3, <2>5, <2>7 DEF Between
    <3> QED
      BY <2>1, <2>2, <3>1, <3>2 DEF ThresholdInv
  <2> QED
    BY <2>6, <2>7
<1>5. ASSUME NEW c \in Clients, Finishes(c) PROVE ThresholdInv'
  <2> SUFFICES ASSUME calm' PROVE ThresholdInv'
    BY DEF ThresholdInv
  <2> DEFINE msg == thread[c].msg
             knob == Sets(msg)
  <2>1. /\ calm /\ server' = server /\ mutex = c /\ mutex' = Null
        /\ params' = IF knob = "blob_yuv" THEN [params EXCEPT !.max = msg.value] ELSE params
    BY <1>5 DEF Finishes, Tells, MutexInv, Sets
  <2>2. ~CopiesMax /\ ~CopiesMax'
    BY <1>0, <2>1 DEF ThresholdInv, CopiesMax
  <2>3. \A d \in Clients : ~Between(d)' /\ (Between(d) => d = c)
    BY <1>0, <2>1 DEF Between
  <2>4. knob = "blob_yuv" <=> msg.tag = "blob_yuv"
    BY KnobNames DEF Sets
  <2>5. Between(c) <=> knob = "blob_yuv"
    BY <2>1, <2>4 DEF Between
  <2>6. Between(c) => params.min = msg.value
    BY <2>1 DEF ThresholdInv
  <2> HIDE DEF msg, knob
  <2>7. params'.min = params'.max
    <3>1. CASE knob = "blob_yuv"
      BY <1>0, <2>1, <2>5, <2>6, <3>1 DEF Parameters
    <3>2. CASE knob # "blob_yuv"
      BY <2>1, <2>2, <2>3, <2>5, <3>2 DEF ThresholdInv
    <3> QED
      BY <3>1, <3>2
  <2> QED
    BY <2>2, <2>3, <2>7 DEF ThresholdInv
<1>6. CASE ImageArrives
  <2>1. /\ UNCHANGED <<params, server, thread>> /\ mutex = Null /\ mutex' = "splitter"
        /\ calm' => calm /\ server.pc # "copy"
    BY <1>6 DEF ImageArrives, TakesMutex, control
  <2>2. \A c \in Clients : ~Between(c) /\ ~Between(c)'
    BY <1>0, <2>1 DEF Between
  <2> QED
    BY <2>1, <2>2 DEF ThresholdInv, CopiesMax
<1>7. CASE SplitterCallback
  <2>1. /\ UNCHANGED <<params, server, thread, calm>> /\ mutex = "splitter" /\ mutex' = Null
    BY <1>7 DEF SplitterCallback, control
  <2>2. \A c \in Clients : ~Between(c) /\ ~Between(c)'
    BY <1>0, <2>1 DEF Between
  <2> QED
    BY <1>0, <2>1, <2>2 DEF ThresholdInv, CopiesMax
<1> QED
  BY ParameterCases, <1>1, <1>2, <1>3, <1>4, <1>5, <1>6, <1>7
\* The camera.
LEMMA CameraKept == ASSUME IInv, [Next]_vars PROVE CameraInv'
<1> USE DEF IInv
<1>0. /\ Null \notin Clients /\ "splitter" \notin Clients /\ "exposureMode" \in Knobs
      /\ thread \in Threads /\ params \in Parameters /\ camera \in [Knobs -> Int]
      /\ params.knob \in [Knobs -> Int] /\ told \subseteq Knobs
  BY ControlAssumption, KnobNames DEF Types, Parameters
<1>1. CASE Quiet
  <2>1. /\ UNCHANGED <<control, mutex>>
        /\ \A c \in Clients : mutex = c => thread'[c] = thread[c]
    BY <1>1, QuietKeeps
  <2>2. \A k : Pending(k) => Pending(k)'
    BY <2>1 DEF Pending
  <2> QED
    BY <2>1, <2>2 DEF CameraInv, InStep, control
<1>2. CASE WorkerReads
  <2>1. UNCHANGED <<params, camera, told, stale, frozen, overruled, mutex, thread>>
    BY <1>2 DEF WorkerReads, others
  <2> QED
    BY <2>1 DEF CameraInv, InStep, Pending
<1>8. CASE WorkerSets
  <2> DEFINE k == Setters[worker.at]
             value == worker.value
  <2>1. /\ UNCHANGED <<params, frozen, mutex, thread>>
        /\ camera' = [camera EXCEPT ![k] = Shown(k, value, @)]
        /\ told' = IF value = params.knob[k] /\ Accepted(k, value) THEN told \cup {k} ELSE told
        /\ stale' = IF value = params.knob[k] THEN stale \ {k} ELSE stale \cup {k}
    BY <1>8 DEF WorkerSets, others
  <2>2. overruled' = (overruled \/ k = "exposureMode") /\ worker.pc = "set"
    BY <1>8 DEF WorkerSets
  <2>3. k \in Knobs
    BY <2>2, ControlAssumption, ElementOfSeq DEF Types
  <2> HIDE DEF k, value
  <2>4. \A j \in Knobs : j # k => camera'[j] = camera[j]
    BY <1>0, <2>1
  <2>5. camera'[k] = Shown(k, value, camera[k])
    BY <1>0, <2>1, <2>3
  <2>6. frozen' /\ ~overruled' => camera'["exposureMode"] = OFF
    BY <1>0, <2>1, <2>2, <2>4 DEF CameraInv
  <2>7. \A j : Pending(j)' <=> Pending(j)
    BY <2>1 DEF Pending
  <2>8. ASSUME NEW j \in told'
        PROVE  /\ Accepted(j, params.knob[j])'
               /\ Pending(j)' \/ InStep(j)' \/ j \in stale'
                  \/ (j = "exposureMode" /\ frozen' /\ ~overruled')
    <3>1. CASE j # k
      <4>1. j \in told /\ j \in Knobs
        BY <1>0, <2>1, <3>1
      <4> QED
        BY <2>1, <2>2, <2>4, <2>7, <3>1, <4>1 DEF CameraInv, InStep
    <3>2. CASE j = k /\ value # params.knob[k]
      <4>1. j \in told /\ j \in stale'
        BY <2>1, <3>2
      <4> QED
        BY <2>1, <4>1 DEF CameraInv
    <3>3. CASE j = k /\ value = params.knob[k]
      <4>1. Accepted(k, value)
        BY <2>1, <3>3 DEF CameraInv
      <4>2. Shown(k, value, camera'[k]) = camera'[k]
        BY <2>5, <4>1, ShownTwice
      <4> QED
        BY <2>1, <3>3, <4>1, <4>2 DEF InStep
    <3> QED
      BY <3>1, <3>2, <3>3
  <2> QED
    BY <2>6, <2>8 DEF CameraInv
<1>3. CASE CopyParams
  <2> DEFINE group == Head(server.todo)
  <2>1. /\ UNCHANGED <<camera, frozen, stale, overruled, mutex, thread>>
        /\ told' = IF group = "knob" THEN {} ELSE told
    BY <1>3 DEF CopyParams
  <2>2. PICK value : params' = [params EXCEPT ![group] = value]
    BY <1>3 DEF CopyParams
  <2>3. group \in {"knob", "min", "max", "target"}
    BY <1>3, TodoStep DEF CopyParams, Types, Servers
  <2> HIDE DEF group
  <2>4. CASE group = "knob"
    BY <2>1, <2>4 DEF CameraInv
  <2>5. CASE group # "knob"
    <3>1. params'.knob = params.knob
      BY <1>0, <2>2, <2>3, <2>5 DEF Parameters
    <3> QED
      BY <2>1, <2>5, <3>1 DEF CameraInv, InStep, Pending
  <2> QED
    BY <2>4, <2>5
<1>4. ASSUME NEW c \in Clients, Stores(c) PROVE CameraInv'
  <2> DEFINE msg == thread[c].msg
             knob == Field(msg.tag)
  <2>1. /\ UNCHANGED <<camera, frozen, stale, overruled>> /\ mutex = Null /\ mutex' = c
        /\ thread' = [thread EXCEPT ![c].pc = "finish"]
        /\ told' = IF knob \in Knobs THEN told \cup {knob} ELSE told
    BY <1>4 DEF Stores, TakesMutex
  <2>2. msg.value \in Int /\ thread'[c].msg = msg
    BY <1>0, <1>4, <2>1, ControlAssumption DEF Stores, MutexInv, Threads
  <2>3. params' = CASE knob \in Knobs -> [params EXCEPT !.knob[knob] = Received(knob, msg.value)]
                    [] knob = "blob_yuv" -> [params EXCEPT !.min = msg.value]
                    [] knob = "freeze" -> [params EXCEPT !.target = msg.value]
                    [] OTHER -> params
    BY <1>4 DEF Stores
  <2>4. \A k \in Knobs : k = knob => Pending(k)'
    <3>1. knob \in Knobs => Sets(msg) = knob
      BY KnobNames DEF Sets
    <3> QED
      BY <2>1, <2>2, <3>1 DEF Pending
  <2>5. \A k : ~Pending(k)
    BY <1>0, <2>1 DEF Pending
  <2> HIDE DEF msg, knob
  <2>6. CASE knob \in Knobs
    <3>1. params' = [params EXCEPT !.knob[knob] = Received(knob, msg.value)]
      BY <2>3, <2>6, KnobNames
    <3>2. /\ params'.knob[knob] = Received(knob, msg.value)
          /\ \A k \in Knobs : k # knob => params'.knob[k] = params.knob[k]
      BY <1>0, <2>6, <3>1 DEF Parameters
    <3>3. Accepted(knob, Received(knob, msg.value))
      BY <2>2, <2>6, LimitedIsAccepted
    <3>4. ASSUME NEW k \in told'
          PROVE  /\ Accepted(k, params.knob[k])'
                 /\ Pending(k)' \/ InStep(k)' \/ k \in stale'
                    \/ (k = "exposureMode" /\ frozen' /\ ~overruled')
      <4>1. CASE k = knob
        <5>1. Pending(k)'
          BY <2>4, <2>6, <4>1
        <5> QED
          BY <3>2, <3>3, <4>1, <5>1
      <4>2. CASE k # knob
        <5>1. k \in told /\ k \in Knobs
          BY <1>0, <2>1, <2>6, <4>2
        <5> QED
          BY <2>1, <2>5, <3>2, <4>2, <5>1 DEF CameraInv, InStep
      <4> QED
        BY <4>1, <4>2
    <3> QED
      BY <2>1, <3>4 DEF CameraInv
  <2>7. CASE knob \notin Knobs
    <3>1. params'.knob = params.knob
      <4>1. CASE knob = "blob_yuv"
        BY <1>0, <2>3, <4>1, KnobNames DEF Parameters
      <4>2. CASE knob = "freeze"
        BY <1>0, <2>3, <4>2, KnobNames DEF Parameters
      <4>3. CASE knob \notin {"blob_yuv", "freeze"}
        BY <2>3, <2>7, <4>3
      <4> QED
        BY <4>1, <4>2, <4>3
    <3> QED
      BY <2>1, <2>5, <2>7, <3>1 DEF CameraInv, InStep
  <2> QED
    BY <2>6, <2>7
<1>5. ASSUME NEW c \in Clients, Finishes(c) PROVE CameraInv'
  <2> DEFINE msg == thread[c].msg
             knob == Sets(msg)
  <2>1. /\ UNCHANGED <<frozen, told>> /\ mutex = c
        /\ params' = IF knob = "blob_yuv" THEN [params EXCEPT !.max = msg.value] ELSE params
        /\ camera' = IF knob \notin Knobs THEN camera
                     ELSE [camera EXCEPT ![knob] = Shown(knob, params.knob[knob], @)]
        /\ overruled' = (overruled \/ knob = "exposureMode")
        /\ stale' = stale \ {knob}
    BY <1>5 DEF Finishes, Tells, MutexInv, Sets
  <2>2. \A k : Pending(k) => k = knob
    BY <2>1 DEF Pending
  <2> HIDE DEF msg, knob
  <2>3. params'.knob = params.knob
    BY <1>0, <2>1 DEF Parameters
  <2>4. \A k \in Knobs : k # knob => camera'[k] = camera[k]
    BY <1>0, <2>1
  <2>5. ASSUME NEW k \in told
        PROVE  /\ Accepted(k, params.knob[k])
               /\ InStep(k)' \/ k \in stale' \/ (k = "exposureMode" /\ frozen' /\ ~overruled')
    <3>1. k \in Knobs /\ Accepted(k, params.knob[k])
      BY <1>0 DEF CameraInv
    <3>2. CASE k = knob
      <4>1. camera'[k] = Shown(k, params.knob[k], camera[k])
        BY <1>0, <2>1, <3>1, <3>2
      <4> QED
        BY <2>3, <3>1, <4>1, ShownTwice DEF InStep
    <3>3. CASE k # knob
      BY <2>1, <2>2, <2>3, <2>4, <3>1, <3>3 DEF CameraInv, InStep
    <3> QED
      BY <3>1, <3>2, <3>3
  <2>6. frozen' /\ ~overruled' => camera'["exposureMode"] = OFF
    BY <1>0, <2>1, <2>4 DEF CameraInv
  <2> QED
    BY <2>1, <2>3, <2>5, <2>6 DEF CameraInv
<1>6. CASE CameraControlCallback
  <2>1. /\ UNCHANGED <<params, told, mutex, thread>> /\ mutex = Null
        /\ \A k \in stale : k # "exposureMode" => k \in stale'
    BY <1>6 DEF CameraControlCallback
  <2>2. \A k : ~Pending(k)
    BY <1>0, <2>1 DEF Pending
  <2>3. \/ /\ frozen' /\ ~overruled'
           /\ camera' = [camera EXCEPT !.exposureMode = OFF]
        \/ /\ ~frozen' /\ frozen /\ overruled' = overruled
           /\ camera' = [camera EXCEPT !.exposureMode = params.knob.exposureMode]
    <3>1. PICK right \in BOOLEAN :
             LET auto == params.target > 0 /\ params.knob.exposureMode # OFF
                 freeze == auto /\ right /\ ~frozen
                 unfreeze == frozen /\ ~(auto /\ right) IN
             /\ freeze \/ unfreeze
             /\ frozen' = freeze /\ overruled' = (overruled /\ ~freeze)
             /\ camera' = [camera EXCEPT !.exposureMode =
                              IF freeze THEN OFF ELSE params.knob.exposureMode]
      BY <1>6, Zenon DEF CameraControlCallback
    <3> DEFINE freeze == (params.target > 0 /\ params.knob.exposureMode # OFF) /\ right /\ ~frozen
    <3>2. /\ freeze \in BOOLEAN /\ (freeze \/ frozen)
          /\ frozen' = freeze /\ overruled' = (overruled /\ ~freeze)
          /\ camera' = [camera EXCEPT !.exposureMode =
                            IF freeze THEN OFF ELSE params.knob.exposureMode]
      BY <3>1, Zenon
    <3> HIDE DEF freeze
    <3>3. overruled \in BOOLEAN
      BY DEF Types
    <3> QED
      BY <3>2, <3>3
  <2>4. \A k \in Knobs : k # "exposureMode" => camera'[k] = camera[k]
    BY <1>0, <2>3
  <2>5. \/ frozen' /\ ~overruled' /\ camera'["exposureMode"] = OFF
        \/ ~frozen' /\ camera'["exposureMode"] = params.knob["exposureMode"]
    BY <1>0, <2>3
  <2>6. ASSUME NEW k \in told
        PROVE  InStep(k)' \/ k \in stale' \/ (k = "exposureMode" /\ frozen' /\ ~overruled')
    <3>1. CASE k = "exposureMode"
      <4>1. Shown("exposureMode", params.knob["exposureMode"], params.knob["exposureMode"])
               = params.knob["exposureMode"]
        BY DEF Shown
      <4> QED
        BY <2>1, <2>5, <3>1, <4>1 DEF InStep
    <3>2. CASE k # "exposureMode"
      BY <1>0, <2>1, <2>2, <2>4, <3>2 DEF CameraInv, InStep
    <3> QED
      BY <3>1, <3>2
  <2> QED
    BY <2>1, <2>5, <2>6 DEF CameraInv
<1>7. CASE ImageArrives \/ SplitterCallback
  <2>1. UNCHANGED <<control, thread>> /\ mutex \notin Clients
    BY <1>0, <1>7 DEF ImageArrives, SplitterCallback, TakesMutex
  <2>2. \A k : ~Pending(k)
    BY <2>1 DEF Pending
  <2> QED
    BY <2>1, <2>2 DEF CameraInv, InStep, control
<1> QED
  BY ParameterCases, <1>1, <1>2, <1>3, <1>4, <1>5, <1>6, <1>7, <1>8

\* So the invariant always holds.
LEMMA Invariance == Spec => []IInv
<1>1. IInv /\ [Next]_vars => IInv'
  BY TypesKept, MutexKept, HeardKept, ThresholdKept, CameraKept DEF IInv
<1> QED
  BY <1>1, InitIInv, PTL DEF Spec

--------------------------------------------------------------------------------
(* Theorems *)

\* For any number of windows and messages, every variable keeps its type: no
\* more than MAX_CONNECTIONS connections are counted, and values stay numbers.
\* With a full table server_thread waits for the next connection in a place past
\* its end, so the heap has been written there: that is not excluded but shown.
THEOREM TypeCorrect == Spec => []TypeOK
<1>1. IInv => TypeOK
  <2> SUFFICES ASSUME IInv PROVE TypeOK
    OBVIOUS
  <2> USE DEF IInv
  <2>1. /\ params \in Parameters /\ server \in Servers /\ table \in Seq(Clients)
        /\ thread \in Threads
    BY DEF Types
  <2>2. Len(server.todo) <= 4
    <3>1. \A todo \in Todos \cup {<<>>} : Len(todo) <= 4
      <4>1. /\ Len(<<"knob", "min", "max", "target">>) <= 4
            /\ Len(<<"min", "max", "target">>) <= 4
            /\ Len(<<"max", "target">>) <= 4 /\ Len(<<"target">>) <= 4 /\ Len(<<>>) <= 4
        OBVIOUS
      <4> QED
        BY <4>1, Zenon DEF Todos
    <3> QED
      BY <2>1, <3>1 DEF Servers
  <2>3. \A i \in DOMAIN table : table[i] \in Clients
    BY <2>1, ElementOfSeq
  <2>4. Len(table) <= MaxConnections
    BY DEF HeardInv
  <2>5. \A c \in Clients : thread[c].pc \in {"none", "recv", "lock", "finish", "ended"}
    BY <2>1 DEF Threads
  <2>6. /\ server.pc \in {"accept", "recv", "copy", "reply", "create", "ended"}
        /\ server.with \in Clients \cup {Null}
    BY <2>1 DEF Servers
  <2>7. (server.pc \in {"accept", "ended"}) = (server.with = Null)
    BY DEF MutexInv, Serves
  <2>8. /\ worker.pc \in {"read", "set"} /\ worker.at \in 1 .. Len(Setters) + 1
        /\ worker.value \in Int /\ worker.good \in BOOLEAN
    BY DEF Types, Workers
  <2>9. server.pc = "accept" /\ Len(table) = MaxConnections => damaged
    BY DEF HeardInv, Room
  <2> QED
    BY <2>1, <2>2, <2>3, <2>4, <2>5, <2>6, <2>7, <2>8, <2>9 DEF Types, MutexInv, Parameters, TypeOK
<1> QED
  BY <1>1, Invariance, PTL

\* What a window hears first, of server_thread and of the log, is the reply
\* with the parameters, however many windows come and go.
THEOREM AlwaysReplyFirst == Spec => []ReplyFirst
<1>1. IInv => ReplyFirst
  BY DEF IInv, HeardInv
<1> QED
  BY <1>1, Invariance, PTL

\* splitter_buffer_callback searches an image with the thresholds of one
\* message, as long as no copy of saved parameters has met another thread.
THEOREM AlwaysThresholdsOfOneMessage == Spec => []ThresholdsOfOneMessage
<1>1. IInv => ThresholdsOfOneMessage
  <2>1. "splitter" \notin Clients /\ Null # "splitter"
    BY ControlAssumption
  <2> QED
    BY <2>1 DEF IInv, ThresholdInv, Between, ThresholdsOfOneMessage
<1> QED
  BY <1>1, Invariance, PTL

\* Between messages the camera shows what the parameters say wherever a message
\* or the start had the last word, and a frozen camera has its exposure mode off,
\* whatever the windows send and however their messages fall between the setters
\* that worker_thread calls.  Except for a knob whose value a message replaced
\* after the start had read it and before the camera was set.
THEOREM AlwaysCameraInStep == Spec => []CameraInStep
<1>1. IInv => CameraInStep
  <2>1. Null \notin Clients
    BY ControlAssumption
  <2> QED
    BY <2>1 DEF IInv, CameraInv, Pending, InStep, CameraInStep
<1> QED
  BY <1>1, Invariance, PTL
================================================================================
