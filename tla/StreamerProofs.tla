----------------------------- MODULE StreamerProofs -----------------------------
(***************************************************************************)
(* Theorems about Streamer, for any pools of buffer headers, any number of *)
(* clients and of buffers a picture takes.                                 *)
(***************************************************************************)
EXTENDS Streamer, FiniteSetTheorems, TLAPS

-----------------------------------------------------------------------------
(* The inductive invariant *)

Places == {"queue", "worker", "component", "callback", "again", "failed", "lost", "freed"}
PortStates == [enabled : BOOLEAN, callback : BOOLEAN, transit : Int, draining : BOOLEAN]

Early == {"create", "splitter", "resizer", "check"}
Filling == {"fill", "get", "send", "capture"}
Late == {"drain", "wait", "destroy", "done"}
Pcs == Early \cup {"enable"} \cup Filling \cup {"await", "sleep", "delete", "disable"}
           \cup Late \cup {"exit"}

WorkerStates == [pc : Pcs, port : Ports, left : Nat]
Callbacks == [pc : {"idle", "run", "released", "send", "finish"},
              header : AllHeaders \cup {"none"}, data : BOOLEAN, last : BOOLEAN]

\* Only the encoder hands out data, and a picture ends in time.
Whole(p) ==
    /\ callback[p].last => p = Encoder
    /\ callback[p].data =>
          p = Encoder /\ callback[p].pc = "run" /\ (chunks + 1 = MaxChunks => callback[p].last)

Types ==
    /\ header \in [AllHeaders -> Places]
    /\ port \in [Ports -> PortStates]
    /\ worker \in WorkerStates
    /\ callback \in [Ports -> Callbacks]
    /\ usestills \in BOOLEAN /\ stop \in BOOLEAN /\ capturing \in BOOLEAN
    /\ chunks \in 0 .. MaxChunks - 1 /\ complete \in -2 .. 1
    /\ \A p \in Ports : Whole(p)

Count(p, place) == Cardinality(At(p, place))

\* A callback keeps one header in transit until it ends, and leaves one in the
\* queue between the release of the old one and the next mmal_queue_get.
Busy(p) == IF callback[p].pc = "idle" THEN 0 ELSE 1
Spare(p) == IF callback[p].pc = "released" THEN 1 ELSE 0

CallbackHolds(p) ==
    /\ callback[p].pc = "idle" => callback[p] = Idle
    /\ callback[p].pc = "run" =>
          callback[p].header \in Headers[p] /\ header[callback[p].header] = "callback"
    /\ callback[p].pc = "send" =>
          callback[p].header \in Headers[p] /\ header[callback[p].header] = "again"

\* What transit counts.
InTransit(p) == port[p].transit = Count(p, "component") + Busy(p)

\* When the ports take headers, and when the component gives them up.
Opened ==
    /\ worker.pc \notin Early \cup {"exit"} => port[Splitter].enabled
    /\ worker.pc \in Filling \cup {"await", "sleep", "delete", "disable"} => port[Encoder].enabled
    /\ worker.pc \in {"drain", "wait"} => ~port[Encoder].enabled
    /\ \A p \in Ports : port[p].draining =>
          p = Encoder /\ worker.pc \in {"wait", "destroy", "done", "exit"}
    /\ worker.pc \in {"destroy", "done"} /\ ~port[Encoder].enabled => port[Encoder].transit = 0
    /\ worker.pc = "done" => ~port[Encoder].enabled

\* The semaphore is posted once for a picture, and then the encoder rests until
\* the next one is started.
Posted ==
    /\ worker.pc \in Early \cup {"enable"} \cup Filling =>
          callback[Encoder] = Idle /\ ~capturing /\ complete = 0
    /\ worker.pc = "await" =>
          /\ usestills
          /\ \/ complete = 0 /\ capturing /\ ~callback[Encoder].last
             \/ complete = 0 /\ ~capturing /\ callback[Encoder].last
             \/ complete = 1 /\ ~capturing /\ callback[Encoder] = Idle
    /\ worker.pc = "delete" /\ usestills => callback[Encoder] = Idle /\ ~capturing
    /\ worker.pc = "sleep" => ~usestills
    /\ worker.pc = "disable" \/ worker.pc \in Late => complete < 0

\* The splitter, which fills whatever it has, has nothing before its port is
\* filled.
Unfilled ==
    \/ usestills \/ worker.pc \in Early \cup {"enable", "fill"}
    \/ worker.pc \in {"get", "send"} /\ worker.port = Encoder

NothingSent ==
    /\ Unfilled => callback[Splitter] = Idle /\ At(Splitter, "component") = {}
    /\ worker.pc \in {"get", "send"} /\ worker.port = Splitter => ~usestills

\* The headers in the queue are those that the worker has still to send, and
\* the one of a callback that has released one and not yet taken one.
Filled(p) ==
    \/ p = Encoder /\ worker.pc \in {"capture", "await", "sleep"}
    \/ p = Encoder /\ worker.pc \in {"get", "send"} /\ worker.port = Splitter
    \/ p = Splitter /\ ~usestills /\ worker.pc \in {"capture", "sleep"}

LeftToFill(p) ==
    /\ worker.pc = "get" /\ worker.port = p => Count(p, "queue") = worker.left + Spare(p)
    /\ worker.pc = "send" /\ worker.port = p =>
          worker.left > 0 /\ Count(p, "queue") = worker.left - 1 + Spare(p)
    /\ Filled(p) => Count(p, "queue") = Spare(p)

NoneLost(p) == worker.pc \notin Late \cup {"exit"} => At(p, "lost") = {}

PortInv(p) == CallbackHolds(p) /\ InTransit(p) /\ LeftToFill(p) /\ NoneLost(p)

SInv == Types /\ Opened /\ Posted /\ NothingSent /\ \A p \in Ports : PortInv(p)

\* All this holds until the process ends, or the pool of a port is freed that could
\* not be disabled: then nothing is known but the kinds of things, and that the
\* semaphore has been deleted.
FInv == Types /\ FreedOpen /\ complete < 0
IInv == SInv \/ FInv \/ (Types /\ worker.pc = "exit")

-----------------------------------------------------------------------------
(* Headers that move *)

\* There are two ports.
LEMMA TwoPorts == Ports = {Encoder, Splitter} /\ Encoder # Splitter
BY WorkerAssumption DEF Encoder, Splitter

\* The headers of a port at one place, for any distribution of the headers.
AtIn(f, p, place) == {h \in Headers[p] : f[h] = place}

\* They can be counted, and there is none exactly when the count is zero.
LEMMA Countable ==
    ASSUME NEW f, NEW p \in Ports, NEW x
    PROVE  /\ IsFiniteSet(AtIn(f, p, x))
           /\ Cardinality(AtIn(f, p, x)) \in Nat
           /\ Cardinality(AtIn(f, p, x)) <= Cardinality(Headers[p])
           /\ Cardinality(AtIn(f, p, x)) = 0 <=> AtIn(f, p, x) = {}
<1>1. IsFiniteSet(Headers[p])
  BY PortAssumption
<1>2. AtIn(f, p, x) \subseteq Headers[p]
  BY DEF AtIn
<1>3. IsFiniteSet(AtIn(f, p, x)) /\ Cardinality(AtIn(f, p, x)) <= Cardinality(Headers[p])
  BY <1>1, <1>2, FS_Subset
<1>4. Cardinality(AtIn(f, p, x)) \in Nat
  BY <1>3, FS_CardinalityType
<1>5. Cardinality(AtIn(f, p, x)) = 0 <=> AtIn(f, p, x) = {}
  BY <1>3, FS_EmptySet
<1> QED BY <1>3, <1>4, <1>5

\* The same for the headers as they are.
LEMMA Counted ==
    \A p \in Ports : \A x : Count(p, x) \in Nat /\ (Count(p, x) = 0 <=> At(p, x) = {})
<1>1. \A p, x : At(p, x) = AtIn(header, p, x)
  BY DEF At, AtIn
<1> QED BY <1>1, Countable DEF Count

\* One header of a port goes from a place to another.
Moves(p, a, b) ==
    \E h \in Headers[p] : header[h] = a /\ header' = [header EXCEPT ![h] = b]

\* Then the two places differ by one header, and nothing else changes.
LEMMA Moving ==
    ASSUME Types, NEW p \in Ports, NEW a \in Places, NEW b \in Places, a # b, Moves(p, a, b)
    PROVE  /\ header' \in [AllHeaders -> Places]
           /\ Count(p, a) \in Nat /\ Count(p, a)' = Count(p, a) - 1
           /\ Count(p, b) \in Nat /\ Count(p, b)' = Count(p, b) + 1
           /\ \A q \in Ports, x \in Places \ {a, b} : At(q, x)' = At(q, x)
           /\ \A q \in Ports \ {p}, x \in Places : At(q, x)' = At(q, x)
           /\ \A q \in Ports, k \in AllHeaders :
                 header[k] # a \/ (q # p /\ k \in Headers[q]) => header'[k] = header[k]
<1>1. PICK h \in Headers[p] : header[h] = a /\ header' = [header EXCEPT ![h] = b]
  BY DEF Moves
<1>2. header \in [AllHeaders -> Places] /\ h \in AllHeaders
  BY DEF Types, AllHeaders
<1>3. header' \in [AllHeaders -> Places] /\ header'[h] = b
  BY <1>1, <1>2
<1>4. \A k \in AllHeaders : k # h => header'[k] = header[k]
  BY <1>1, <1>2
<1>5. \A q \in Ports : Headers[q] \subseteq AllHeaders /\ (q # p => h \notin Headers[q])
  BY PortAssumption DEF AllHeaders
<1>6. /\ AtIn(header', p, a) = AtIn(header, p, a) \ {h} /\ h \in AtIn(header, p, a)
      /\ AtIn(header', p, b) = AtIn(header, p, b) \cup {h} /\ h \notin AtIn(header, p, b)
  BY <1>1, <1>3, <1>4, <1>5 DEF AtIn
<1>7. /\ IsFiniteSet(AtIn(header, p, a)) /\ Cardinality(AtIn(header, p, a)) \in Nat
      /\ IsFiniteSet(AtIn(header, p, b)) /\ Cardinality(AtIn(header, p, b)) \in Nat
  BY Countable
<1>8. Cardinality(AtIn(header', p, a)) = Cardinality(AtIn(header, p, a)) - 1
  BY <1>6, <1>7, FS_RemoveElement
<1>9. Cardinality(AtIn(header', p, b)) = Cardinality(AtIn(header, p, b)) + 1
  BY <1>6, <1>7, FS_AddElement
<1>10. \A q \in Ports, x \in Places \ {a, b} : At(q, x)' = At(q, x)
  BY <1>1, <1>3, <1>4, <1>5 DEF At
<1>11. \A q \in Ports \ {p}, x \in Places : At(q, x)' = At(q, x)
  BY <1>4, <1>5 DEF At
<1>12. \A q \in Ports, k \in AllHeaders :
          header[k] # a \/ (q # p /\ k \in Headers[q]) => header'[k] = header[k]
  BY <1>1, <1>4, <1>5
<1> QED BY <1>3, <1>7, <1>8, <1>9, <1>10, <1>11, <1>12 DEF Count, At, AtIn

-----------------------------------------------------------------------------
(* The callbacks *)

\* A port whose headers, callback and record stay as they are keeps its part of
\* the invariant while the worker stands still.
LEMMA KeepsPort ==
    ASSUME NEW q \in Ports, PortInv(q), callback'[q] = callback[q], port'[q] = port[q],
           \A x \in Places : At(q, x)' = At(q, x),
           \A h \in Headers[q] : header'[h] = header[h],
           UNCHANGED <<worker, usestills>>
    PROVE  PortInv(q)'
<1>1. CallbackHolds(q)'
  BY DEF PortInv, CallbackHolds
<1>2. \A x \in Places : Count(q, x)' = Count(q, x)
  BY DEF Count
<1>3. "queue" \in Places /\ "component" \in Places /\ "lost" \in Places
  BY DEF Places
<1>4. InTransit(q)' /\ Spare(q)' = Spare(q)
  BY <1>2, <1>3 DEF PortInv, InTransit, Busy, Spare
<1>5. LeftToFill(q)'
  BY <1>2, <1>3, <1>4 DEF PortInv, LeftToFill, Filled
<1>6. NoneLost(q)'
  BY <1>3 DEF PortInv, NoneLost
<1> QED BY <1>1, <1>4, <1>5, <1>6 DEF PortInv

\* The same for the other port of a callback that moves at most one header of
\* its own.
LEMMA OtherPort ==
    ASSUME Types, NEW p \in Ports, NEW q \in Ports \ {p}, PortInv(q), NEW a \in Places, NEW b \in Places,
           a # b, Moves(p, a, b) \/ UNCHANGED header,
           callback'[q] = callback[q], port'[q] = port[q], UNCHANGED <<worker, usestills>>
    PROVE  PortInv(q)'
<1>1. CASE Moves(p, a, b)
  <2>1. \A x \in Places : At(q, x)' = At(q, x)
    BY <1>1, Moving
  <2>2. \A h \in Headers[q] : h \in AllHeaders
    BY DEF AllHeaders
  <2>3. \A h \in Headers[q] : header'[h] = header[h]
    BY <1>1, <2>2, Moving
  <2> QED BY <2>1, <2>3, KeepsPort
<1>2. CASE UNCHANGED header
  BY <1>2, KeepsPort DEF At
<1> QED BY <1>1, <1>2

\* A header that the component returns stays in transit, and none is returned
\* while the invariant wants the callback idle.
LEMMA ReturnsKeeps ==
    ASSUME SInv, NEW p \in Ports, Returns(p)
    PROVE  SInv'
<1> DEFINE counted == p = Encoder /\ ~port[p].draining
<1>1. PICK h \in At(p, "component"), data \in BOOLEAN, last \in BOOLEAN :
        /\ CallbackBegins(p, h)
        /\ data => counted
        /\ last => p = Encoder
        /\ data /\ chunks + 1 = MaxChunks => last
        /\ callback' = [callback EXCEPT ![p] = [pc |-> "run", header |-> h, data |-> data, last |-> last]]
        /\ capturing' = (capturing /\ ~(last /\ usestills))
  BY DEF Returns
<1>2. /\ callback[p].pc = "idle" /\ UNCHANGED <<port, usestills, stop, worker, built, chunks, complete>>
      /\ p = Encoder => capturing \/ port[p].draining
  BY <1>1 DEF Returns, CallbackBegins
<1>3. /\ Moves(p, "component", "callback") /\ h \in Headers[p] /\ h \in AllHeaders
      /\ header' = [header EXCEPT ![h] = "callback"]
  BY <1>1 DEF Moves, CallbackBegins, At, AllHeaders
<1>4. Types /\ PortInv(p) /\ Opened /\ Posted /\ NothingSent /\ "component" \in Places /\ "callback" \in Places
  BY DEF SInv, Places
<1>5. /\ header' \in [AllHeaders -> Places]
      /\ Count(p, "component") \in Nat /\ Count(p, "component")' = Count(p, "component") - 1
      /\ At(p, "queue")' = At(p, "queue") /\ At(p, "lost")' = At(p, "lost")
  BY <1>3, <1>4, Moving DEF Places
<1>6. callback'[p] = [pc |-> "run", header |-> h, data |-> data, last |-> last]
      /\ \A q \in Ports \ {p} : callback'[q] = callback[q]
  BY <1>1, <1>4 DEF Types
<1>7. Types'
  <2>1. callback' \in [Ports -> Callbacks]
    <3>1. [pc |-> "run", header |-> h, data |-> data, last |-> last] \in Callbacks
      BY <1>3 DEF Callbacks
    <3> QED BY <1>1, <1>4, <3>1 DEF Types
  <2>2. \A q \in Ports : Whole(q)'
    BY <1>1, <1>2, <1>4, <1>6 DEF Types, Whole
  <2>3. capturing' \in BOOLEAN
    BY <1>1
  <2> QED BY <1>2, <1>4, <1>5, <2>1, <2>2, <2>3 DEF Types
<1>8. Opened'
  BY <1>2, <1>4 DEF Opened
<1>9. Posted'
  <2>1. CASE p = Encoder
    <3>1. port[p].draining => worker.pc \in {"wait", "destroy", "done", "exit"}
      BY <1>4 DEF Opened
    <3>5. worker.pc \in {"wait", "destroy", "done", "exit"} \/ (~port[p].draining /\ capturing)
      BY <1>2, <2>1, <3>1
    <3>2. capturing => /\ worker.pc \notin Early \cup {"enable"} \cup Filling
                       /\ worker.pc = "await" => complete = 0
                       /\ worker.pc = "delete" => ~usestills
      BY <1>4 DEF Posted
    <3>3. CASE worker.pc \in {"wait", "destroy", "done", "exit"}
      BY <1>2, <1>4, <3>3 DEF Posted, Early, Filling, Late
    <3>4. CASE ~port[p].draining /\ capturing
      <4>1. callback'[Encoder].last = last /\ usestills \in BOOLEAN
        BY <1>4, <1>6, <2>1 DEF Types
      <4>2. worker'.pc = "await" => usestills' /\ complete' = 0 /\ capturing' = ~callback'[Encoder].last
        BY <1>1, <1>2, <1>4, <3>2, <3>4, <4>1 DEF Posted
      <4>3. worker'.pc = "disable" \/ worker'.pc \in Late => complete' < 0
        BY <1>2, <1>4 DEF Posted
      <4>4. worker'.pc = "sleep" => ~usestills'
        BY <1>2, <1>4 DEF Posted
      <4> QED BY <1>2, <3>2, <3>4, <4>2, <4>3, <4>4 DEF Posted
    <3> QED BY <3>3, <3>4, <3>5
  <2>2. CASE p # Encoder
    <3>1. capturing' = capturing /\ callback'[Encoder] = callback[Encoder]
      BY <1>1, <1>4, <1>6, <2>2, TwoPorts DEF Types
    <3> QED BY <1>2, <1>4, <3>1 DEF Posted
  <2> QED BY <2>1, <2>2
<1>10. NothingSent'
  <2>1. CASE p = Splitter
    <3>1. ~Unfilled
      BY <1>1, <1>4, <2>1 DEF NothingSent
    <3> QED BY <1>2, <3>1 DEF NothingSent, Unfilled
  <2>2. CASE p # Splitter
    <3>1. At(Splitter, "component")' = At(Splitter, "component")
      BY <1>3, <1>4, <2>2, TwoPorts, Moving
    <3> QED BY <1>2, <1>4, <1>6, <2>2, <3>1, TwoPorts DEF NothingSent, Unfilled
  <2> QED BY <2>1, <2>2
<1>11. PortInv(p)'
  <2>1. CallbackHolds(p)'
    <3>1. header'[h] = "callback" /\ callback'[p].pc = "run" /\ callback'[p].header = h
          /\ (callback'[p].last => p = Encoder)
      BY <1>1, <1>3, <1>4, <1>6 DEF Types
    <3> QED BY <1>3, <3>1 DEF CallbackHolds
  <2>2. Busy(p) = 0 /\ Busy(p)' = 1 /\ Spare(p) = 0 /\ Spare(p)' = 0
    BY <1>2, <1>6 DEF Busy, Spare
  <2>3. InTransit(p)'
    BY <1>2, <1>4, <1>5, <2>2 DEF PortInv, InTransit
  <2>4. LeftToFill(p)'
    BY <1>2, <1>4, <1>5, <2>2 DEF PortInv, LeftToFill, Filled, Count
  <2>5. NoneLost(p)'
    BY <1>2, <1>4, <1>5 DEF PortInv, NoneLost
  <2> QED BY <2>1, <2>3, <2>4, <2>5 DEF PortInv
<1>12. \A q \in Ports \ {p} : PortInv(q)'
  BY <1>2, <1>3, <1>4, <1>6, OtherPort DEF SInv
<1> QED BY <1>7, <1>8, <1>9, <1>10, <1>11, <1>12 DEF SInv

\* After the first step a callback changes only its own state and where its
\* header is.
CallbackSteps(p) ==
    /\ callback[p].pc \in {"run", "released", "send", "finish"}
    /\ UNCHANGED <<usestills, stop, worker, built, capturing>>
    /\ \A q \in Ports \ {p} : callback'[q] = callback[q] /\ port'[q] = port[q]
    /\ port'[p] = [port[p] EXCEPT !.transit = port'[p].transit]

\* So what is said of the rest of the system stays true.
LEMMA StepsKeep ==
    ASSUME SInv, NEW p \in Ports, CallbackSteps(p), NEW a \in Places, NEW b \in Places, a # b,
           Moves(p, a, b) \/ UNCHANGED header,
           callback' \in [Ports -> Callbacks], port' \in [Ports -> PortStates],
           complete' \in -2 .. 1, chunks' \in 0 .. MaxChunks - 1, \A q \in Ports : Whole(q)', PortInv(p)',
           port[Encoder].transit = 0 => port'[Encoder].transit = 0,
           \/ complete' = complete /\ callback'[p].last = callback[p].last /\ callback'[p].pc # "idle"
           \/ /\ callback'[p] = Idle
              /\ complete' = IF ~callback[p].last THEN complete
                             ELSE IF complete < 0 THEN -2
                             ELSE IF usestills THEN complete + 1 ELSE complete
    PROVE  SInv'
<1>1. Types /\ Opened /\ Posted /\ NothingSent
  BY DEF SInv
<1>2. header' \in [AllHeaders -> Places]
  BY <1>1, Moving DEF Types
<1>3. Types'
  BY <1>1, <1>2 DEF CallbackSteps, Types
<1>4. \A q \in Ports : port'[q].enabled = port[q].enabled /\ port'[q].draining = port[q].draining
  BY <1>1 DEF CallbackSteps, Types, PortStates
<1>5. Opened'
  BY <1>1, <1>4, TwoPorts DEF Opened, CallbackSteps
<1>6. Posted'
  <2>1. CASE p = Encoder
    <3>1. callback[Encoder] # Idle
      BY <2>1 DEF CallbackSteps, Idle
    <3>2. worker.pc \notin Early \cup {"enable"} \cup Filling
          /\ (worker.pc = "delete" => ~usestills)
      BY <1>1, <3>1 DEF Posted
    <3>3. worker.pc = "await" =>
            /\ complete = 0 /\ usestills /\ (capturing <=> ~callback[Encoder].last)
            /\ callback[Encoder].last \in BOOLEAN /\ Idle.last = FALSE
      BY <1>1, <2>1, <3>1 DEF Posted, Types, Callbacks, Idle
    <3>4. worker.pc = "await" =>
            \/ complete' = 0 /\ capturing /\ ~callback'[Encoder].last
            \/ complete' = 0 /\ ~capturing /\ callback'[Encoder].last
            \/ complete' = 1 /\ ~capturing /\ callback'[Encoder] = Idle
      BY <2>1, <3>3
    <3>5. complete < 0 => complete' < 0
      BY <1>1 DEF Types
    <3> QED BY <1>1, <3>2, <3>3, <3>4, <3>5 DEF Posted, CallbackSteps
  <2>2. CASE p # Encoder
    <3>1. complete' = complete
      BY <1>1, <2>2 DEF Types, Whole
    <3>2. callback'[Encoder] = callback[Encoder]
      BY <2>2, TwoPorts DEF CallbackSteps
    <3> QED BY <1>1, <3>1, <3>2 DEF Posted, CallbackSteps
  <2> QED BY <2>1, <2>2
<1>7. NothingSent'
  <2>1. CASE p = Splitter
    <3>1. ~Unfilled
      BY <1>1, <2>1 DEF NothingSent, CallbackSteps, Idle
    <3> QED BY <3>1 DEF NothingSent, Unfilled, CallbackSteps
  <2>2. CASE p # Splitter
    <3>1. At(Splitter, "component")' = At(Splitter, "component")
      <4>1. "component" \in Places /\ Splitter \in Ports \ {p}
        BY <2>2, TwoPorts DEF Places
      <4>2. CASE Moves(p, a, b)
        BY <1>1, <4>1, <4>2, Moving
      <4>3. CASE UNCHANGED header
        BY <4>3 DEF At
      <4> QED BY <4>2, <4>3
    <3>2. callback'[Splitter] = callback[Splitter]
      BY <2>2, TwoPorts DEF CallbackSteps
    <3> QED BY <1>1, <3>1, <3>2 DEF NothingSent, Unfilled, CallbackSteps
  <2> QED BY <2>1, <2>2
<1>8. \A q \in Ports \ {p} : PortInv(q)'
  BY <1>1, OtherPort DEF SInv, CallbackSteps
<1> QED BY <1>3, <1>5, <1>6, <1>7, <1>8 DEF SInv

\* A callback that goes on, and keeps nothing but whether a picture ends.
LEMMA StepsOn ==
    ASSUME Types, NEW p \in Ports, NEW pc \in {"released", "finish"},
           callback' = [callback EXCEPT ![p] = [Idle EXCEPT !.pc = pc, !.last = callback[p].last]]
    PROVE  /\ callback' \in [Ports -> Callbacks] /\ callback'[p].pc = pc
           /\ callback'[p].last = callback[p].last /\ callback'[p].data = FALSE
           /\ \A q \in Ports \ {p} : callback'[q] = callback[q]
<1>1. callback \in [Ports -> Callbacks] /\ callback[p].last \in BOOLEAN
  BY DEF Types, Callbacks
<1> DEFINE r == [Idle EXCEPT !.pc = pc, !.last = callback[p].last]
<1>2. Idle \in Callbacks /\ Idle.data = FALSE
  BY DEF Idle, Callbacks
<1>3. r \in Callbacks /\ r.pc = pc /\ r.last = callback[p].last /\ r.data = FALSE
  BY <1>1, <1>2 DEF Callbacks
<1>4. callback'[p] = r /\ \A q \in Ports \ {p} : callback'[q] = callback[q]
  BY <1>1
<1>5. callback' \in [Ports -> Callbacks]
  BY <1>1, <1>3
<1> HIDE DEF r
<1> QED BY <1>3, <1>4, <1>5

\* Where the chunks stay as they are and no data comes, pictures end in time.
LEMMA WholeStays ==
    ASSUME Types, NEW p \in Ports, UNCHANGED chunks,
           callback'[p].last => callback[p].last,
           callback'[p].data = FALSE \/ (callback'[p].data = callback[p].data /\ callback[p].pc # "run"),
           \A q \in Ports \ {p} : callback'[q] = callback[q]
    PROVE  chunks' \in 0 .. MaxChunks - 1 /\ \A q \in Ports : Whole(q)'
<1>1. \A q \in Ports : Whole(q)
  BY DEF Types
<1>2. Whole(p)'
  BY <1>1 DEF Whole
<1>3. \A q \in Ports \ {p} : Whole(q)'
  BY <1>1 DEF Whole
<1> QED BY <1>2, <1>3 DEF Types

\* A released header is the one that the queue has too many.
LEMMA ReleasesKeeps ==
    ASSUME SInv, NEW p \in Ports, Releases(p)
    PROVE  SInv'
<1> DEFINE h == callback[p].header
<1>1. /\ callback[p].pc = "run" /\ header' = [header EXCEPT ![h] = "queue"]
      /\ callback' = [callback EXCEPT ![p] =
                         [Idle EXCEPT !.pc = "released", !.last = callback[p].last]]
      /\ chunks' = IF callback[p].last THEN 0 ELSE IF callback[p].data THEN chunks + 1 ELSE chunks
      /\ UNCHANGED <<port, usestills, stop, worker, built, capturing, complete>>
  BY DEF Releases, mmal_buffer_header_release
<1>2. Types /\ PortInv(p)
  BY DEF SInv
<1>3. h \in Headers[p] /\ header[h] = "callback"
  BY <1>1, <1>2 DEF PortInv, CallbackHolds
<1>4. Moves(p, "callback", "queue")
  BY <1>1, <1>3 DEF Moves
<1>5. "callback" \in Places /\ "queue" \in Places
  BY DEF Places
<1>6. /\ Count(p, "queue") \in Nat /\ Count(p, "queue")' = Count(p, "queue") + 1
      /\ At(p, "component")' = At(p, "component") /\ At(p, "lost")' = At(p, "lost")
  BY <1>2, <1>4, <1>5, Moving DEF Places
<1>7. /\ callback' \in [Ports -> Callbacks] /\ callback'[p].pc = "released"
      /\ callback'[p].last = callback[p].last /\ callback'[p].data = FALSE
      /\ \A q \in Ports \ {p} : callback'[q] = callback[q]
  BY <1>1, <1>2, StepsOn
<1>12. chunks' \in 0 .. MaxChunks - 1 /\ \A q \in Ports : Whole(q)'
  <2>1. chunks \in 0 .. MaxChunks - 1 /\ \A q \in Ports : Whole(q)
    BY <1>2 DEF Types
  <2>2. chunks' \in 0 .. MaxChunks - 1
    BY <1>1, <2>1, WorkerAssumption DEF Whole
  <2>3. \A q \in Ports : q # p => callback[q].data = FALSE \/ chunks' = chunks
    BY <1>1, <1>2, <2>1 DEF Types, Callbacks, Whole
  <2>4. \A q \in Ports : Whole(q)'
    BY <1>7, <2>1, <2>3 DEF Whole
  <2> QED BY <2>2, <2>4
<1>8. CallbackSteps(p)
  BY <1>1, <1>2, <1>7 DEF CallbackSteps, Types, PortStates
<1>9. Busy(p) = 1 /\ Busy(p)' = 1 /\ Spare(p) = 0 /\ Spare(p)' = 1
  BY <1>1, <1>7 DEF Busy, Spare
<1>10. PortInv(p)'
  <2>1. CallbackHolds(p)'
    BY <1>2, <1>7 DEF CallbackHolds, PortInv
  <2>2. InTransit(p)'
    BY <1>1, <1>2, <1>6, <1>9 DEF PortInv, InTransit, Count
  <2>3. LeftToFill(p)'
    BY <1>1, <1>2, <1>6, <1>9 DEF PortInv, LeftToFill, Filled, Types, WorkerStates
  <2>4. NoneLost(p)'
    BY <1>1, <1>2, <1>6 DEF PortInv, NoneLost
  <2> QED BY <2>1, <2>2, <2>3, <2>4 DEF PortInv
<1>11. port' \in [Ports -> PortStates] /\ complete' \in -2 .. 1
       /\ (port[Encoder].transit = 0 => port'[Encoder].transit = 0)
       /\ complete' = complete /\ callback'[p].last = callback[p].last /\ callback'[p].pc # "idle"
  BY <1>1, <1>2, <1>7 DEF Types
<1> QED BY <1>4, <1>5, <1>7, <1>8, <1>10, <1>11, <1>12, StepsKeep

\* The callback finds in the queue at least the header it has released, while
\* the port is open; on a closed port nothing is said of the queue.
LEMMA GetsKeeps ==
    ASSUME SInv, NEW p \in Ports, Gets(p)
    PROVE  SInv'
<1>1. /\ callback[p].pc = "released"
      /\ UNCHANGED <<port, usestills, stop, worker, built, capturing, chunks, complete>>
  BY DEF Gets
<1>2. Types /\ PortInv(p) /\ Opened
  BY DEF SInv
<1>3. port' \in [Ports -> PortStates] /\ complete' \in -2 .. 1
      /\ (port[Encoder].transit = 0 => port'[Encoder].transit = 0) /\ complete' = complete
  BY <1>1, <1>2 DEF Types
<1>4. "again" \in Places /\ "queue" \in Places
  BY DEF Places
<1>5. CASE port[p].enabled /\ At(p, "queue") # {}
  <2>1. PICK h \in Headers[p] :
          /\ header[h] = "queue" /\ header' = [header EXCEPT ![h] = "again"]
          /\ callback' = [callback EXCEPT ![p].pc = "send", ![p].header = h]
    BY <1>5 DEF Gets, mmal_queue_get
  <2>2. Moves(p, "queue", "again") /\ h \in AllHeaders
    BY <2>1 DEF Moves, AllHeaders
  <2>3. /\ Count(p, "queue") \in Nat /\ Count(p, "queue")' = Count(p, "queue") - 1
        /\ At(p, "component")' = At(p, "component") /\ At(p, "lost")' = At(p, "lost")
    BY <1>2, <1>4, <2>2, Moving DEF Places
  <2>4. callback' = [callback EXCEPT ![p] = [callback[p] EXCEPT !.pc = "send", !.header = h]]
    BY <2>1
  <2>5. /\ callback' \in [Ports -> Callbacks] /\ callback'[p].pc = "send"
        /\ callback'[p].header = h /\ callback'[p].last = callback[p].last
        /\ callback'[p].data = callback[p].data
        /\ \A q \in Ports \ {p} : callback'[q] = callback[q]
    BY <1>2, <2>2, <2>4 DEF Types, Callbacks
  <2>6. CallbackSteps(p)
    BY <1>1, <1>2, <2>5 DEF CallbackSteps, Types, PortStates
  <2>7. Busy(p) = 1 /\ Busy(p)' = 1 /\ Spare(p) = 1 /\ Spare(p)' = 0
    BY <1>1, <2>5 DEF Busy, Spare
  <2>8. PortInv(p)'
    <3>1. CallbackHolds(p)'
      BY <1>2, <2>1, <2>2, <2>5 DEF CallbackHolds, PortInv, Types
    <3>2. InTransit(p)'
      BY <1>1, <1>2, <2>3, <2>7 DEF PortInv, InTransit, Count
    <3>3. LeftToFill(p)'
      BY <1>1, <1>2, <2>3, <2>7 DEF PortInv, LeftToFill, Filled, Types, WorkerStates
    <3>4. NoneLost(p)'
      BY <1>1, <1>2, <2>3 DEF PortInv, NoneLost
    <3> QED BY <3>1, <3>2, <3>3, <3>4 DEF PortInv
  <2>9. chunks' \in 0 .. MaxChunks - 1 /\ \A q \in Ports : Whole(q)'
    BY <1>1, <1>2, <2>5, WholeStays
  <2> QED BY <1>3, <1>4, <2>2, <2>5, <2>6, <2>8, <2>9, StepsKeep
<1>6. CASE ~(port[p].enabled /\ At(p, "queue") # {})
  <2>1. callback' = [callback EXCEPT ![p].pc = "finish"] /\ UNCHANGED header
    BY <1>6 DEF Gets
  <2>2. /\ callback' \in [Ports -> Callbacks] /\ callback'[p].pc = "finish"
        /\ callback'[p].last = callback[p].last /\ callback'[p].data = callback[p].data
        /\ \A q \in Ports \ {p} : callback'[q] = callback[q]
    BY <1>2, <2>1 DEF Types, Callbacks
  <2>3. CallbackSteps(p)
    BY <1>1, <1>2, <2>2 DEF CallbackSteps, Types, PortStates
  <2>4. Busy(p) = 1 /\ Busy(p)' = 1 /\ Spare(p) = 1
    BY <1>1, <2>2 DEF Busy, Spare
  <2>5. \A x : At(p, x)' = At(p, x) /\ Count(p, x)' = Count(p, x)
    BY <2>1 DEF At, Count
  \* Otherwise the queue would hold the header that was released.
  <2>6. ~Filled(p) /\ ~(worker.pc \in {"get", "send"} /\ worker.port = p)
    <3>1. Count(p, "queue") = 0 <=> At(p, "queue") = {}
      BY Counted
    <3>2. SUFFICES ASSUME Filled(p) \/ (worker.pc \in {"get", "send"} /\ worker.port = p)
                   PROVE  FALSE
      OBVIOUS
    <3>3. worker.pc \in {"capture", "await", "sleep", "get", "send"} /\ worker.left \in Nat
      BY <1>2, <3>2 DEF Filled, Types, WorkerStates
    <3>4. port[p].enabled
      BY <1>2, <3>3, TwoPorts DEF Opened, Filling, Early
    <3>5. At(p, "queue") = {}
      BY <1>6, <3>4
    <3> QED BY <1>2, <2>4, <3>1, <3>2, <3>3, <3>5 DEF PortInv, LeftToFill
  <2>7. PortInv(p)'
    <3>1. CallbackHolds(p)'
      BY <1>2, <2>2 DEF CallbackHolds, PortInv
    <3>2. InTransit(p)'
      BY <1>1, <1>2, <2>4, <2>5 DEF PortInv, InTransit
    <3>3. LeftToFill(p)'
      BY <1>1, <2>6 DEF LeftToFill, Filled
    <3>4. NoneLost(p)'
      BY <1>1, <1>2, <2>5 DEF PortInv, NoneLost
    <3> QED BY <3>1, <3>2, <3>3, <3>4 DEF PortInv
  <2>8. chunks' \in 0 .. MaxChunks - 1 /\ \A q \in Ports : Whole(q)'
    BY <1>1, <1>2, <2>2, WholeStays
  <2> QED BY <1>3, <1>4, <2>1, <2>2, <2>3, <2>7, <2>8, StepsKeep
<1> QED BY <1>5, <1>6

\* A header that is sent back counts twice until the callback ends; one that is
\* not taken counts no more, and only a closed port refuses it.
LEMMA SendsBackKeeps ==
    ASSUME SInv, NEW p \in Ports, SendsBack(p)
    PROVE  SInv'
<1> DEFINE h == callback[p].header
<1>1. /\ callback[p].pc = "send"
      /\ callback' = [callback EXCEPT ![p] = [Idle EXCEPT !.pc = "finish", !.last = callback[p].last]]
      /\ UNCHANGED <<usestills, stop, worker, built, capturing, chunks, complete>>
  BY DEF SendsBack
<1>2. Types /\ PortInv(p) /\ Opened
  BY DEF SInv
<1>3. h \in Headers[p] /\ header[h] = "again"
  BY <1>1, <1>2 DEF PortInv, CallbackHolds
<1>4. {"again", "component", "failed", "lost", "queue"} \subseteq Places
  BY DEF Places
<1>5. /\ callback' \in [Ports -> Callbacks] /\ callback'[p].pc = "finish"
      /\ callback'[p].last = callback[p].last /\ callback'[p].data = FALSE
      /\ \A q \in Ports \ {p} : callback'[q] = callback[q]
  BY <1>1, <1>2, StepsOn
<1>6. Busy(p) = 1 /\ Busy(p)' = 1 /\ Spare(p) = 0 /\ Spare(p)' = 0
  BY <1>1, <1>5 DEF Busy, Spare
<1>7. CallbackHolds(p)'
  BY <1>2, <1>5 DEF CallbackHolds, PortInv
<1>8. /\ complete' \in -2 .. 1 /\ complete' = complete
      /\ chunks' \in 0 .. MaxChunks - 1 /\ \A q \in Ports : Whole(q)'
  BY <1>1, <1>2, <1>5, WholeStays DEF Types
<1> DEFINE Taken == /\ header' = [header EXCEPT ![h] = "component"]
                    /\ port' = [port EXCEPT ![p].transit = @ + 1]
<1>9. CASE Taken
  <2>1. Taken
    BY <1>9
  <2>2. Moves(p, "again", "component")
    BY <1>3, <2>1 DEF Moves
  <2>3. /\ Count(p, "component") \in Nat /\ Count(p, "component")' = Count(p, "component") + 1
        /\ At(p, "queue")' = At(p, "queue") /\ At(p, "lost")' = At(p, "lost")
    BY <1>2, <1>4, <2>2, Moving DEF Places
  <2>4. port[p] \in PortStates /\ port[p].transit \in Int
    BY <1>2 DEF Types, PortStates
  <2>5. port'[p] = [port[p] EXCEPT !.transit = port[p].transit + 1]
        /\ \A q \in Ports \ {p} : port'[q] = port[q]
    BY <1>2, <2>1 DEF Types
  <2>6. port' \in [Ports -> PortStates] /\ port'[p].transit = port[p].transit + 1
    BY <1>2, <2>1, <2>4, <2>5 DEF Types, PortStates
  <2>7. CallbackSteps(p)
    BY <1>1, <1>5, <2>5, <2>6 DEF CallbackSteps
  <2>8. port[Encoder].transit = 0 => port'[Encoder].transit = 0
    <3>1. Count(p, "component") + 1 # 0
      BY <2>3
    <3>2. port[p].transit # 0
      BY <1>2, <1>6, <3>1 DEF PortInv, InTransit
    <3> QED BY <2>5, <3>2, TwoPorts
  <2>9. PortInv(p)'
    <3>1. InTransit(p)'
      BY <1>2, <1>6, <2>3, <2>6 DEF PortInv, InTransit
    <3>2. LeftToFill(p)'
      BY <1>1, <1>2, <1>6, <2>3 DEF PortInv, LeftToFill, Filled, Count
    <3>3. NoneLost(p)'
      BY <1>1, <1>2, <2>3 DEF PortInv, NoneLost
    <3> QED BY <1>7, <3>1, <3>2, <3>3 DEF PortInv
  <2> QED BY <1>4, <1>5, <1>8, <2>2, <2>6, <2>7, <2>8, <2>9, StepsKeep
<1>10. ASSUME NEW place \in {"failed", "lost"}, place = "failed" <=> port[p].enabled,
              header' = [header EXCEPT ![h] = place], UNCHANGED port
       PROVE  SInv'
  <2>1. header' = [header EXCEPT ![h] = place] /\ UNCHANGED port /\ place \in Places
    BY <1>4, <1>10
  <2>2. Moves(p, "again", place)
    BY <1>3, <2>1 DEF Moves
  <2>3. /\ At(p, "queue")' = At(p, "queue") /\ At(p, "component")' = At(p, "component")
        /\ place = "failed" => At(p, "lost")' = At(p, "lost")
    BY <1>2, <1>4, <1>10, <2>1, <2>2, Moving DEF Places
  <2>4. CallbackSteps(p)
    BY <1>1, <1>2, <1>5, <2>1 DEF CallbackSteps, Types, PortStates
  <2>5. ~port[p].enabled => worker.pc \in Late \cup {"exit"}
    <3> SUFFICES ASSUME ~port[p].enabled PROVE worker.pc \in Late \cup {"exit"}
      OBVIOUS
    <3>1. CASE p = Encoder
      <4>1. worker.pc \notin Early \cup {"enable"}
        BY <1>1, <3>1 DEF SInv, Posted, Idle
      <4> QED BY <1>2, <3>1, <4>1 DEF Opened, Types, WorkerStates, Pcs
    <3>2. CASE p = Splitter
      <4>1. ~Unfilled
        BY <1>1, <3>2 DEF SInv, NothingSent, Idle
      <4> QED BY <1>2, <3>2, <4>1 DEF Opened, Unfilled
    <3> QED BY <3>1, <3>2, TwoPorts
  <2>6. PortInv(p)'
    <3>1. InTransit(p)'
      BY <1>2, <1>6, <2>1, <2>3 DEF PortInv, InTransit, Count
    <3>2. LeftToFill(p)'
      BY <1>1, <1>2, <1>6, <2>3 DEF PortInv, LeftToFill, Filled, Count
    <3>3. NoneLost(p)'
      BY <1>1, <1>2, <1>10, <2>3, <2>5 DEF NoneLost, PortInv
    <3> QED BY <1>7, <3>1, <3>2, <3>3 DEF PortInv
  <2>7. port' \in [Ports -> PortStates] /\ (port[Encoder].transit = 0 => port'[Encoder].transit = 0)
    BY <1>2, <2>1 DEF Types
  <2>8. "again" \in Places /\ "again" # place
    BY <1>4, <1>10
  <2> QED BY <1>5, <1>8, <2>1, <2>2, <2>4, <2>6, <2>7, <2>8, StepsKeep
<1>11. \/ Taken
       \/ header' = [header EXCEPT ![h] = IF port[p].enabled THEN "failed" ELSE "lost"] /\ UNCHANGED port
  BY DEF SendsBack, mmal_port_send_buffer
<1> QED BY <1>9, <1>10, <1>11

\* With its end the callback's header no longer counts, and the last one of a
\* picture posts the semaphore, which nobody has posted since it was awaited.
LEMMA FinishesKeeps ==
    ASSUME SInv, Running, NEW p \in Ports, Finishes(p)
    PROVE  SInv'
<1>1. /\ callback[p].pc = "finish" /\ callback' = [callback EXCEPT ![p] = Idle]
      /\ port' = [port EXCEPT ![p].transit = @ - 1]
      /\ complete' = IF ~callback[p].last THEN complete
                     ELSE IF complete < 0 THEN -2
                     ELSE IF usestills THEN complete + 1 ELSE complete
      /\ UNCHANGED <<header, usestills, stop, worker, built, capturing, chunks>>
  BY DEF Finishes, CallbackEnds
<1>2. Types /\ PortInv(p) /\ Opened /\ Posted
  BY DEF SInv
<1>3. Idle \in Callbacks
  BY DEF Idle, Callbacks
<1>4. /\ callback' \in [Ports -> Callbacks] /\ callback'[p] = Idle
      /\ \A q \in Ports \ {p} : callback'[q] = callback[q]
  BY <1>1, <1>2, <1>3 DEF Types
<1>5. Idle.pc = "idle" /\ Idle.last = FALSE /\ Idle.data = FALSE
  BY DEF Idle
<1>6. Busy(p) = 1 /\ Busy(p)' = 0 /\ Spare(p) = 0 /\ Spare(p)' = 0
  BY <1>1, <1>4, <1>5 DEF Busy, Spare
<1>7. \A x : At(p, x)' = At(p, x) /\ Count(p, x)' = Count(p, x)
  BY <1>1 DEF At, Count
<1>8. Count(p, "component") \in Nat
  BY Counted
<1>9. port[p] \in PortStates /\ port[p].transit \in Int /\ port[p].transit = Count(p, "component") + 1
  BY <1>2, <1>6 DEF Types, PortStates, PortInv, InTransit
<1>10. port'[p] = [port[p] EXCEPT !.transit = Count(p, "component")]
       /\ \A q \in Ports \ {p} : port'[q] = port[q]
  BY <1>1, <1>2, <1>8, <1>9 DEF Types
<1>11. port' \in [Ports -> PortStates] /\ port'[p].transit = Count(p, "component")
  BY <1>1, <1>2, <1>8, <1>9, <1>10 DEF Types, PortStates
<1>12. CallbackSteps(p)
  BY <1>1, <1>4, <1>10, <1>11 DEF CallbackSteps
<1>13. complete' \in -2 .. 1
  <2>1. CASE callback[p].last /\ usestills /\ complete >= 0
    <3>1. p = Encoder /\ callback[Encoder] # Idle
      BY <1>1, <1>2, <1>5, <2>1 DEF Types, Whole
    <3>2. complete \in -2 .. 1 /\ worker.pc \in Pcs
      BY <1>2 DEF Types, WorkerStates
    <3>3. complete # 1
      <4>1. worker.pc # "exit" /\ ~(worker.pc \in {"sleep", "delete"})
        BY <1>2, <2>1, <3>1 DEF Posted, Running
      <4> QED BY <1>2, <2>1, <3>1, <3>2, <4>1 DEF Posted, Pcs
    <3> QED BY <1>1, <2>1, <3>2, <3>3
  <2> QED BY <1>1, <1>2, <2>1 DEF Types
<1>14. port[Encoder].transit = 0 => port'[Encoder].transit = 0
  BY <1>8, <1>9, <1>10, TwoPorts
<1>15. PortInv(p)'
  <2>1. CallbackHolds(p)'
    BY <1>4, <1>5 DEF CallbackHolds
  <2>2. InTransit(p)'
    BY <1>6, <1>7, <1>8, <1>11 DEF InTransit
  <2>3. LeftToFill(p)'
    BY <1>1, <1>2, <1>6, <1>7 DEF PortInv, LeftToFill, Filled
  <2>4. NoneLost(p)'
    BY <1>1, <1>2, <1>7 DEF PortInv, NoneLost
  <2> QED BY <2>1, <2>2, <2>3, <2>4 DEF PortInv
<1>16. "queue" \in Places /\ "lost" \in Places /\ "queue" # "lost"
  BY DEF Places
<1>17. chunks' \in 0 .. MaxChunks - 1 /\ \A q \in Ports : Whole(q)'
  BY <1>1, <1>2, <1>4, <1>5, WholeStays
<1> QED BY <1>1, <1>4, <1>11, <1>12, <1>13, <1>14, <1>15, <1>16, <1>17, StepsKeep

-----------------------------------------------------------------------------
(* The worker *)

\* While no header and no callback changes, a port keeps its part of the
\* invariant if the worker does not change what it has filled.
LEMMA HeadersStay ==
    ASSUME SInv, UNCHANGED <<header, callback, usestills>>, NEW p \in Ports,
           port'[p].transit = port[p].transit, LeftToFill(p)', NoneLost(p)'
    PROVE  PortInv(p)'
<1>1. CallbackHolds(p)'
  BY DEF SInv, PortInv, CallbackHolds
<1>2. InTransit(p)'
  BY DEF SInv, PortInv, InTransit, Count, At, Busy
<1> QED BY <1>1, <1>2 DEF PortInv

\* Nothing is filled before the worker comes to it.
LEMMA NothingLeft ==
    ASSUME NEW p \in Ports, SInv, UNCHANGED <<header, callback, usestills>>,
           worker.pc \notin Late \cup {"exit"},
           worker'.pc \notin {"get", "send", "capture", "await", "sleep"}
    PROVE  LeftToFill(p)' /\ NoneLost(p)'
BY DEF SInv, PortInv, LeftToFill, Filled, NoneLost, At

\* Until the ports are filled, the worker's steps open ports and fail.
LEMMA StartsKeep ==
    ASSUME SInv, Starts
    PROVE  SInv'
<1>1. Types /\ Opened /\ Posted /\ NothingSent
  BY DEF SInv
<1>2. /\ UNCHANGED <<header, usestills, stop, capturing, chunks, complete, callback>>
      /\ worker.pc \in Early \cup {"enable"}
  BY DEF Starts, CreatesComponents, ConnectsSplitter, ConnectsEncoder, EnablesSplitter,
         EnablesEncoder, unchangedByStart, Early
<1>3. PICK pc \in Early \cup {"enable", "fill", "delete", "exit"} : worker' = [worker EXCEPT !.pc = pc]
  BY DEF Starts, CreatesComponents, ConnectsSplitter, ConnectsEncoder, EnablesSplitter,
         EnablesEncoder, Goes, Early
<1>4. worker' \in WorkerStates /\ worker'.pc = pc
  BY <1>1, <1>3 DEF Types, WorkerStates, Pcs, Filling
<1>5. \/ UNCHANGED port /\ worker.pc \in Early /\ pc \in Early \cup {"exit"}
      \/ UNCHANGED port /\ pc = "exit"
      \/ worker.pc = "check" /\ pc = "enable" /\ mmal_port_enable({Splitter})
      \/ /\ worker.pc = "enable" /\ pc \in {"fill", "delete"} /\ mmal_port_enable({Encoder})
         /\ pc = "delete" => usestills
  <2>1. \A x : Goes(x) => pc = x
    BY <1>1, <1>3 DEF Goes, Types, WorkerStates
  <2>2. CASE CreatesComponents \/ ConnectsSplitter \/ ConnectsEncoder
    BY <2>1, <2>2 DEF CreatesComponents, ConnectsSplitter, ConnectsEncoder, Early
  <2>3. CASE EnablesSplitter
    BY <2>1, <2>3 DEF EnablesSplitter
  <2>4. CASE EnablesEncoder
    BY <2>1, <2>4 DEF EnablesEncoder
  <2> QED BY <2>2, <2>3, <2>4 DEF Starts
<1>6. \A ps : mmal_port_enable(ps) =>
        /\ port' \in [Ports -> PortStates]
        /\ \A p \in Ports : /\ port'[p].transit = port[p].transit
                            /\ port'[p].draining = port[p].draining
                            /\ port'[p].enabled = (port[p].enabled \/ p \in ps)
  <2> SUFFICES ASSUME NEW ps, mmal_port_enable(ps)
               PROVE  /\ port' \in [Ports -> PortStates]
                      /\ \A p \in Ports : /\ port'[p].transit = port[p].transit
                                          /\ port'[p].draining = port[p].draining
                                          /\ port'[p].enabled = (port[p].enabled \/ p \in ps)
    OBVIOUS
  <2>1. \A p \in Ports :
          /\ port[p] \in PortStates
          /\ port'[p] = IF p \in ps /\ ~port[p].enabled
                        THEN [port[p] EXCEPT !.enabled = TRUE, !.callback = TRUE] ELSE port[p]
    BY <1>1 DEF mmal_port_enable, Types
  <2>2. \A p \in Ports :
          /\ port'[p] \in PortStates
          /\ port'[p].transit = port[p].transit
          /\ port'[p].draining = port[p].draining
          /\ port'[p].enabled = (port[p].enabled \/ p \in ps)
    BY <2>1 DEF PortStates
  <2> QED BY <2>2 DEF mmal_port_enable
<1>7. /\ port' \in [Ports -> PortStates]
      /\ \A p \in Ports : /\ port'[p].transit = port[p].transit
                          /\ port'[p].draining = port[p].draining
  BY <1>1, <1>5, <1>6 DEF Types
<1>8. Types'
  BY <1>1, <1>2, <1>4, <1>7 DEF Types, Whole
<1>9. Opened'
  <2>1. \A p \in Ports : ~port'[p].draining
    BY <1>1, <1>2, <1>7 DEF Opened, Early
  <2>2. pc \notin Early \cup {"exit"} => port'[Splitter].enabled
    BY <1>1, <1>2, <1>5, <1>6, TwoPorts DEF Opened, Early
  <2>3. pc \in {"fill", "delete"} => port'[Encoder].enabled
    BY <1>5, <1>6, TwoPorts DEF Early
  <2> QED BY <1>4, <2>1, <2>2, <2>3 DEF Opened, Early, Filling, Late
<1>10. Posted'
  BY <1>1, <1>2, <1>4, <1>5 DEF Posted, Early, Filling, Late
<1>11. NothingSent'
  BY <1>1, <1>2, <1>4 DEF NothingSent, Unfilled, At, Early
<1>12. \A p \in Ports : PortInv(p)'
  BY <1>2, <1>4, <1>7, HeadersStay, NothingLeft DEF Early, Late
<1> QED BY <1>8, <1>9, <1>10, <1>11, <1>12 DEF SInv

\* A step of the worker alone, which touches neither headers nor ports.
LEMMA ControlKeeps ==
    ASSUME SInv, UNCHANGED <<header, callback, usestills, port>>,
           Types', Opened', Posted', Unfilled' => Unfilled,
           worker'.pc \in {"get", "send"} /\ worker'.port = Splitter => ~usestills,
           \A p \in Ports : LeftToFill(p)' /\ NoneLost(p)'
    PROVE  SInv'
<1>1. NothingSent'
  BY DEF SInv, NothingSent, At
<1>2. \A p \in Ports : PortInv(p)'
  BY HeadersStay
<1> QED BY <1>1, <1>2 DEF SInv

\* The count of the queue, taken while no callback of the port runs, is what
\* the worker may expect.
LEMMA FillsKeeps ==
    ASSUME SInv, Fills
    PROVE  SInv'
<1>1. /\ worker.pc = "fill"
      /\ worker' = [pc |-> "get", port |-> Encoder, left |-> Count(Encoder, "queue")]
      /\ UNCHANGED <<header, port, usestills, stop, built, capturing, chunks, complete, callback>>
  BY DEF Fills, StartsFilling, Count, unchangedByFill
<1>2. Types /\ Opened /\ Posted
  BY DEF SInv
<1>3. Count(Encoder, "queue") \in Nat
  BY Counted, TwoPorts
<1>4. Types'
  BY <1>1, <1>2, <1>3, TwoPorts DEF Types, Whole, WorkerStates, Pcs, Filling
<1>5. Opened'
  BY <1>1, <1>2 DEF Opened, Filling, Early, Late
<1>6. Posted'
  BY <1>1, <1>2 DEF Posted, Filling, Early, Late
<1>7. Unfilled
  BY <1>1 DEF Unfilled
<1>8. Spare(Encoder) = 0 /\ Spare(Encoder)' = 0 /\ Count(Encoder, "queue")' = Count(Encoder, "queue")
  BY <1>1, <1>2 DEF Posted, Filling, Spare, Idle, Count, At
<1>9. \A p \in Ports : LeftToFill(p)'
  BY <1>1, <1>3, <1>8, TwoPorts DEF LeftToFill, Filled
<1>10. \A p \in Ports : NoneLost(p)'
  BY <1>1 DEF SInv, PortInv, NoneLost, Late, At
<1> QED BY <1>1, <1>4, <1>5, <1>6, <1>7, <1>9, <1>10, TwoPorts, ControlKeeps

\* When the worker has sent what it counted, the queue is empty but for what a
\* callback has just released.
LEMMA FillEndsKeeps ==
    ASSUME SInv, FillEnds
    PROVE  SInv'
<1>1. /\ worker.pc = "get" /\ worker.left = 0
      /\ UNCHANGED <<header, port, usestills, stop, built, capturing, chunks, complete, callback>>
  BY DEF FillEnds, unchangedByFill
<1>2. Types /\ Opened /\ Posted /\ NothingSent
  BY DEF SInv
<1>3. \A p \in Ports : Count(p, "queue") \in Nat /\ Spare(p) \in Nat
  BY Counted DEF Spare
<1>4. \A p \in Ports : Count(p, "queue")' = Count(p, "queue") /\ Spare(p)' = Spare(p)
  BY <1>1 DEF Count, At, Spare
<1>5. /\ Count(worker.port, "queue") = Spare(worker.port)
      /\ worker.port = Splitter => Count(Encoder, "queue") = Spare(Encoder)
  <2>1. \A p \in Ports : LeftToFill(p)
    BY DEF SInv, PortInv
  <2>2. worker.port \in Ports /\ Encoder \in Ports
    BY <1>2, TwoPorts DEF Types, WorkerStates
  <2> QED BY <1>1, <1>3, <2>1, <2>2 DEF LeftToFill, Filled
<1>6. /\ worker'.pc \in {"get", "capture"} /\ worker' \in WorkerStates
      /\ worker'.pc = "get" => worker.port = Encoder /\ ~usestills /\ worker'.port = Splitter
                               /\ worker'.left = Count(Splitter, "queue")
      /\ worker'.pc = "capture" => worker.port # Encoder \/ usestills
  <2>1. CASE worker.port = Encoder /\ ~usestills
    <3>1. worker' = [pc |-> "get", port |-> Splitter, left |-> Count(Splitter, "queue")]
      BY <2>1 DEF FillEnds, StartsFilling, Count
    <3> QED BY <1>3, <2>1, <3>1, TwoPorts DEF WorkerStates, Pcs, Filling
  <2>2. CASE ~(worker.port = Encoder /\ ~usestills)
    <3>1. worker' = [worker EXCEPT !.pc = "capture"]
      BY <2>2 DEF FillEnds, Goes
    <3> QED BY <1>2, <2>2, <3>1 DEF Types, WorkerStates, Pcs, Filling
  <2> QED BY <2>1, <2>2
<1>7. Types'
  BY <1>1, <1>2, <1>6 DEF Types, Whole
<1>8. Opened'
  BY <1>1, <1>2, <1>6 DEF Opened, Filling, Early, Late
<1>9. Posted'
  BY <1>1, <1>2, <1>6 DEF Posted, Filling, Early, Late
<1>10. Unfilled' => Unfilled
  BY <1>1, <1>6, TwoPorts DEF Unfilled, Early
<1>11. \A p \in Ports : LeftToFill(p)'
  <2>1. CASE worker'.pc = "get"
    <3>1. callback[Splitter] = Idle
      BY <1>1, <1>2, <1>6, <2>1 DEF NothingSent, Unfilled
    <3>2. Spare(Splitter) = 0
      BY <3>1 DEF Spare, Idle
    <3> QED BY <1>3, <1>4, <1>5, <1>6, <2>1, <3>2, TwoPorts DEF LeftToFill, Filled
  <2>2. CASE worker'.pc = "capture"
    <3>1. worker.port \in Ports
      BY <1>2 DEF Types, WorkerStates
    <3>2. \A p \in Ports : Filled(p)' => Count(p, "queue") = Spare(p)
      BY <1>1, <1>5, <1>6, <2>2, <3>1, TwoPorts DEF Filled
    <3> QED BY <1>4, <2>2, <3>2 DEF LeftToFill
  <2> QED BY <1>6, <2>1, <2>2
<1>12. \A p \in Ports : NoneLost(p)'
  BY <1>1 DEF SInv, PortInv, NoneLost, Late, At
<1> QED BY <1>1, <1>6, <1>7, <1>8, <1>9, <1>10, <1>11, <1>12, TwoPorts, ControlKeeps

\* The capture, the picture awaited, the stop and the deletion of the semaphore.
LEMMA CaptureKeeps ==
    ASSUME SInv, StartsCapture \/ AwaitsPicture \/ SleepsUntilStop \/ DeletesSemaphore
    PROVE  SInv'
<1>1. Types /\ Opened /\ Posted /\ NothingSent
  BY DEF SInv
<1>2. UNCHANGED <<header, port, usestills, stop, built, chunks, callback>>
  BY DEF StartsCapture, AwaitsPicture, SleepsUntilStop, DeletesSemaphore, unchangedByFill
<1>3. PICK pc \in {"sleep", "await", "exit", "fill", "delete", "disable"} : worker' = [worker EXCEPT !.pc = pc]
  BY DEF StartsCapture, AwaitsPicture, SleepsUntilStop, DeletesSemaphore, Goes
<1>4. worker' \in WorkerStates /\ worker'.pc = pc /\ worker'.port = worker.port
      /\ \A x : Goes(x) => pc = x
  BY <1>1, <1>3 DEF Types, WorkerStates, Pcs, Filling, Goes
\* What each of them does, in terms of the invariant.
<1>5. \/ /\ worker.pc = "capture" /\ capturing' \in BOOLEAN /\ complete' = complete
         /\ pc \in {"sleep", "await", "exit"} /\ (pc = "sleep" => ~usestills)
         /\ pc = "await" => usestills /\ capturing'
      \/ /\ worker.pc = "await" /\ complete > 0 /\ complete' = complete - 1
         /\ UNCHANGED capturing /\ pc \in {"fill", "delete"}
      \/ /\ worker.pc = "sleep" /\ UNCHANGED <<capturing, complete>> /\ pc = "delete"
      \/ /\ worker.pc = "delete" /\ complete' = -1 /\ UNCHANGED capturing /\ pc = "disable"
  <2>1. CASE StartsCapture
    BY <1>4, <2>1 DEF StartsCapture
  <2>2. CASE AwaitsPicture
    BY <1>4, <2>2 DEF AwaitsPicture
  <2>3. CASE SleepsUntilStop
    BY <1>4, <2>3 DEF SleepsUntilStop, unchangedByFill
  <2>4. CASE DeletesSemaphore
    BY <1>4, <2>4 DEF DeletesSemaphore
  <2> QED BY <2>1, <2>2, <2>3, <2>4
<1>6. capturing' \in BOOLEAN /\ complete' \in -2 .. 1
  BY <1>1, <1>5 DEF Types
<1>7. Types'
  BY <1>1, <1>2, <1>4, <1>6 DEF Types, Whole
<1>8. Opened'
  BY <1>1, <1>2, <1>4, <1>5 DEF Opened, Early, Filling, Late
<1>9. Posted'
  <2>1. CASE worker.pc = "capture"
    BY <1>1, <1>2, <1>4, <1>5, <2>1 DEF Posted, Early, Filling, Late, Idle
  <2>2. CASE worker.pc = "await"
    BY <1>1, <1>2, <1>4, <1>5, <2>2 DEF Posted, Early, Filling, Late
  <2>3. CASE worker.pc \in {"sleep", "delete"}
    BY <1>1, <1>2, <1>4, <1>5, <2>3 DEF Posted, Early, Filling, Late
  <2> QED BY <1>5, <2>1, <2>2, <2>3
<1>10. Unfilled' => Unfilled
  BY <1>1, <1>2, <1>4, <1>5 DEF Unfilled, Early, Posted
<1>11. \A p \in Ports : LeftToFill(p)'
  <2>1. \A p \in Ports : Filled(p)' => Filled(p)
    BY <1>2, <1>4, <1>5, TwoPorts DEF Filled
  <2>2. \A p \in Ports : Count(p, "queue")' = Count(p, "queue") /\ Spare(p)' = Spare(p)
    BY <1>2 DEF Count, At, Spare
  <2> QED BY <1>4, <2>1, <2>2 DEF SInv, PortInv, LeftToFill
<1>12. \A p \in Ports : NoneLost(p)'
  BY <1>2, <1>4, <1>5 DEF SInv, PortInv, NoneLost, Late, At
<1> QED BY <1>2, <1>4, <1>7, <1>8, <1>9, <1>10, <1>11, <1>12, ControlKeeps

\* Wherever the process exits, and wherever the signal comes.
LEMMA ExitKeeps ==
    ASSUME SInv, UNCHANGED <<header, port, usestills, capturing, chunks, complete, callback>>,
           \/ worker' = [worker EXCEPT !.pc = "exit"] /\ UNCHANGED stop
           \/ UNCHANGED worker /\ stop' \in BOOLEAN
    PROVE  SInv'
<1>1. Types /\ Opened /\ Posted /\ NothingSent
  BY DEF SInv
<1>2. CASE worker' = [worker EXCEPT !.pc = "exit"] /\ UNCHANGED stop
  <2>1. worker' \in WorkerStates /\ worker'.pc = "exit"
    BY <1>1, <1>2 DEF Types, WorkerStates, Pcs
  <2>2. Types'
    BY <1>1, <1>2, <2>1 DEF Types, Whole
  <2>3. Opened'
    BY <1>1, <2>1 DEF Opened, Filling, Late
  <2>4. Posted'
    BY <2>1 DEF Posted, Early, Filling, Late
  <2>5. Unfilled' => Unfilled
    BY <2>1 DEF Unfilled, Early
  <2>6. \A p \in Ports : LeftToFill(p)' /\ NoneLost(p)'
    BY <2>1 DEF LeftToFill, Filled, NoneLost
  <2> QED BY <2>1, <2>2, <2>3, <2>4, <2>5, <2>6, ControlKeeps
<1>3. CASE UNCHANGED worker /\ stop' \in BOOLEAN
  <2>1. Types' /\ Opened' /\ Posted' /\ NothingSent'
    BY <1>1, <1>3 DEF Types, Whole, Opened, Posted, NothingSent, Unfilled, At
  <2>2. \A p \in Ports : PortInv(p)'
    BY <1>3, KeepsPort DEF SInv, At
  <2> QED BY <2>1, <2>2 DEF SInv
<1> QED BY <1>2, <1>3

\* mmal_port_disable: the port takes no more, the component gives up what it
\* has, and the wait is over when nothing is in transit; or the component
\* refuses, and the port is open as before.
LEMMA DisablesKeep ==
    ASSUME SInv, DisablesEncoder
    PROVE  SInv'
<1>1. Types /\ Opened /\ Posted /\ NothingSent
  BY DEF SInv
<1>2. UNCHANGED <<header, usestills, stop, built, capturing, chunks, complete, callback>>
  BY DEF DisablesEncoder, unchangedByFill
<1>3. PICK pc \in {"drain", "wait", "destroy"} : worker' = [worker EXCEPT !.pc = pc]
  BY DEF DisablesEncoder, Goes
<1>4. worker' \in WorkerStates /\ worker'.pc = pc /\ (\A x : Goes(x) => pc = x)
  BY <1>1, <1>3 DEF Types, WorkerStates, Pcs, Late, Goes
<1>5. \/ worker.pc = "disable" /\ pc = "drain" /\ port' = [port EXCEPT ![Encoder].enabled = FALSE]
      \/ worker.pc = "drain" /\ pc = "wait" /\ port' = [port EXCEPT ![Encoder].draining = TRUE]
      \/ /\ worker.pc = "wait" /\ pc = "destroy" /\ port[Encoder].transit = 0
         /\ port' = [port EXCEPT ![Encoder].callback = FALSE]
      \/ worker.pc = "drain" /\ pc = "destroy" /\ port' = [port EXCEPT ![Encoder].enabled = TRUE]
  BY <1>4 DEF DisablesEncoder, DisableBegins, DisableComponent, DisableEnds, DisableFails
<1>6. /\ port' \in [Ports -> PortStates] /\ port'[Splitter] = port[Splitter]
      /\ port'[Encoder].transit = port[Encoder].transit
      /\ port'[Encoder].enabled = IF worker.pc = "disable" THEN FALSE
                                  ELSE IF worker.pc = "drain" /\ pc = "destroy" THEN TRUE
                                  ELSE port[Encoder].enabled
      /\ port'[Encoder].draining = IF worker.pc = "drain" /\ pc = "wait" THEN TRUE ELSE port[Encoder].draining
  <2>1. port \in [Ports -> PortStates] /\ Encoder \in Ports /\ Splitter \in Ports \ {Encoder}
    BY <1>1, TwoPorts DEF Types
  <2> DEFINE e == port[Encoder]
  <2>2. e \in PortStates
    BY <2>1
  <2>3. PICK r : /\ port' = [port EXCEPT ![Encoder] = r]
                 /\ r \in PortStates /\ r.transit = e.transit
                 /\ r.enabled = IF worker.pc = "disable" THEN FALSE
                                ELSE IF worker.pc = "drain" /\ pc = "destroy" THEN TRUE ELSE e.enabled
                 /\ r.draining = IF worker.pc = "drain" /\ pc = "wait" THEN TRUE ELSE e.draining
    <3>1. CASE worker.pc = "disable"
      <4> DEFINE r == [e EXCEPT !.enabled = FALSE]
      <4>1. port' = [port EXCEPT ![Encoder] = r]
        BY <1>5, <3>1
      <4>2. r \in PortStates /\ r.transit = e.transit
        BY <2>2 DEF PortStates
      <4>3. r.enabled = FALSE /\ r.draining = e.draining
        BY <2>2 DEF PortStates
      <4> HIDE DEF e, r
      <4> QED BY <3>1, <4>1, <4>2, <4>3
    <3>4. CASE worker.pc = "drain" /\ pc = "destroy"
      <4> DEFINE r == [e EXCEPT !.enabled = TRUE]
      <4>1. port' = [port EXCEPT ![Encoder] = r]
        BY <1>5, <3>4
      <4>2. r \in PortStates /\ r.transit = e.transit
        BY <2>2 DEF PortStates
      <4>3. r.enabled = TRUE /\ r.draining = e.draining
        BY <2>2 DEF PortStates
      <4> HIDE DEF e, r
      <4> QED BY <3>4, <4>1, <4>2, <4>3
    <3>2. CASE worker.pc = "drain" /\ pc = "wait"
      <4> DEFINE r == [e EXCEPT !.draining = TRUE]
      <4>1. port' = [port EXCEPT ![Encoder] = r]
        BY <1>5, <3>2
      <4>2. r \in PortStates /\ r.transit = e.transit
        BY <2>2 DEF PortStates
      <4>3. r.enabled = e.enabled /\ r.draining = TRUE
        BY <2>2 DEF PortStates
      <4> HIDE DEF e, r
      <4> QED BY <3>2, <4>1, <4>2, <4>3
    <3>3. CASE worker.pc = "wait"
      <4> DEFINE r == [e EXCEPT !.callback = FALSE]
      <4>1. port' = [port EXCEPT ![Encoder] = r]
        BY <1>5, <3>3
      <4>2. r \in PortStates /\ r.transit = e.transit
        BY <2>2 DEF PortStates
      <4>3. r.enabled = e.enabled /\ r.draining = e.draining
        BY <2>2 DEF PortStates
      <4> HIDE DEF e, r
      <4> QED BY <3>3, <4>1, <4>2, <4>3
    <3> QED BY <1>5, <3>1, <3>2, <3>3, <3>4
  <2> QED BY <2>1, <2>3
<1>7. Types'
  BY <1>1, <1>2, <1>4, <1>6 DEF Types, Whole
<1>8. Opened'
  <2>1. port[Splitter].enabled /\ ~port[Splitter].draining
    BY <1>1, <1>5, TwoPorts DEF Opened, Early
  <2>2. worker.pc \in {"drain", "wait"} => ~port[Encoder].enabled
    BY <1>1 DEF Opened
  <2>3. worker.pc \in {"disable", "drain"} => ~port[Encoder].draining
    BY <1>1, TwoPorts DEF Opened
  <2> QED BY <1>4, <1>5, <1>6, <2>1, <2>2, <2>3, TwoPorts DEF Opened, Early, Filling, Late
<1>9. Posted'
  BY <1>1, <1>2, <1>4, <1>5 DEF Posted, Early, Filling, Late
<1>10. NothingSent'
  BY <1>1, <1>2, <1>4 DEF NothingSent, Unfilled, At, Early
<1>11. \A p \in Ports : LeftToFill(p)' /\ NoneLost(p)'
  BY <1>4 DEF LeftToFill, Filled, NoneLost, Late
<1>12. \A p \in Ports : PortInv(p)'
  BY <1>2, <1>6, <1>11, HeadersStay, TwoPorts
<1> QED BY <1>7, <1>8, <1>9, <1>10, <1>12 DEF SInv

\* The pool that is destroyed has no header at the component and none that a
\* callback holds, if its port has been disabled.
LEMMA DestroysKeeps ==
    ASSUME SInv, Destroys
    PROVE  SInv' \/ FInv'
<1>1. Types /\ Opened /\ Posted /\ NothingSent
  BY DEF SInv
<1>2. /\ UNCHANGED <<port, usestills, stop, built, capturing, chunks, complete, callback>>
      /\ worker.pc = "destroy" /\ worker' = [worker EXCEPT !.pc = "done"]
      /\ header' = [h \in AllHeaders |-> IF h \in Headers[Encoder] THEN "freed" ELSE header[h]]
  BY DEF Destroys, unchangedByFill, Goes, mmal_pool_destroy
<1>3. worker' \in WorkerStates /\ worker'.pc = "done"
  BY <1>1, <1>2 DEF Types, WorkerStates, Pcs, Late
<1>4. header' \in [AllHeaders -> Places]
  BY <1>1, <1>2 DEF Types, Places
<1>5. Types'
  BY <1>1, <1>2, <1>3, <1>4 DEF Types, Whole
<1>7. Posted' /\ complete' < 0
  BY <1>1, <1>2, <1>3 DEF Posted, Early, Filling, Late
<1>14. CASE port[Encoder].enabled
  BY <1>2, <1>3, <1>5, <1>7, <1>14 DEF FInv, FreedOpen
<1>15. SUFFICES ASSUME ~port[Encoder].enabled PROVE SInv'
  BY <1>14
<1>6. Opened'
  BY <1>1, <1>2, <1>3, <1>15 DEF Opened, Early, Filling, Late
<1>8. \A h \in Headers[Splitter] : h \in AllHeaders /\ header'[h] = header[h]
  BY <1>2, PortAssumption, TwoPorts DEF AllHeaders
<1>9. \A x : At(Splitter, x)' = At(Splitter, x)
  BY <1>8 DEF At
<1>10. NothingSent'
  BY <1>1, <1>2, <1>3, <1>9 DEF NothingSent, Unfilled, Early
<1>11. \A p \in Ports : LeftToFill(p)' /\ NoneLost(p)'
  BY <1>3 DEF LeftToFill, Filled, NoneLost, Late
<1>12. PortInv(Splitter)'
  <2>1. CallbackHolds(Splitter)'
    BY <1>2, <1>8, TwoPorts DEF SInv, PortInv, CallbackHolds
  <2>2. InTransit(Splitter)'
    BY <1>2, <1>9, TwoPorts DEF SInv, PortInv, InTransit, Count, Busy
  <2> QED BY <1>11, <2>1, <2>2, TwoPorts DEF PortInv
<1>13. PortInv(Encoder)'
  <2>1. port[Encoder].transit = 0
    BY <1>1, <1>2, <1>15 DEF Opened
  <2>2. InTransit(Encoder) /\ CallbackHolds(Encoder)
    BY TwoPorts DEF SInv, PortInv
  <2>3. Count(Encoder, "component") \in Nat
    BY Counted, TwoPorts
  <2>4. callback[Encoder].pc = "idle" /\ callback[Encoder] = Idle
    BY <2>1, <2>2, <2>3 DEF InTransit, Busy, CallbackHolds
  <2>5. CallbackHolds(Encoder)'
    BY <1>2, <2>4 DEF CallbackHolds, Idle
  <2>6. AtIn(header', Encoder, "component") = {}
    BY <1>2, TwoPorts DEF AtIn, AllHeaders
  <2>7. Count(Encoder, "component")' = 0
    BY <2>6, Countable, TwoPorts DEF Count, At, AtIn
  <2>8. InTransit(Encoder)'
    BY <1>2, <2>1, <2>4, <2>7 DEF InTransit, Busy
  <2> QED BY <1>11, <2>5, <2>8, TwoPorts DEF PortInv
<1> QED BY <1>5, <1>6, <1>7, <1>10, <1>12, <1>13, TwoPorts DEF SInv

\* The worker, which has still to send some, finds a header in the queue.
LEMMA FillGetsKeeps ==
    ASSUME SInv, FillGets
    PROVE  SInv'
<1> SUFFICES ASSUME NEW p \in Ports, p = worker.port PROVE SInv'
  BY DEF SInv, Types, WorkerStates
<1>1. Types /\ Opened /\ Posted /\ NothingSent /\ PortInv(p)
  BY DEF SInv
<1>2. /\ worker.pc = "get" /\ worker.left > 0 /\ worker.left \in Nat
      /\ UNCHANGED <<port, usestills, stop, built, capturing, chunks, complete, callback>>
  BY <1>1 DEF FillGets, unchangedByFill, Types, WorkerStates
<1>3. Count(p, "queue") = worker.left + Spare(p) /\ Spare(p) \in Nat
  BY <1>1, <1>2 DEF PortInv, LeftToFill, Spare
<1>4. At(p, "queue") # {}
  <2>1. Count(p, "queue") = 0 <=> At(p, "queue") = {}
    BY <1>1, Counted
  <2> QED BY <1>2, <1>3, <2>1
<1>5. Moves(p, "queue", "worker") /\ worker' = [worker EXCEPT !.pc = "send"]
  BY <1>4 DEF FillGets, mmal_queue_get, Moves, Goes
<1>6. "queue" \in Places /\ "worker" \in Places
  BY DEF Places
<1>7. /\ header' \in [AllHeaders -> Places]
      /\ \A q \in Ports, x \in Places \ {"queue", "worker"} : At(q, x)' = At(q, x)
      /\ \A q \in Ports \ {p}, x \in Places : At(q, x)' = At(q, x)
      /\ \A k \in AllHeaders : header[k] # "queue" => header'[k] = header[k]
  BY <1>1, <1>5, <1>6, Moving
<1>8. worker' \in WorkerStates /\ worker'.pc = "send" /\ worker'.port = p /\ worker'.left = worker.left
  BY <1>1, <1>5 DEF Types, WorkerStates, Pcs, Filling
<1>9. Types'
  BY <1>1, <1>2, <1>7, <1>8 DEF Types, Whole
<1>10. Opened'
  BY <1>1, <1>2, <1>8 DEF Opened, Early, Filling, Late
<1>11. Posted'
  BY <1>1, <1>2, <1>8 DEF Posted, Early, Filling, Late
<1>12. \A q \in Ports : At(q, "component")' = At(q, "component") /\ At(q, "lost")' = At(q, "lost")
  BY <1>7 DEF Places
<1>13. NothingSent'
  BY <1>1, <1>2, <1>8, <1>12, TwoPorts DEF NothingSent, Unfilled, Early
<1>14. \A q \in Ports : PortInv(q)'
  <2> SUFFICES ASSUME NEW q \in Ports PROVE PortInv(q)'
    OBVIOUS
  <2>1. PortInv(q)
    BY DEF SInv
  <2>2. \A h \in Headers[q] : h \in AllHeaders
    BY DEF AllHeaders
  <2>3. CallbackHolds(q)'
    BY <1>2, <1>7, <2>1, <2>2 DEF PortInv, CallbackHolds
  <2>4. InTransit(q)'
    BY <1>2, <1>12, <2>1 DEF PortInv, InTransit, Count, Busy
  <2>5. Spare(q)' = Spare(q) /\ Spare(q) \in Nat
    BY <1>2 DEF Spare
  <2>6. LeftToFill(q)'
    <3>1. CASE q = p
      <4>1. Count(q, "queue") \in Nat /\ Count(q, "queue")' = Count(q, "queue") - 1
        BY <1>1, <1>5, <1>6, <3>1, Moving
      <4>2. ~Filled(q)'
        BY <1>8, <3>1, TwoPorts DEF Filled
      <4> QED BY <1>2, <1>3, <1>8, <2>5, <3>1, <4>1, <4>2 DEF LeftToFill
    <3>2. CASE q # p
      <4>1. Count(q, "queue")' = Count(q, "queue")
        BY <1>6, <1>7, <3>2 DEF Count
      <4>2. Filled(q)' => Filled(q)
        BY <1>2, <1>8 DEF Filled
      <4> QED BY <1>8, <2>1, <2>5, <3>2, <4>1, <4>2 DEF PortInv, LeftToFill
    <3> QED BY <3>1, <3>2
  <2>7. NoneLost(q)'
    BY <1>2, <1>12, <2>1 DEF PortInv, NoneLost, Late
  <2> QED BY <2>3, <2>4, <2>6, <2>7 DEF PortInv
<1> QED BY <1>9, <1>10, <1>11, <1>13, <1>14 DEF SInv

\* The ports are open while they are filled, so that no header is refused; the
\* firmware may fail to take one.
LEMMA FillSendsKeeps ==
    ASSUME SInv, FillSends
    PROVE  SInv' \/ (Types' /\ worker'.pc = "exit")
<1> SUFFICES ASSUME NEW p \in Ports, p = worker.port PROVE SInv' \/ (Types' /\ worker'.pc = "exit")
  BY DEF SInv, Types, WorkerStates
<1>1. Types /\ Opened /\ Posted /\ NothingSent /\ PortInv(p)
  BY DEF SInv
<1>2. /\ worker.pc = "send" /\ worker.left > 0 /\ worker.left \in Nat
      /\ UNCHANGED <<usestills, stop, built, capturing, chunks, complete, callback>>
  BY <1>1 DEF FillSends, unchangedByFill, Types, WorkerStates, PortInv, LeftToFill
<1>3. port[p].enabled
  BY <1>1, <1>2, TwoPorts DEF Opened, Early, Filling
<1>4. PICK place \in {"component", "failed"} :
        /\ Moves(p, "worker", place)
        /\ \/ place = "component" /\ port' = [port EXCEPT ![p].transit = @ + 1]
           \/ place = "failed" /\ UNCHANGED port
        /\ \/ worker' = [worker EXCEPT !.pc = "exit"]
           \/ worker' = [worker EXCEPT !.pc = "get", !.left = @ - 1]
  <2>1. PICK h \in At(p, "worker") :
          /\ mmal_port_send_buffer(p, h)
          /\ \/ worker' = [worker EXCEPT !.pc = "exit"]
             \/ worker' = [worker EXCEPT !.pc = "get", !.left = @ - 1]
    BY DEF FillSends, Goes
  <2>2. \/ header' = [header EXCEPT ![h] = "component"] /\ port' = [port EXCEPT ![p].transit = @ + 1]
        \/ header' = [header EXCEPT ![h] = "failed"] /\ UNCHANGED port
    BY <1>3, <2>1 DEF mmal_port_send_buffer
  <2> QED BY <2>1, <2>2 DEF Moves, At
<1>5. {"worker", "component", "failed", "queue", "lost"} \subseteq Places /\ place # "worker"
  BY <1>4 DEF Places
<1>6. /\ header' \in [AllHeaders -> Places]
      /\ Count(p, place) \in Nat /\ Count(p, place)' = Count(p, place) + 1
      /\ \A q \in Ports, x \in Places \ {"worker", place} : At(q, x)' = At(q, x)
      /\ \A q \in Ports \ {p}, x \in Places : At(q, x)' = At(q, x)
      /\ \A k \in AllHeaders : header[k] # "worker" => header'[k] = header[k]
  BY <1>1, <1>4, <1>5, Moving
<1> DEFINE counted == IF place = "component" THEN 1 ELSE 0
<1>8. port[p] \in PortStates /\ port[p].transit \in Int
  BY <1>1 DEF Types, PortStates
<1>9. /\ port'[p] = [port[p] EXCEPT !.transit = port[p].transit + counted]
      /\ \A q \in Ports \ {p} : port'[q] = port[q]
  <2>1. CASE place = "component"
    BY <1>1, <1>4, <2>1 DEF Types
  <2>2. CASE place = "failed"
    <3>1. port[p] = [port[p] EXCEPT !.transit = port[p].transit + 0]
      BY <1>8 DEF PortStates
    <3> QED BY <1>4, <2>2, <3>1
  <2> QED BY <2>1, <2>2
<1>10. /\ port' \in [Ports -> PortStates] /\ port'[p].transit = port[p].transit + counted
       /\ \A q \in Ports : port'[q].enabled = port[q].enabled /\ port'[q].draining = port[q].draining
  BY <1>1, <1>4, <1>8, <1>9 DEF Types, PortStates
<1>17. \A q \in Ports : Whole(q)'
  BY <1>1, <1>2 DEF Types, Whole
<1>18. CASE worker' = [worker EXCEPT !.pc = "exit"]
  <2>1. worker' \in WorkerStates /\ worker'.pc = "exit"
    BY <1>1, <1>18 DEF Types, WorkerStates, Pcs
  <2> QED BY <1>1, <1>2, <1>6, <1>10, <1>17, <2>1 DEF Types
<1>19. SUFFICES ASSUME worker' = [worker EXCEPT !.pc = "get", !.left = @ - 1] PROVE SInv'
  BY <1>4, <1>18
<1>7. worker' \in WorkerStates /\ worker'.pc = "get" /\ worker'.port = p /\ worker'.left = worker.left - 1
  <2>1. "get" \in Pcs /\ worker.left - 1 \in Nat /\ worker \in WorkerStates
    BY <1>1, <1>2 DEF Types, Pcs, Filling
  <2> QED BY <1>19, <2>1 DEF WorkerStates
<1>11. Types'
  BY <1>1, <1>2, <1>6, <1>7, <1>10, <1>17 DEF Types
<1>12. Opened'
  BY <1>1, <1>2, <1>7, <1>10, TwoPorts DEF Opened, Early, Filling, Late
<1>13. Posted'
  BY <1>1, <1>2, <1>7 DEF Posted, Early, Filling, Late
<1>14. NothingSent'
  <2>1. Unfilled' => p = Encoder
    BY <1>1, <1>2, <1>7, TwoPorts DEF Unfilled, NothingSent, Early
  <2>2. p = Encoder => At(Splitter, "component")' = At(Splitter, "component") /\ Unfilled
    BY <1>2, <1>5, <1>6, TwoPorts DEF Unfilled
  <2> QED BY <1>1, <1>2, <1>7, <2>1, <2>2 DEF NothingSent
<1>15. \A q \in Ports : At(q, "queue")' = At(q, "queue") /\ At(q, "lost")' = At(q, "lost")
  BY <1>4, <1>6 DEF Places
<1>16. \A q \in Ports : PortInv(q)'
  <2> SUFFICES ASSUME NEW q \in Ports PROVE PortInv(q)'
    OBVIOUS
  <2>1. PortInv(q)
    BY DEF SInv
  <2>2. \A h \in Headers[q] : h \in AllHeaders
    BY DEF AllHeaders
  <2>3. CallbackHolds(q)'
    BY <1>2, <1>6, <2>1, <2>2 DEF PortInv, CallbackHolds
  <2>4. InTransit(q)'
    <3>1. Busy(q)' = Busy(q) /\ Busy(q) \in Nat
      BY <1>2 DEF Busy
    <3>2. CASE q = p
      <4>1. Count(q, "component")' = Count(q, "component") + counted /\ Count(q, "component") \in Nat
        <5>1. CASE place = "component"
          BY <1>6, <3>2, <5>1
        <5>2. CASE place = "failed"
          BY <1>5, <1>6, <5>2, Counted DEF Count
        <5> QED BY <5>1, <5>2
      <4> QED BY <1>8, <1>10, <2>1, <3>1, <3>2, <4>1 DEF PortInv, InTransit
    <3>3. CASE q # p
      BY <1>5, <1>6, <1>9, <2>1, <3>1, <3>3 DEF PortInv, InTransit, Count
    <3> QED BY <3>2, <3>3
  <2>5. /\ Count(q, "queue")' = Count(q, "queue") /\ Spare(q)' = Spare(q)
        /\ Filled(q)' => Filled(q)
    BY <1>2, <1>7, <1>15 DEF Count, Spare, Filled
  <2>6. LeftToFill(q)'
    BY <1>7, <1>2, <2>1, <2>5 DEF PortInv, LeftToFill
  <2>7. NoneLost(q)'
    BY <1>2, <1>15, <2>1 DEF PortInv, NoneLost, Late
  <2> QED BY <2>3, <2>4, <2>6, <2>7 DEF PortInv
<1> QED BY <1>11, <1>12, <1>13, <1>14, <1>16 DEF SInv

-----------------------------------------------------------------------------
(* The invariant, and what it means *)

\* It holds when the program starts.
LEMMA InitSInv == Init => SInv
<1> SUFFICES ASSUME Init PROVE SInv
  OBVIOUS
<1>1. /\ header = [h \in AllHeaders |-> "queue"] /\ port = [p \in Ports |-> NewPort]
      /\ usestills \in BOOLEAN /\ stop = FALSE
      /\ worker = [pc |-> "create", port |-> Encoder, left |-> 0]
      /\ capturing = FALSE /\ chunks = 0 /\ complete = 0 /\ callback = [p \in Ports |-> Idle]
  BY DEF Init, CameraInit, PortInit
<1>2. NewPort \in PortStates /\ Idle \in Callbacks /\ "queue" \in Places
  BY DEF NewPort, PortStates, Idle, Callbacks, Places
<1>3. worker \in WorkerStates
  BY <1>1, TwoPorts DEF WorkerStates, Pcs, Early
<1>4. Types
  <2>1. header \in [AllHeaders -> Places] /\ port \in [Ports -> PortStates] /\ callback \in [Ports -> Callbacks]
    BY <1>1, <1>2
  <2>2. chunks \in 0 .. MaxChunks - 1 /\ complete \in -2 .. 1
    BY <1>1, WorkerAssumption
  <2>3. \A p \in Ports : Whole(p)
    BY <1>1 DEF Whole, Idle
  <2> QED BY <1>1, <1>3, <2>1, <2>2, <2>3 DEF Types
<1>5. Opened
  BY <1>1 DEF Opened, NewPort, Early, Filling, Late
<1>6. Posted
  BY <1>1, TwoPorts DEF Posted, Early, Filling, Late
<1>7. \A p \in Ports : \A x : x # "queue" => AtIn(header, p, x) = {}
  BY <1>1 DEF AtIn, AllHeaders
<1>8. NothingSent
  BY <1>1, <1>7, TwoPorts DEF NothingSent, At, AtIn
<1>9. \A p \in Ports : PortInv(p)
  <2> SUFFICES ASSUME NEW p \in Ports PROVE PortInv(p)
    OBVIOUS
  <2>1. CallbackHolds(p)
    BY <1>1 DEF CallbackHolds, Idle
  <2>2. Count(p, "component") = 0
    BY <1>7, Counted DEF At, AtIn
  <2>3. InTransit(p)
    BY <1>1, <2>2 DEF InTransit, Busy, Idle, NewPort
  <2>4. LeftToFill(p)
    BY <1>1 DEF LeftToFill, Filled
  <2>5. NoneLost(p)
    BY <1>7 DEF NoneLost, At, AtIn
  <2> QED BY <2>1, <2>3, <2>4, <2>5 DEF PortInv
<1> QED BY <1>4, <1>5, <1>6, <1>8, <1>9 DEF SInv

\* Every step of the camera keeps it.
LEMMA CameraKeeps ==
    ASSUME SInv, Running,
           \/ Worker \/ signal_handler \/ exit
           \/ \E p \in Ports : Callback(p)
    PROVE  IInv'
<1>1. CASE Worker
  BY <1>1, StartsKeep, FillsKeeps, FillGetsKeeps, FillSendsKeeps, FillEndsKeeps, CaptureKeeps,
     DisablesKeep, DestroysKeeps DEF Worker, IInv
<1>2. CASE signal_handler
  BY <1>2, ExitKeeps DEF signal_handler, IInv
<1>3. CASE exit
  BY <1>3, ExitKeeps DEF exit, Goes, unchangedByStart, IInv
<1>4. ASSUME NEW p \in Ports, Callback(p) PROVE SInv'
  BY <1>4, ReturnsKeeps, ReleasesKeeps, GetsKeeps, SendsBackKeeps, FinishesKeeps DEF Callback
<1> QED BY <1>1, <1>2, <1>3, <1>4 DEF IInv

\* A header that was freed goes on as if it were not: kinds stay kinds, and the
\* semaphore stays deleted, until the process exits.
LEMMA FreedKeeps ==
    ASSUME FInv,
           \/ Worker \/ signal_handler \/ exit
           \/ \E p \in Ports : Callback(p)
    PROVE  IInv'
<1>1. Types /\ worker.pc = "done" /\ port[Encoder].enabled /\ complete < 0
  BY DEF FInv, FreedOpen
<1>2. ~Worker
  BY <1>1 DEF Worker, Starts, CreatesComponents, ConnectsSplitter, ConnectsEncoder, EnablesSplitter,
     EnablesEncoder, Fills, FillGets, FillSends, FillEnds, StartsCapture, AwaitsPicture,
     SleepsUntilStop, DeletesSemaphore, DisablesEncoder, Destroys
<1>3. CASE signal_handler
  <2>1. Types'
    BY <1>1, <1>3 DEF signal_handler, Types, Whole
  <2> QED BY <1>1, <1>3, <2>1 DEF signal_handler, IInv, FInv, FreedOpen
<1>4. CASE exit
  <2>1. worker' \in WorkerStates /\ worker'.pc = "exit"
    BY <1>1, <1>4 DEF exit, Goes, Types, WorkerStates, Pcs
  <2>2. Types'
    BY <1>1, <1>4, <2>1 DEF exit, unchangedByStart, Types, Whole
  <2> QED BY <2>1, <2>2 DEF IInv
<1>5. ASSUME NEW p \in Ports, Callback(p) PROVE IInv'
  <2>1. UNCHANGED <<worker, usestills, stop>>
    BY <1>5 DEF Callback, Returns, Releases, Gets, SendsBack, Finishes
  <2>2. header' \in [AllHeaders -> Places]
    <3>1. header \in [AllHeaders -> Places] /\ {"callback", "queue", "again", "component", "failed", "lost"} \subseteq Places
      BY <1>1 DEF Types, Places
    <3>2. UNCHANGED header \/ \E h, x : x \in Places /\ header' = [header EXCEPT ![h] = x]
      <4>1. CASE Returns(p)
        BY <3>1, <4>1 DEF Returns, CallbackBegins
      <4>2. CASE Releases(p)
        BY <3>1, <4>2 DEF Releases, mmal_buffer_header_release
      <4>3. CASE Gets(p)
        BY <3>1, <4>3 DEF Gets, mmal_queue_get
      <4>4. CASE SendsBack(p)
        BY <3>1, <4>4 DEF SendsBack, mmal_port_send_buffer
      <4>5. CASE Finishes(p)
        BY <4>5 DEF Finishes
      <4> QED BY <1>5, <4>1, <4>2, <4>3, <4>4, <4>5 DEF Callback
    <3> QED BY <3>1, <3>2
  <2>3. port' \in [Ports -> PortStates] /\ port'[Encoder].enabled
    <3>1. port \in [Ports -> PortStates] /\ port[p] \in PortStates
      BY <1>1 DEF Types
    <3>2. UNCHANGED port \/ \E n \in Int : port' = [port EXCEPT ![p] = [port[p] EXCEPT !.transit = n]]
      <4>1. CASE SendsBack(p) \/ Finishes(p)
        <5>1. port[p].transit \in Int
          BY <3>1 DEF PortStates
        <5>2. port[p].transit + 1 \in Int /\ port[p].transit - 1 \in Int
          BY <5>1
        <5>3. \/ UNCHANGED port \/ port' = [port EXCEPT ![p].transit = @ + 1]
              \/ port' = [port EXCEPT ![p].transit = @ - 1]
          BY <4>1 DEF SendsBack, Finishes, mmal_port_send_buffer, CallbackEnds
        <5> QED BY <3>1, <5>2, <5>3
      <4>2. CASE Returns(p) \/ Releases(p) \/ Gets(p)
        BY <4>2 DEF Returns, CallbackBegins, Releases, Gets
      <4> QED BY <1>5, <4>1, <4>2 DEF Callback
    <3>3. ASSUME NEW n \in Int, port' = [port EXCEPT ![p] = [port[p] EXCEPT !.transit = n]]
          PROVE  port' \in [Ports -> PortStates] /\ \A q \in Ports : port'[q].enabled = port[q].enabled
      <4>1. [port[p] EXCEPT !.transit = n] \in PortStates
            /\ [port[p] EXCEPT !.transit = n].enabled = port[p].enabled
        BY <3>1 DEF PortStates
      <4> QED BY <3>1, <3>3, <4>1
    <3> QED BY <1>1, <3>1, <3>2, <3>3, TwoPorts
  <2>4. /\ callback' \in [Ports -> Callbacks] /\ chunks' \in 0 .. MaxChunks - 1
        /\ \A q \in Ports : Whole(q)'
    <3>1. /\ callback \in [Ports -> Callbacks] /\ chunks \in 0 .. MaxChunks - 1
          /\ \A q \in Ports : Whole(q)
      BY <1>1 DEF Types
    <3>2. CASE Returns(p)
      <4>1. PICK h \in Headers[p], data \in BOOLEAN, last \in BOOLEAN :
              /\ data => p = Encoder /\ (chunks + 1 = MaxChunks => last)
              /\ last => p = Encoder
              /\ callback' = [callback EXCEPT ![p] = [pc |-> "run", header |-> h, data |-> data, last |-> last]]
        BY <3>2 DEF Returns, At
      <4>2. UNCHANGED chunks
        BY <3>2 DEF Returns
      <4>3. [pc |-> "run", header |-> h, data |-> data, last |-> last] \in Callbacks
        BY DEF Callbacks, AllHeaders
      <4>4. callback' \in [Ports -> Callbacks]
        BY <3>1, <4>1, <4>3
      <4>6. /\ callback'[p] = [pc |-> "run", header |-> h, data |-> data, last |-> last]
            /\ \A q \in Ports \ {p} : callback'[q] = callback[q]
        BY <3>1, <4>1
      <4>7. Whole(p)'
        BY <4>1, <4>2, <4>6 DEF Whole
      <4>5. \A q \in Ports : Whole(q)'
        BY <3>1, <4>2, <4>6, <4>7 DEF Whole
      <4> QED BY <3>1, <4>2, <4>4, <4>5
    <3>3. CASE Releases(p)
      <4>1. /\ callback' = [callback EXCEPT ![p] =
                               [Idle EXCEPT !.pc = "released", !.last = callback[p].last]]
            /\ chunks' = IF callback[p].last THEN 0 ELSE IF callback[p].data THEN chunks + 1 ELSE chunks
            /\ callback[p].pc = "run"
        BY <3>3 DEF Releases
      <4>2. /\ callback' \in [Ports -> Callbacks] /\ callback'[p].data = FALSE
            /\ \A q \in Ports \ {p} : callback'[q] = callback[q]
        BY <1>1, <4>1, StepsOn
      <4>3. chunks' \in 0 .. MaxChunks - 1
        BY <3>1, <4>1, WorkerAssumption DEF Whole
      <4>4. callback'[p].last = callback[p].last
        BY <1>1, <4>1, StepsOn
      <4>5. Whole(p)'
        BY <3>1, <4>2, <4>4 DEF Whole
      <4>6. \A q \in Ports \ {p} : callback[q].data => chunks' = chunks
        BY <3>1, <4>1 DEF Whole
      <4>7. \A q \in Ports \ {p} : Whole(q)'
        BY <3>1, <4>2, <4>6 DEF Whole
      <4> QED BY <4>2, <4>3, <4>5, <4>7
    <3>4. CASE Gets(p) \/ SendsBack(p) \/ Finishes(p)
      <4>1. PICK r \in Callbacks :
              /\ callback' = [callback EXCEPT ![p] = r]
              /\ r.last => callback[p].last
              /\ r.data = FALSE \/ (r.data = callback[p].data /\ callback[p].pc # "run")
        <5>1. callback[p] \in Callbacks
          BY <3>1
        <5>2. CASE Gets(p)
          <6>1. CASE callback' = [callback EXCEPT ![p].pc = "finish"]
            <7>1. [callback[p] EXCEPT !.pc = "finish"] \in Callbacks
              BY <5>1 DEF Callbacks
            <7> QED BY <5>1, <5>2, <6>1, <7>1 DEF Gets, Callbacks
          <6>2. CASE \E h \in Headers[p] : callback' = [callback EXCEPT ![p].pc = "send", ![p].header = h]
            <7>1. PICK h \in Headers[p] : callback' = [callback EXCEPT ![p].pc = "send", ![p].header = h]
              BY <6>2
            <7>2. callback' = [callback EXCEPT ![p] = [callback[p] EXCEPT !.pc = "send", !.header = h]]
              BY <3>1, <7>1
            <7>3. [callback[p] EXCEPT !.pc = "send", !.header = h] \in Callbacks
              BY <5>1 DEF Callbacks, AllHeaders
            <7> QED BY <5>1, <5>2, <7>2, <7>3 DEF Gets, Callbacks
          <6> QED BY <5>2, <6>1, <6>2 DEF Gets
        <5>3. CASE SendsBack(p)
          <6> DEFINE r == [Idle EXCEPT !.pc = "finish", !.last = callback[p].last]
          <6>1. Idle \in Callbacks /\ Idle.data = FALSE /\ callback[p].last \in BOOLEAN
            BY <5>1 DEF Idle, Callbacks
          <6>2. r \in Callbacks /\ r.last = callback[p].last /\ r.data = FALSE
            BY <6>1 DEF Callbacks
          <6>3. callback' = [callback EXCEPT ![p] = r]
            BY <5>3 DEF SendsBack
          <6> HIDE DEF r
          <6> QED BY <6>2, <6>3
        <5>4. CASE Finishes(p)
          <6>1. Idle \in Callbacks /\ Idle.last = FALSE /\ Idle.data = FALSE
            BY DEF Idle, Callbacks
          <6> QED BY <5>4, <6>1 DEF Finishes
        <5> QED BY <3>4, <5>2, <5>3, <5>4
      <4>2. UNCHANGED chunks
        BY <3>4 DEF Gets, SendsBack, Finishes
      <4>3. /\ callback'[p] = r /\ (\A q \in Ports \ {p} : callback'[q] = callback[q])
            /\ callback' \in [Ports -> Callbacks]
        BY <3>1, <4>1
      <4>4. callback'[p].last => callback[p].last
        BY <4>1, <4>3
      <4>5. callback'[p].data = FALSE \/ (callback'[p].data = callback[p].data /\ callback[p].pc # "run")
        BY <4>1, <4>3
      <4>6. chunks' \in 0 .. MaxChunks - 1 /\ \A q \in Ports : Whole(q)'
        BY <1>1, <4>2, <4>3, <4>4, <4>5, WholeStays
      <4> QED BY <4>3, <4>6
    <3> QED BY <1>5, <3>2, <3>3, <3>4 DEF Callback
  <2>5. capturing' \in BOOLEAN /\ complete' \in -2 .. 1 /\ complete' < 0
    <3>1. capturing \in BOOLEAN /\ complete \in -2 .. 1
      BY <1>1 DEF Types
    <3>2. CASE Finishes(p)
      BY <1>1, <3>1, <3>2 DEF Finishes
    <3>3. CASE Returns(p)
      BY <1>1, <3>1, <3>3 DEF Returns
    <3>4. CASE Releases(p) \/ Gets(p) \/ SendsBack(p)
      BY <1>1, <3>1, <3>4 DEF Releases, Gets, SendsBack
    <3> QED BY <1>5, <3>2, <3>3, <3>4 DEF Callback
  <2>6. Types'
    BY <1>1, <2>1, <2>2, <2>3, <2>4, <2>5 DEF Types
  <2> QED BY <1>1, <2>1, <2>3, <2>5, <2>6 DEF IInv, FInv, FreedOpen
<1> QED BY <1>2, <1>3, <1>4, <1>5

\* The clients change nothing of the camera, except that one of them may end
\* the process.
LEMMA NextIInv == IInv /\ [Next]_vars => IInv'
<1> SUFFICES ASSUME IInv, [Next]_vars PROVE IInv'
  OBVIOUS
<1>0. Types /\ worker.pc \in Pcs
  BY DEF IInv, SInv, FInv, Types, WorkerStates
<1>1. CASE UNCHANGED camera_vars
  <2>1. UNCHANGED <<header, port, usestills, capturing, chunks, complete, callback, worker, stop>>
    BY <1>1 DEF camera_vars
  <2>2. stop' \in BOOLEAN
    BY <1>0, <2>1 DEF Types
  <2>3. Types'
    BY <1>0, <2>1 DEF Types, Whole
  <2>4. SInv => SInv'
    BY <2>1, <2>2, ExitKeeps
  <2>5. FInv => FInv'
    BY <2>1, <2>3 DEF FInv, FreedOpen
  <2> QED BY <2>1, <2>3, <2>4, <2>5 DEF IInv
<1>2. CASE Running /\ (Worker \/ signal_handler \/ exit)
  BY <1>2, CameraKeeps, FreedKeeps DEF IInv, Running
<1>3. CASE Running /\ (EncoderCallback \/ SplitterCallback)
  <2>1. \E p \in Ports : Callback(p)
    BY <1>3, TwoPorts DEF EncoderCallback, EncoderReleases, SplitterCallback, Callback
  <2> QED BY <1>3, <2>1, CameraKeeps, FreedKeeps DEF IInv, Running
<1>4. CASE \E c \in Clients : CopiesFreed(c)
  <2>1. /\ UNCHANGED <<header, port, usestills, stop, capturing, chunks, complete, callback>>
        /\ UNCHANGED worker \/ Goes("exit")
    BY <1>4 DEF CopiesFreed, unchangedByStart
  <2>2. CASE UNCHANGED worker
    BY <1>1, <1>4, <2>2 DEF camera_vars, CopiesFreed, unchangedByStart
  <2>3. CASE Goes("exit")
    <3>1. worker' \in WorkerStates /\ worker'.pc = "exit"
      BY <1>0, <2>3 DEF Goes, Types, WorkerStates, Pcs
    <3> QED BY <1>0, <2>1, <3>1 DEF IInv, Types, Whole
  <2> QED BY <2>1, <2>2, <2>3
<1>5. CASE ServerCancelled \/ \E c \in Clients : Accepts(c) \/ Requests(c) \/ WakesUnsignalled(c)
                                   \/ Waits(c) \/ Locks(c) \/ Copies(c) \/ Writes(c)
  BY <1>1, <1>5 DEF ServerCancelled, Accepts, Requests, WakesUnsignalled, Waits, Locks, Copies, Writes
<1> QED BY <1>1, <1>2, <1>3, <1>4, <1>5 DEF Next, ClientThread, vars

\* In every reachable state.
THEOREM Inductive == Spec => []IInv
<1>1. Init => IInv
  BY InitSInv DEF IInv
<1> QED BY <1>1, NextIInv, PTL DEF Spec

\* Where mmal_port_disable closes the encoder's port it returns when nothing is
\* left of it, so that worker_thread may free the pool and the shared buffer.
THEOREM DisableIsFinal == Spec => []NothingAfterDisable
<1>1. IInv => NothingAfterDisable
  <2> SUFFICES ASSUME SInv, worker.pc \in {"destroy", "done"}, ~port[Encoder].enabled
               PROVE  /\ callback[Encoder] = Idle /\ port[Encoder].transit = 0
                      /\ At(Encoder, "component") = {}
    BY DEF NothingAfterDisable, IInv, FInv, FreedOpen
  <2>1. port[Encoder].transit = 0 /\ InTransit(Encoder) /\ CallbackHolds(Encoder)
    BY TwoPorts DEF SInv, Opened, PortInv
  <2>2. /\ Count(Encoder, "component") \in Nat
        /\ Count(Encoder, "component") = 0 => At(Encoder, "component") = {}
    BY Counted, TwoPorts
  <2>3. Count(Encoder, "component") = 0 /\ callback[Encoder].pc = "idle"
    BY <2>1, <2>2 DEF InTransit, Busy
  <2> QED BY <2>1, <2>2, <2>3 DEF CallbackHolds
<1> QED BY <1>1, Inductive, PTL

\* The worker, which takes one by one the headers it has counted, never finds
\* the queue empty, whatever the callbacks take from it and put into it.
THEOREM AlwaysAHeader == Spec => []WorkerNeverEmpty
<1>1. IInv => WorkerNeverEmpty
  BY DEF IInv, SInv, FInv, Types, WorkerStates, Pcs, Early, Filling, Late, WorkerNeverEmpty
<1> QED BY <1>1, Inductive, PTL

\* While pictures are taken no header is lost but those that the firmware fails
\* to take, and none is left in the queue but the one that a callback is about
\* to replace.
THEOREM HeadersCirculate == Spec => []AllCirculate
<1>1. IInv => AllCirculate
  <2> SUFFICES ASSUME SInv, worker.pc \in {"await", "sleep"}, NEW p \in Ports, p = Encoder \/ ~usestills
               PROVE  Count(p, "queue") = Spare(p) /\ At(p, "lost") = {}
    BY DEF AllCirculate, Count, Spare, IInv, FInv, FreedOpen
  <2>1. PortInv(p) /\ (worker.pc = "await" => usestills)
    BY DEF SInv, Posted
  <2>2. Filled(p)
    BY <2>1, TwoPorts DEF Filled
  <2> QED BY <2>1, <2>2 DEF PortInv, LeftToFill, NoneLost, Late
<1> QED BY <1>1, Inductive, PTL

-----------------------------------------------------------------------------
(* Types *)

ClientStates == {"out", "request", "top", "wait", "relock", "copy", "write"}
ServerTypes == db \in Clients \cup {None, Encoder} /\ client \in [Clients -> ClientStates]

\* The mutex and the threads of the clients, whatever the camera does.
LEMMA ServerTyped == Spec => []ServerTypes
<1>1. Init => ServerTypes
  BY DEF Init, ServerTypes, ClientStates
<1>2. ServerTypes /\ [Next]_vars => ServerTypes'
  <2> SUFFICES ASSUME ServerTypes, [Next]_vars PROVE ServerTypes'
    OBVIOUS
  <2>1. CASE UNCHANGED <<db, client>>
    BY <2>1 DEF ServerTypes
  <2>2. CASE EncoderReleases
    <3>1. ASSUME client' = Woken PROVE client' \in [Clients -> ClientStates]
      BY <3>1 DEF ServerTypes, Woken, ClientStates
    <3> QED BY <2>2, <3>1 DEF EncoderReleases, EncoderData, ServerTypes
  <2>3. ASSUME NEW c \in Clients, NEW pc \in ClientStates, ClientGoes(c, pc)
        PROVE  client' \in [Clients -> ClientStates]
    BY <2>3 DEF ClientGoes, ServerTypes
  <2>5. ASSUME NEW c \in Clients,
               Accepts(c) \/ Requests(c) \/ WakesUnsignalled(c) \/ ClientThread(c)
        PROVE  ServerTypes'
    <3>0. ClientStates = {"out", "request", "top", "wait", "relock", "copy", "write"}
      BY DEF ClientStates
    <3>1. CASE Accepts(c) \/ Requests(c) \/ WakesUnsignalled(c) \/ Waits(c)
      BY <2>3, <3>0, <3>1 DEF Accepts, Requests, WakesUnsignalled, Waits, ServerTypes
    <3>3. CASE Locks(c)
      BY <2>3, <3>0, <3>3 DEF Locks, ServerTypes
    <3>4. CASE Copies(c) \/ CopiesFreed(c) \/ Writes(c)
      BY <2>3, <3>0, <3>4 DEF Copies, CopiesFreed, Writes, ServerTypes
    <3> QED BY <2>5, <3>1, <3>3, <3>4 DEF ClientThread
  <2> QED BY <2>1, <2>2, <2>5 DEF Next, vars, http, EncoderCallback, SplitterCallback, ServerCancelled
<1> QED BY <1>1, <1>2, PTL DEF Spec

\* Types: among them, that no more headers are in transit than the pool has and
\* one that is counted twice, unless a pool in use is freed, and that the
\* semaphore is posted once at most.
THEOREM Typed == Spec => []TypeOK
<1>1. IInv /\ ServerTypes => TypeOK
  <2> SUFFICES ASSUME IInv, ServerTypes PROVE TypeOK
    OBVIOUS
  <2>0. Types
    BY DEF IInv, SInv, FInv
  <2>1. Running /\ ~FreedOpen =>
          \A p \in Ports : port[p].transit \in 0 .. Cardinality(Headers[p]) + 1
    <3> SUFFICES ASSUME Running, ~FreedOpen, NEW p \in Ports
                 PROVE  port[p].transit \in 0 .. Cardinality(Headers[p]) + 1
      OBVIOUS
    <3>1. InTransit(p) /\ Busy(p) \in 0 .. 1
      BY DEF IInv, SInv, FInv, PortInv, Busy, Running
    <3>2. At(p, "component") = AtIn(header, p, "component")
      BY DEF At, AtIn
    <3>3. Count(p, "component") \in Nat /\ Count(p, "component") <= Cardinality(Headers[p])
      BY <3>2, Countable DEF Count
    <3>4. Cardinality(Headers[p]) \in Nat
      BY PortAssumption, FS_CardinalityType
    <3> QED BY <3>1, <3>3, <3>4 DEF InTransit
  <2>2. PortTypeOK
    BY <2>0 DEF Types, Places, PortStates, PortTypeOK
  <2> QED BY <2>0, <2>1, <2>2 DEF Types, ServerTypes, ClientStates, TypeOK, CameraTypeOK
<1> QED BY <1>1, Inductive, ServerTyped, PTL
=============================================================================
