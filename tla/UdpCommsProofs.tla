---------------------------- MODULE UdpCommsProofs ----------------------------
(***************************************************************************)
(* What the UDP server knows of its clients' clocks, for any number of     *)
(* hosts, any size of the table and any resolution of the clocks, whatever *)
(* the network does with the datagrams.                                    *)
(*                                                                         *)
(* IInv follows a sample on its way: a request carries a moment of the     *)
(* past (NetSound), an echo was written between that moment and its        *)
(* arrival (Answered), so the offset computed from it is near the true one *)
(* (OffsetNear), and so is the least of all of them (ClientSound).         *)
(***************************************************************************)
EXTENDS UdpComms, FiniteSetTheorems, TLAPS

ClientInfo ==
    [host : Hosts, client_start_time_msec : Int \cup {Unset},
     min_offset_usec : Int \cup {Unset}, sum_half_round_trip_usec : Nat,
     mean_half_round_trip_usec : 0 .. Half, sample_count : Nat, is_disconnected : BOOLEAN]

Requests == [type : {"request"}, host : Hosts, cam_host_usec : Int]
Echoes == [type : {"echo"}, host : Hosts, cam_host_usec : Int, client_msec : Int]

\* An echo that arrived at t was written between the moment it carries and t.
Answered(m, t) ==
    /\ m \in Echoes
    /\ \E e \in m.cam_host_usec .. t : m.client_msec = ClockOf(m.host, e)

NetSound ==
    \A m \in net : (m \in Requests /\ m.cam_host_usec <= now) \/ Answered(m, now)

NetBounded == IsFiniteSet(net) /\ Cardinality(net) <= MaxInFlight

\* No two hosts have the same port: sockaddr_equal tells them apart.
DistinctPorts == \A g, h \in Hosts : Port[g] = Port[h] => g = h

\* What is so of a client at a time t.
ClientSound(c, t) ==
    /\ c.sample_count > 0 => c.min_offset_usec # Unset
    /\ c.min_offset_usec # Unset => c.client_start_time_msec # Unset
    /\ c.sum_half_round_trip_usec <= c.sample_count * (max_round_trip_usecs - 1)
    /\ DistinctPorts =>
          /\ c.client_start_time_msec # Unset =>
                UsecsPerMsec * c.client_start_time_msec <= t + Phase[c.host]
          /\ c.min_offset_usec # Unset => OffsetNear(c)

\* The entries written, the one that is not published yet among them.
InUse == Entries \cup (IF l_pc = "publish" THEN {client_count + 1} ELSE {})

TableSound ==
    /\ client_count \in 0 .. MAX_CLIENTS
    /\ client \in [1 .. MAX_CLIENTS -> ClientInfo \cup {NoClient}]
    /\ \A i \in InUse : /\ i \in 1 .. MAX_CLIENTS
                        /\ client[i] \in ClientInfo
                        /\ ClientSound(client[i], now)

Handling == {"publish", "echo", "offset", "count", "signal", "next"}

\* The loop and the datagram it handles.
LoopSound ==
    /\ l_pc \in {"select", "send", "mark"} \cup Handling
    /\ l_sent \in BOOLEAN
    /\ arrive_usec \in Nat /\ arrive_usec <= now
    /\ l_client \in Nat
    /\ l_pc # "select" => l_client \in InUse
    /\ l_pc = "publish" => l_client = client_count + 1
    /\ l_pc = "select" => l_msg = NoMessage /\ l_client = 0
    /\ l_pc \in Handling => l_msg # NoMessage
    /\ l_msg # NoMessage =>
          /\ Answered(l_msg, arrive_usec)
          /\ DistinctPorts => client[l_client].host = l_msg.host
    /\ l_pc \in {"offset", "count"} =>
          /\ client[l_client].client_start_time_msec # Unset
          /\ RoundTrip < max_round_trip_usecs
    /\ l_pc = "count" => client[l_client].min_offset_usec # Unset

OthersSound ==
    /\ now \in Nat /\ now <= MaxTime
    /\ owner \in {None, "sender"}
    /\ s_pc \in {"idle", "send"} /\ s_client \in 0 .. client_count
    /\ s_pc = "send" => s_client > 0
    /\ c_pc \in {"lock", "wait", "returned"}

IInv == OthersSound /\ NetBounded /\ NetSound /\ TableSound /\ LoopSound

-----------------------------------------------------------------------------
(* Arithmetic *)

LEMMA Sizes ==
    /\ UsecsPerMsec \in Nat \ {0} /\ MAX_CLIENTS \in Nat \ {0}
    /\ max_samples \in Nat \ {0} /\ max_round_trip_usecs \in Nat \ {0}
    /\ max_round_trip_usecs <= MaxTime /\ MaxTime \in Nat /\ MaxInFlight \in Nat
    /\ Half \in Nat /\ Unset \notin Int
    /\ \A h \in Hosts : Phase[h] \in Int
BY UdpAssumption DEF Half

\* Rounding down loses less than the divisor.
LEMMA Floor ==
    ASSUME NEW k \in Nat \ {0}, NEW a \in Int
    PROVE  a \div k \in Int /\ k * (a \div k) <= a /\ a < k * (a \div k) + k
OBVIOUS

LEMMA Cancel ==
    ASSUME NEW k \in Nat \ {0}, NEW x \in Int, NEW y \in Int, k * x < k * (y + 1)
    PROVE  x <= y
<1>1. SUFFICES ASSUME x > y PROVE FALSE
  OBVIOUS
<1>2. k * (x - (y + 1)) \in Nat
  <2>1. x - (y + 1) \in Nat
    BY <1>1
  <2> QED BY <2>1
<1> QED BY <1>2

\* A host's clock shows a msec that has begun and is not over.
LEMMA Clock ==
    ASSUME NEW h \in Hosts, NEW u \in Int
    PROVE  /\ ClockOf(h, u) \in Int
           /\ UsecsPerMsec * ClockOf(h, u) <= u + Phase[h]
           /\ u + Phase[h] < UsecsPerMsec * ClockOf(h, u) + UsecsPerMsec
<1>1. u + Phase[h] \in Int
  BY Sizes
<1> QED BY <1>1, Sizes, Floor DEF ClockOf

\* The mean of the half round trips is less than half the longest.
LEMMA MeanBound ==
    ASSUME NEW sum \in Nat, NEW n \in Nat \ {0},
           sum <= n * (max_round_trip_usecs - 1)
    PROVE  sum \div (2 * n) \in 0 .. Half
<1> DEFINE q == sum \div (2 * n)
           m == max_round_trip_usecs - 1
<1>1. q \in Int /\ (2 * n) * q <= sum /\ sum < (2 * n) * q + 2 * n
  <2>1. 2 * n \in Nat \ {0} /\ sum \in Int
    OBVIOUS
  <2> HIDE DEF q
  <2>2. \A k \in Nat \ {0} : sum \div k \in Int /\ k * (sum \div k) <= sum
                              /\ sum < k * (sum \div k) + k
    BY <2>1, Floor
  <2> QED BY <2>1, <2>2 DEF q
<1>2. m \in Nat
  BY Sizes
<1> HIDE DEF q
<1>3. q >= 0
  <2>1. (2 * n) * 0 < (2 * n) * (q + 1)
    BY <1>1
  <2> QED BY <2>1, <1>1, Cancel
<1>4. 2 * q <= m
  <2>1. n * (2 * q) <= n * m
    BY <1>1, <1>2 DEF m
  <2>2. n * (2 * q) < n * (m + 1)
    BY <2>1, <1>1, <1>2
  <2> QED BY <2>2, <1>1, <1>2, Cancel
<1> QED BY <1>1, <1>2, <1>3, <1>4 DEF Half, q

-----------------------------------------------------------------------------
(* A sample, and what it tells *)

LEMMA AnsweredLater ==
    ASSUME NEW m, NEW t \in Int, NEW u \in Int, t <= u, Answered(m, t)
    PROVE  Answered(m, u)
BY DEF Answered, Echoes

LEMMA ClientSoundLater ==
    ASSUME NEW c \in ClientInfo, NEW t \in Int, NEW u \in Int, t <= u, ClientSound(c, t)
    PROVE  ClientSound(c, u)
<1>1. Phase[c.host] \in Int /\ UsecsPerMsec \in Nat
  BY Sizes DEF ClientInfo
<1> QED BY <1>1 DEF ClientSound, ClientInfo

\* The middle of a round trip is at most half of it away from the moment the
\* echo was written, and a msec is shown for UsecsPerMsec.
LEMMA SampleNear ==
    ASSUME NEW h \in Hosts, NEW cam \in Int, NEW arrive \in Int, NEW e \in cam .. arrive,
           NEW start \in Int, arrive - cam < max_round_trip_usecs
    PROVE  LET offset == cam + (arrive - cam) \div 2
                             - UsecsPerMsec * (ClockOf(h, e) - start)
               error == offset - (UsecsPerMsec * start - Phase[h])
           IN  /\ offset \in Int
               /\ -(max_round_trip_usecs \div 2) <= error
               /\ error <= Half + UsecsPerMsec - 1
<1> DEFINE K == UsecsPerMsec
           msec == ClockOf(h, e)
<1>1. /\ msec \in Int /\ Phase[h] \in Int /\ K \in Nat /\ max_round_trip_usecs \in Nat
      /\ K * msec <= e + Phase[h] /\ e + Phase[h] < K * msec + K
  BY Sizes, Clock
<1>2. K * (msec - start) = K * msec - K * start
  BY <1>1
<1>3. /\ K * msec \in Int /\ K * start \in Int
  BY <1>1
<1> HIDE DEF K, msec
<1>4. /\ cam + (arrive - cam) \div 2 - e <= (max_round_trip_usecs - 1) \div 2
      /\ -(max_round_trip_usecs \div 2) <= cam + (arrive - cam) \div 2 - e
      /\ (arrive - cam) \div 2 \in Int /\ max_round_trip_usecs \div 2 \in Int
      /\ (max_round_trip_usecs - 1) \div 2 \in Int
  BY <1>1
<1>5. LET offset == cam + (arrive - cam) \div 2 - K * (msec - start)
          error == offset - (K * start - Phase[h])
      IN  /\ offset \in Int
          /\ -(max_round_trip_usecs \div 2) <= error
          /\ error <= Half + K - 1
  BY <1>1, <1>2, <1>3, <1>4 DEF Half
<1> QED BY <1>5 DEF K, msec

\* What is known of the client whose echo is handled.
LEMMA AtClient ==
    ASSUME IInv, l_pc # "select"
    PROVE  /\ l_client \in InUse /\ l_client \in 1 .. MAX_CLIENTS
           /\ client[l_client] \in ClientInfo
           /\ ClientSound(client[l_client], now)
BY DEF IInv, LoopSound, TableSound

\* The loop writes an entry: the table stays sound if the entry is.
LEMMA EntryWritten ==
    ASSUME TableSound, NEW i \in InUse, NEW c \in ClientInfo, ClientSound(c, now),
           client' = [client EXCEPT ![i] = c],
           UNCHANGED <<now, client_count>>, InUse' = InUse
    PROVE  TableSound'
<1>1. i \in 1 .. MAX_CLIENTS
  BY DEF TableSound
<1>2. \A j \in 1 .. MAX_CLIENTS : client'[j] = IF j = i THEN c ELSE client[j]
  BY <1>1 DEF TableSound
<1>3. client' \in [1 .. MAX_CLIENTS -> ClientInfo \cup {NoClient}]
  BY <1>1 DEF TableSound
<1>4. ASSUME NEW j \in InUse
      PROVE  /\ j \in 1 .. MAX_CLIENTS /\ client'[j] \in ClientInfo
             /\ ClientSound(client'[j], now)
  BY <1>2, <1>4 DEF TableSound
<1> QED BY <1>3, <1>4 DEF TableSound, ClientSound, OffsetNear, TrueOffset

-----------------------------------------------------------------------------
(* IInv is inductive: time, the network and the sender *)

LEMMA InitSound == Init => IInv
<1>1. Init => OthersSound
  BY Sizes DEF Init, OthersSound, None
<1>2. Init => NetBounded /\ NetSound
  BY FS_EmptySet, Sizes DEF Init, NetBounded, NetSound
<1>3. Init => TableSound
  BY Sizes DEF Init, TableSound, InUse, Entries
<1>4. Init => LoopSound
  BY Sizes DEF Init, LoopSound, Handling
<1> QED BY <1>1, <1>2, <1>3, <1>4 DEF IInv

\* A datagram that joins the others, or leaves them.
LEMMA NetBoundedAdd ==
    ASSUME NetBounded, NEW m, NEW rest \in SUBSET net
    PROVE  /\ IsFiniteSet(rest) /\ Cardinality(rest) <= MaxInFlight
           /\ IsFiniteSet(rest \cup {m})
           /\ Cardinality(net) < MaxInFlight => Cardinality(net \cup {m}) <= MaxInFlight
<1>1. IsFiniteSet(net) /\ Cardinality(net) \in Nat
  BY FS_CardinalityType DEF NetBounded
<1>2. IsFiniteSet(rest) /\ Cardinality(rest) \in Nat /\ Cardinality(rest) <= Cardinality(net)
  BY <1>1, FS_Subset, FS_CardinalityType
<1>3. IsFiniteSet(rest \cup {m})
  BY <1>2, FS_AddElement
<1>4. Cardinality(net \cup {m}) <= Cardinality(net) + 1
  BY <1>1, FS_AddElement
<1>5. IsFiniteSet(net \cup {m}) /\ Cardinality(net \cup {m}) \in Nat
  BY <1>1, FS_AddElement, FS_CardinalityType
<1> QED BY <1>1, <1>2, <1>3, <1>4, <1>5, Sizes DEF NetBounded

\* Steps of others leave the table and the loop as they are.
LEMMA LoopKept ==
    ASSUME TableSound, LoopSound, UNCHANGED <<now, table, loop>>
    PROVE  TableSound' /\ LoopSound'
<1>1. TableSound'
  BY DEF TableSound, InUse, Entries, ClientSound, OffsetNear, TrueOffset, table, loop
<1>2. InUse' = InUse /\ RoundTrip' = RoundTrip
  BY DEF InUse, Entries, RoundTrip, table, loop
<1>3. LoopSound'
  BY <1>2 DEF LoopSound, Answered, ClockOf, table, loop
<1> QED BY <1>1, <1>3

LEMMA NetKept ==
    ASSUME NetSound, NetBounded, UNCHANGED <<now, net>>
    PROVE  NetSound' /\ NetBounded'
BY DEF NetSound, NetBounded, Answered, ClockOf

\* Only time passes, but what was so of the past still is.
LEMMA TickSound == ASSUME IInv, Tick PROVE IInv'
<1> USE DEF IInv, Tick, table, loop, sender
<1>1. OthersSound'
  BY Sizes DEF OthersSound
<1>2. now \in Int /\ now' = now + 1
  BY DEF OthersSound
<1>3. NetBounded'
  BY DEF NetBounded
<1>4. NetSound'
  <2>1. ASSUME NEW m \in net, Answered(m, now) PROVE Answered(m, now + 1)
    BY <1>2, <2>1, AnsweredLater
  <2>2. \A m : Answered(m, now)' <=> Answered(m, now + 1)
    BY <1>2 DEF Answered, ClockOf
  <2> QED BY <1>2, <2>1, <2>2 DEF NetSound, Requests
<1>5. TableSound'
  <2>1. InUse' = InUse
    BY DEF InUse, Entries
  <2>2. ASSUME NEW i \in InUse PROVE ClientSound(client[i], now + 1)
    BY <1>2, ClientSoundLater DEF TableSound
  <2> QED BY <1>2, <2>1, <2>2 DEF TableSound, ClientSound, OffsetNear, TrueOffset
<1>6. LoopSound'
  <2>1. InUse' = InUse /\ RoundTrip' = RoundTrip
    BY DEF InUse, Entries, RoundTrip
  <2> QED BY <1>2, <2>1 DEF LoopSound, Answered, ClockOf
<1> QED BY <1>1, <1>3, <1>4, <1>5, <1>6

\* An echo written now, of a request or of none.
LEMMA EchoIsAnswer ==
    ASSUME NEW h \in Hosts, NEW usec \in Int, usec <= now, now \in Int
    PROVE  Answered(Echo(h, usec, ClockOf(h, now)), now)
BY Clock DEF Answered, Echoes, Echo

LEMMA ClientSpeaksSound == ASSUME IInv, NEW h \in Hosts, ClientSpeaks(h) PROVE IInv'
<1> USE DEF IInv, ClientSpeaks, sender
<1>1. OthersSound'
  BY DEF OthersSound, table
<1>2. NetBounded'
  BY NetBoundedAdd DEF NetBounded
<1>3. Answered(Echo(h, 0, ClockOf(h, now)), now)
  BY EchoIsAnswer DEF OthersSound
<1>4. NetSound'
  BY <1>3 DEF NetSound, Answered, ClockOf
<1> QED BY <1>1, <1>2, <1>4, LoopKept

LEMMA ClientEchoesSound == ASSUME IInv, ClientEchoes PROVE IInv'
<1> USE DEF IInv, sender
<1>1. OthersSound'
  BY DEF OthersSound, ClientEchoes, table
<1>2. PICK m \in net, rest \in SUBSET net :
         /\ m.type = "request"
         /\ net' = rest \cup {Echo(m.host, m.cam_host_usec, ClockOf(m.host, now))}
  BY DEF ClientEchoes
<1>3. NetBounded'
  BY <1>2, NetBoundedAdd DEF NetBounded, ClientEchoes
<1>4. m \in Requests /\ m.cam_host_usec <= now
  BY <1>2 DEF NetSound, Answered, Echoes
<1>5. Answered(Echo(m.host, m.cam_host_usec, ClockOf(m.host, now)), now)
  BY <1>4, EchoIsAnswer DEF OthersSound, Requests
<1>6. NetSound'
  BY <1>2, <1>5 DEF NetSound, ClientEchoes, Answered, ClockOf
<1> QED BY <1>1, <1>3, <1>6, LoopKept DEF ClientEchoes

LEMMA NetLosesSound == ASSUME IInv, NetLoses PROVE IInv'
<1> USE DEF IInv, NetLoses, sender
<1>1. OthersSound'
  BY DEF OthersSound, table
<1>2. PICK rest \in SUBSET net : net' = rest
  OBVIOUS
<1>3. NetBounded'
  BY <1>2, NetBoundedAdd DEF NetBounded
<1>4. NetSound'
  BY <1>2 DEF NetSound, Answered, ClockOf
<1> QED BY <1>1, <1>3, <1>4, LoopKept

LEMMA SenderSound == ASSUME IInv, Sender \/ ConstructorChecks PROVE IInv'
<1> USE DEF IInv
<1>1. UNCHANGED <<now, net, table, loop>>
  BY DEF Sender, SenderLocks, SenderSends, ConstructorChecks
<1>2. OthersSound'
  <2>1. CASE Sender
    BY <2>1 DEF OthersSound, Sender, SenderLocks, SenderSends, TableSound, table, None
  <2>2. CASE ConstructorChecks
    BY <2>2 DEF OthersSound, ConstructorChecks, sender, table
  <2> QED BY <2>1, <2>2
<1> QED BY <1>1, <1>2, LoopKept, NetKept

-----------------------------------------------------------------------------
(* IInv is inductive: the message loop *)

LEMMA LoopTimesOutSound == ASSUME IInv, LoopTimesOut PROVE IInv'
<1> USE DEF IInv, LoopTimesOut, sender, table
<1>1. OthersSound' /\ NetSound' /\ NetBounded'
  BY NetKept DEF OthersSound
<1>2. InUse' = InUse /\ 1 \in InUse'
  BY DEF InUse, Entries, LoopSound, TableSound
<1>3. TableSound'
  BY <1>2 DEF TableSound, ClientSound, OffsetNear, TrueOffset
<1>4. LoopSound'
  BY <1>2 DEF LoopSound, Handling
<1> QED BY <1>1, <1>3, <1>4

LEMMA LoopSendsSound == ASSUME IInv, LoopSends PROVE IInv'
<1> USE DEF IInv, LoopSends, sender, table
<1>1. OthersSound'
  BY DEF OthersSound
<1>2. client[l_client].host \in Hosts
  BY AtClient DEF ClientInfo
<1> DEFINE r == Request(client[l_client].host, now)
<1>3. r \in Requests /\ r.cam_host_usec <= now
  BY <1>2 DEF Request, Requests, OthersSound
<1> HIDE DEF r
<1>4. net' \in {net, net \cup {r}}
  BY DEF r
<1>5. NetSound'
  BY <1>3, <1>4 DEF NetSound, Answered, ClockOf
<1>6. NetBounded'
  BY <1>4, NetBoundedAdd DEF NetBounded
<1>7. InUse' = InUse
  BY DEF InUse, Entries
<1>8. TableSound'
  BY <1>7 DEF TableSound, ClientSound, OffsetNear, TrueOffset
<1>9. LoopSound'
  BY <1>7 DEF LoopSound, Handling, Answered, ClockOf
<1> QED BY <1>1, <1>5, <1>6, <1>8, <1>9

LEMMA LoopMarksSound == ASSUME IInv, LoopMarks PROVE IInv'
<1> USE DEF IInv, LoopMarks, sender
<1>1. OthersSound' /\ NetSound' /\ NetBounded'
  BY NetKept DEF OthersSound
<1> DEFINE c == [client[l_client] EXCEPT !.is_disconnected = ~l_sent]
<1>2. c \in ClientInfo /\ ClientSound(c, now)
  BY AtClient DEF ClientInfo, ClientSound, OffsetNear, TrueOffset, LoopSound
<1>3. InUse = Entries /\ InUse' = InUse
  BY DEF InUse, Entries
<1>4. client' = [client EXCEPT ![l_client] = c]
  OBVIOUS
<1> HIDE DEF c
<1>5. TableSound'
  BY <1>2, <1>3, <1>4, AtClient, EntryWritten
<1>6. LoopSound'
  <2>1. CASE l_msg = NoMessage /\ l_client < client_count
    <3>1. l_client + 1 \in InUse'
      BY <1>3, <2>1, AtClient DEF Entries, TableSound
    <3> QED BY <2>1, <3>1, AtClient DEF LoopSound, Handling, NoMessage
  <2>2. CASE ~(l_msg = NoMessage /\ l_client < client_count)
    BY <2>2 DEF LoopSound, Handling, OthersSound
  <2> QED BY <2>1, <2>2
<1> QED BY <1>1, <1>5, <1>6

\* An echo from the network is an answer: what a sample needs.
LEMMA EchoOnNet ==
    ASSUME IInv, NEW m \in net, m.type = "echo"
    PROVE  Answered(m, now) /\ m.host \in Hosts /\ m # NoMessage
BY DEF IInv, NetSound, Requests, Answered, Echoes, NoMessage, None

LEMMA LoopReceivesSound == ASSUME IInv, LoopReceives PROVE IInv'
<1> USE DEF IInv
<1>1. OthersSound'
  BY DEF OthersSound, LoopReceives, sender
<1>2. PICK m \in net :
         /\ m.type = "echo" /\ net' \in {net, net \ {m}} /\ l_msg' = m
         /\ \/ /\ l_client' \in Known(m.host) /\ l_pc' = "echo" /\ UNCHANGED client
            \/ /\ HasRoom /\ l_client' = client_count + 1 /\ l_pc' = "publish"
               /\ client' = [client EXCEPT ![client_count + 1] = NewClient(m.host)]
  BY DEF LoopReceives
<1>3. /\ l_pc = "select" /\ arrive_usec' = now
      /\ UNCHANGED <<now, client_count, owner, l_sent, sender, c_pc>>
  BY DEF LoopReceives
<1>4. Answered(m, now) /\ m.host \in Hosts /\ m # NoMessage
  BY <1>2, EchoOnNet
<1>5. PICK rest \in SUBSET net : net' = rest
  BY <1>2
<1>6. NetBounded'
  BY <1>5, NetBoundedAdd DEF NetBounded
<1>7. NetSound'
  BY <1>3, <1>5 DEF NetSound, Answered, ClockOf
<1>8. client_count \in Nat /\ InUse = Entries /\ now \in Nat
  BY <1>3 DEF InUse, TableSound, OthersSound
<1>9. CASE /\ l_client' \in Known(m.host) /\ l_pc' = "echo" /\ UNCHANGED client
  <2>1. InUse' = InUse
    BY <1>3, <1>9 DEF InUse, Entries
  <2>2. TableSound'
    BY <1>3, <1>9, <2>1 DEF TableSound, ClientSound, OffsetNear, TrueOffset
  <2>3. l_client' \in InUse /\ SameClient(m.host, client[l_client'].host)
    BY <1>8, <1>9 DEF Known, Entries
  <2>4. DistinctPorts => client[l_client'].host = m.host
    BY <1>4, <2>3 DEF DistinctPorts, SameClient, TableSound, ClientInfo
  <2>5. LoopSound'
    BY <1>2, <1>3, <1>4, <1>8, <1>9, <2>1, <2>3, <2>4
       DEF LoopSound, Handling, Entries, Answered, ClockOf
  <2> QED BY <1>1, <1>6, <1>7, <2>2, <2>5
<1>10. CASE /\ HasRoom /\ l_client' = client_count + 1 /\ l_pc' = "publish"
            /\ client' = [client EXCEPT ![client_count + 1] = NewClient(m.host)]
  <2>1. InUse' = InUse \cup {client_count + 1} /\ client_count + 1 \in 1 .. MAX_CLIENTS
    BY <1>3, <1>8, <1>10, Sizes DEF InUse, Entries, HasRoom
  <2>2. NewClient(m.host) \in ClientInfo /\ ClientSound(NewClient(m.host), now)
    BY <1>4, Sizes DEF NewClient, ClientInfo, ClientSound
  <2>3. /\ client' \in [1 .. MAX_CLIENTS -> ClientInfo \cup {NoClient}]
        /\ client'[client_count + 1] = NewClient(m.host)
        /\ \A i \in InUse : client'[i] = client[i]
    BY <1>8, <1>10, <2>1, <2>2 DEF TableSound, Entries
  <2>4. \A i \in InUse' : /\ i \in 1 .. MAX_CLIENTS /\ client'[i] \in ClientInfo
                          /\ ClientSound(client'[i], now)
    BY <2>1, <2>2, <2>3 DEF TableSound
  <2>5. TableSound'
    BY <1>3, <2>3, <2>4 DEF TableSound, ClientSound, OffsetNear, TrueOffset
  <2>6. client'[l_client'].host = m.host
    BY <1>10, <2>3 DEF NewClient
  <2>7. LoopSound'
    BY <1>2, <1>3, <1>4, <1>8, <1>10, <2>1, <2>6
       DEF LoopSound, Handling, Answered, ClockOf
  <2> QED BY <1>1, <1>6, <1>7, <2>5, <2>7
<1> QED BY <1>2, <1>9, <1>10

LEMMA LoopIgnoresSound == ASSUME IInv, LoopIgnores PROVE IInv'
<1> USE DEF IInv, LoopIgnores, sender
<1>1. OthersSound'
  BY DEF OthersSound, table
<1>2. PICK rest \in SUBSET net : net' = rest
  OBVIOUS
<1>3. NetBounded' /\ NetSound'
  BY <1>2, NetBoundedAdd DEF NetBounded, NetSound, Answered, ClockOf
<1> QED BY <1>1, <1>3, LoopKept

LEMMA LoopPublishesSound == ASSUME IInv, LoopPublishes PROVE IInv'
<1> USE DEF IInv, LoopPublishes, sender
<1>1. client_count \in Nat /\ client_count + 1 \in InUse /\ client_count + 1 <= MAX_CLIENTS
  BY Sizes DEF InUse, TableSound
<1>2. OthersSound' /\ NetSound' /\ NetBounded'
  BY <1>1, NetKept DEF OthersSound
<1>3. InUse' = InUse
  BY <1>1 DEF InUse, Entries
<1>4. TableSound'
  BY <1>1, <1>3, Sizes DEF TableSound, ClientSound, OffsetNear, TrueOffset
<1>5. LoopSound'
  BY <1>3 DEF LoopSound, Handling, Answered, ClockOf
<1> QED BY <1>2, <1>4, <1>5

-----------------------------------------------------------------------------
(* IInv is inductive: handle_echo_time *)

\* The client and the echo that are at hand.
LEMMA AtEcho ==
    ASSUME IInv, l_pc \in Handling
    PROVE  /\ Answered(l_msg, arrive_usec)
           /\ l_msg.client_msec \in Int /\ l_msg.cam_host_usec \in Int
           /\ RoundTrip \in Nat /\ arrive_usec <= now /\ arrive_usec \in Int /\ now \in Int
           /\ DistinctPorts => client[l_client].host = l_msg.host
BY DEF IInv, LoopSound, OthersSound, Answered, Echoes, RoundTrip, Handling

\* A step of handle_echo_time that writes c to the client's entry: the datagram
\* is the same, and of the client only what c says is new.
LEMMA EchoStep ==
    ASSUME IInv, l_pc \in Handling \ {"publish"}, l_pc' \in Handling \ {"publish"},
           NEW c \in ClientInfo, ClientSound(c, now), c.host = client[l_client].host,
           client' = [client EXCEPT ![l_client] = c],
           l_pc' \in {"offset", "count"} =>
               /\ c.client_start_time_msec # Unset
               /\ RoundTrip < max_round_trip_usecs,
           l_pc' = "count" => c.min_offset_usec # Unset,
           UNCHANGED <<now, net, client_count, owner, l_client, l_msg, arrive_usec, l_sent,
                       sender, c_pc>>
    PROVE  IInv'
<1> USE DEF IInv
<1>1. OthersSound' /\ NetSound' /\ NetBounded'
  BY NetKept DEF OthersSound, sender
<1>2. InUse' = InUse /\ l_client \in InUse /\ l_pc # "select"
  BY DEF InUse, Entries, LoopSound, Handling
<1>3. TableSound'
  BY <1>2, EntryWritten
<1>4. client'[l_client] = c
  BY <1>2 DEF TableSound
<1>5. LoopSound'
  BY <1>2, <1>4 DEF LoopSound, Handling, Answered, ClockOf, RoundTrip
<1> QED BY <1>1, <1>3, <1>5

\* The start time is one that the client's clock has shown.
LEMMA EchoNotesStartSound == ASSUME IInv, EchoNotesStart PROVE IInv'
<1> DEFINE old == client[l_client]
           c == IF old.client_start_time_msec = Unset
                THEN [old EXCEPT !.client_start_time_msec = l_msg.client_msec] ELSE old
<1>0. l_pc \in Handling \ {"publish"} /\ l_pc = "echo"
  BY DEF EchoNotesStart, Handling
<1>1. /\ l_pc \in Handling \ {"publish"} /\ l_pc # "select"
      /\ l_pc' \in {"offset", "next"} /\ ~(RoundTrip < 0)
      /\ l_pc' = "offset" => RoundTrip < max_round_trip_usecs
  <2>1. RoundTrip \in Nat
    BY <1>0, AtEcho
  <2>2. ~(RoundTrip < 0)
    BY <2>1
  <2> QED BY <1>0, <2>2 DEF EchoNotesStart
<1>2. old \in ClientInfo /\ ClientSound(old, now)
  BY <1>1, AtClient
<1>3. c \in ClientInfo /\ c.host = old.host /\ c.client_start_time_msec # Unset
  BY <1>1, <1>2, AtEcho, Sizes DEF ClientInfo
<1>4. DistinctPorts => UsecsPerMsec * l_msg.client_msec <= now + Phase[old.host]
  <2> SUFFICES ASSUME DistinctPorts
               PROVE  UsecsPerMsec * l_msg.client_msec <= now + Phase[old.host]
    OBVIOUS
  <2>1. PICK e \in l_msg.cam_host_usec .. arrive_usec :
            l_msg.client_msec = ClockOf(old.host, e)
    BY <1>1, AtEcho DEF Answered
  <2>2. e \in Int /\ e <= now /\ now \in Int
    BY <1>1, <2>1, AtEcho
  <2>3. old.host \in Hosts
    BY <1>2 DEF ClientInfo
  <2>4. UsecsPerMsec * ClockOf(old.host, e) <= e + Phase[old.host]
    BY <2>2, <2>3, Clock
  <2>5. UsecsPerMsec * ClockOf(old.host, e) \in Int /\ Phase[old.host] \in Int
    BY <2>2, <2>3, Clock, Sizes
  <2> QED BY <2>1, <2>2, <2>4, <2>5
<1>5. ClientSound(c, now)
  BY <1>2, <1>4 DEF ClientSound, ClientInfo, OffsetNear, TrueOffset
<1>6. client' = [client EXCEPT ![l_client] = c]
  BY <1>1, AtClient DEF EchoNotesStart, IInv, TableSound
<1>7. UNCHANGED <<now, net, client_count, owner, l_client, l_msg, arrive_usec, l_sent,
                  sender, c_pc>>
  BY <1>1 DEF EchoNotesStart
<1> HIDE DEF c
<1>8. l_pc' \in Handling \ {"publish"}
  BY <1>1 DEF Handling
<1> QED BY <1>1, <1>3, <1>5, <1>6, <1>7, <1>8, EchoStep

\* The offset of one sample, and so the least of all, is near the true one.
LEMMA EchoNotesOffsetSound == ASSUME IInv, EchoNotesOffset PROVE IInv'
<1> DEFINE old == client[l_client]
           c == IF old.min_offset_usec = Unset \/ Offset < old.min_offset_usec
                THEN [old EXCEPT !.min_offset_usec = Offset] ELSE old
<1>1. l_pc = "offset" /\ l_pc \in Handling \ {"publish"} /\ l_pc' = "count"
  BY DEF EchoNotesOffset, Handling
<1>2. old \in ClientInfo /\ ClientSound(old, now)
  BY <1>1, AtClient
<1>3. old.client_start_time_msec \in Int /\ RoundTrip < max_round_trip_usecs
  BY <1>1, <1>2 DEF ClientInfo, IInv, LoopSound
<1>4. Offset \in Int
  <2> DEFINE sinceStart == UsecsPerMsec * (l_msg.client_msec - old.client_start_time_msec)
  <2>1. l_msg.cam_host_usec \in Int /\ RoundTrip \div 2 \in Int /\ sinceStart \in Int
    BY <1>1, <1>3, AtEcho, Sizes
  <2>2. Offset = l_msg.cam_host_usec + (RoundTrip \div 2 - sinceStart)
    BY Zenon DEF Offset
  <2> HIDE DEF sinceStart
  <2> QED BY <2>1, <2>2
<1>5. ASSUME DistinctPorts
      PROVE  LET error == Offset - TrueOffset(old)
             IN  -(max_round_trip_usecs \div 2) <= error /\ error <= Half + UsecsPerMsec - 1
  <2>1. PICK e \in l_msg.cam_host_usec .. arrive_usec :
            l_msg.client_msec = ClockOf(old.host, e)
    BY <1>1, <1>5, AtEcho DEF Answered
  <2>2. old.host \in Hosts
    BY <1>2 DEF ClientInfo
  <2>3. l_msg.cam_host_usec \in Int /\ arrive_usec \in Int
    BY <1>1, AtEcho
  <2>4. arrive_usec - l_msg.cam_host_usec < max_round_trip_usecs
    BY <1>3 DEF RoundTrip
  <2> QED BY <2>1, <2>2, <2>3, <2>4, <1>3, SampleNear DEF Offset, RoundTrip, TrueOffset
<1>6. c \in ClientInfo /\ c.host = old.host /\ c.min_offset_usec # Unset
      /\ c.client_start_time_msec = old.client_start_time_msec
  BY <1>2, <1>4, Sizes DEF ClientInfo
<1>7. ClientSound(c, now)
  <2>1. DistinctPorts => OffsetNear(c)
    BY <1>2, <1>5, <1>6 DEF ClientSound, ClientInfo, OffsetNear, TrueOffset
  <2> QED BY <1>2, <1>3, <1>6, <2>1, Sizes DEF ClientSound, ClientInfo
<1>8. client' = [client EXCEPT ![l_client] = c]
  BY <1>1, AtClient DEF EchoNotesOffset, IInv, TableSound
<1>9. UNCHANGED <<now, net, client_count, owner, l_client, l_msg, arrive_usec, l_sent,
                  sender, c_pc>>
  BY DEF EchoNotesOffset
<1>10. c.client_start_time_msec # Unset
  BY <1>3, <1>6, Sizes
<1> HIDE DEF c
<1>11. l_pc' \in Handling \ {"publish"}
  BY <1>1 DEF Handling
<1> QED BY <1>1, <1>3, <1>6, <1>7, <1>8, <1>9, <1>10, <1>11, EchoStep

LEMMA EchoCountsSound == ASSUME IInv, EchoCounts PROVE IInv'
<1> DEFINE old == client[l_client]
           c == Counted(old)
           m == max_round_trip_usecs - 1
           n == old.sample_count + 1
           sum == old.sum_half_round_trip_usec + RoundTrip
<1>1. l_pc = "count" /\ l_pc \in Handling \ {"publish"} /\ l_pc' \in {"signal", "next"}
  BY DEF EchoCounts, Handling
<1>2. old \in ClientInfo /\ ClientSound(old, now)
  BY <1>1, AtClient
<1>3. /\ old.client_start_time_msec # Unset /\ old.min_offset_usec # Unset
      /\ RoundTrip < max_round_trip_usecs /\ RoundTrip \in Nat
  BY <1>1, AtEcho DEF IInv, LoopSound
<1>4. sum \in Nat /\ n \in Nat \ {0} /\ sum <= n * m
  <2>1. /\ old.sample_count \in Nat /\ old.sum_half_round_trip_usec \in Nat
        /\ old.sum_half_round_trip_usec <= old.sample_count * m
    BY <1>2 DEF ClientInfo, ClientSound
  <2>2. m \in Nat /\ RoundTrip <= m
    BY <1>3, Sizes
  <2>3. n * m = old.sample_count * m + m
    BY <2>1, <2>2
  <2>4. old.sample_count * m \in Nat
    BY <2>1, <2>2
  <2> HIDE DEF m
  <2> QED BY <1>3, <2>1, <2>2, <2>3, <2>4
<1>5. sum \div (2 * n) \in 0 .. Half
  BY <1>4, MeanBound
<1>6. c = [old EXCEPT !.sum_half_round_trip_usec = sum, !.sample_count = n,
                      !.mean_half_round_trip_usec =
                          IF n >= max_samples THEN sum \div (2 * n) ELSE @]
  BY DEF Counted
<1> HIDE DEF c, sum, n
<1>7. /\ c \in ClientInfo /\ c.host = old.host /\ c.sample_count = n
      /\ c.sum_half_round_trip_usec = sum
      /\ c.client_start_time_msec = old.client_start_time_msec
      /\ c.min_offset_usec = old.min_offset_usec
  BY <1>2, <1>4, <1>5, <1>6 DEF ClientInfo
<1>8. ClientSound(c, now)
  BY <1>2, <1>3, <1>4, <1>7 DEF ClientSound, OffsetNear, TrueOffset
<1>9. client' = [client EXCEPT ![l_client] = c]
  BY DEF EchoCounts, c
<1>10. UNCHANGED <<now, net, client_count, owner, l_client, l_msg, arrive_usec, l_sent,
                   sender, c_pc>>
  BY DEF EchoCounts
<1>11. l_pc' \in Handling \ {"publish", "offset", "count"}
  BY <1>1 DEF Handling
<1> QED BY <1>1, <1>7, <1>8, <1>9, <1>10, <1>11, EchoStep

LEMMA EchoLeavesSound == ASSUME IInv, EchoSignals \/ EchoEnds PROVE IInv'
<1> USE DEF IInv
<1>1. OthersSound' /\ NetSound' /\ NetBounded'
  BY NetKept DEF OthersSound, EchoSignals, EchoEnds, sender, table
<1>2. InUse' = InUse
  BY DEF InUse, Entries, EchoSignals, EchoEnds, table
<1>3. TableSound'
  BY <1>2 DEF TableSound, ClientSound, OffsetNear, TrueOffset, EchoSignals, EchoEnds, table
<1>4. LoopSound'
  <2>1. CASE EchoSignals
    BY <1>2, <2>1 DEF LoopSound, Handling, Answered, ClockOf, EchoSignals, table
  <2>2. CASE EchoEnds /\ l_pc' = "send"
    BY <1>2, <2>2 DEF LoopSound, Handling, Answered, ClockOf, EchoEnds, table
  <2>3. CASE EchoEnds /\ l_pc' = "select"
    BY <2>3 DEF LoopSound, OthersSound, Handling, EchoEnds, table
  <2> QED BY <2>1, <2>2, <2>3 DEF EchoEnds
<1> QED BY <1>1, <1>3, <1>4

-----------------------------------------------------------------------------
(* The theorems *)

LEMMA StepSound == ASSUME IInv, [Next]_vars PROVE IInv'
<1>1. CASE UNCHANGED vars
  BY <1>1, LoopKept, NetKept DEF IInv, OthersSound, vars, sender, table, loop
<1>2. ASSUME NEW h \in Hosts, ClientSpeaks(h) PROVE IInv'
  BY <1>2, ClientSpeaksSound
<1> QED
  BY <1>1, <1>2, TickSound, ClientEchoesSound, NetLosesSound, SenderSound, LoopTimesOutSound,
     LoopSendsSound, LoopMarksSound, LoopReceivesSound, LoopIgnoresSound, LoopPublishesSound,
     EchoNotesStartSound, EchoNotesOffsetSound, EchoCountsSound, EchoLeavesSound
  DEF Next, Loop

LEMMA AlwaysSound == Spec => []IInv
<1>1. IInv /\ [Next]_vars => IInv'
  BY StepSound
<1> QED BY InitSound, <1>1, PTL DEF Spec

\* A published entry, and what IInv says of it.
LEMMA AtEntry ==
    ASSUME IInv, NEW i \in Entries
    PROVE  client[i] \in ClientInfo /\ ClientSound(client[i], now)
BY DEF IInv, TableSound, InUse

\* For every size of the table, entries that are counted are written, and the
\* indices of the loop and of the sender are in range (lookup_client_info).
THEOREM TypeCorrect == Spec => []TypeOK
<1>1. IInv => TypeOK
  <2> SUFFICES ASSUME IInv PROVE TypeOK
    OBVIOUS
  <2>1. /\ now \in 0 .. MaxTime /\ arrive_usec \in 0 .. MaxTime
        /\ owner \in {None, "sender"} /\ s_pc \in {"idle", "send"}
        /\ s_client \in 0 .. client_count /\ c_pc \in {"lock", "wait", "returned"}
        /\ l_pc \in {"select", "send", "mark", "publish", "echo", "offset", "count", "signal",
                     "next"}
    BY Sizes DEF IInv, OthersSound, LoopSound, Handling
  <2>2. Cardinality(net) <= MaxInFlight /\ client_count \in 0 .. MAX_CLIENTS
    BY DEF IInv, NetBounded, TableSound
  <2>3. \A i \in Entries : client[i].host \in Hosts
    BY AtEntry DEF ClientInfo
  <2>4. l_client \in 0 .. MAX_CLIENTS
    BY Sizes DEF IInv, LoopSound, TableSound
  <2> QED BY <2>1, <2>2, <2>3, <2>4 DEF TypeOK
<1> QED BY <1>1, AlwaysSound, PTL

\* However the loop's unlocked writes fall between the sender's reads, a client
\* with a sample has an offset and a start time (handle_echo_time).
THEOREM AlwaysClock == Spec => []ConnectedHasClock
<1>1. IInv => ConnectedHasClock
  BY AtEntry DEF ConnectedHasClock, ClientSound
<1> QED BY <1>1, AlwaysSound, PTL

\* If sockaddr_equal can tell the hosts apart, a sample is of the clock of the
\* host that sent it.
THEOREM AlwaysOwnClient == ASSUME DistinctPorts PROVE Spec => []OwnClient
<1>1. IInv => OwnClient
  BY DEF IInv, LoopSound, OwnClient
<1> QED BY <1>1, AlwaysSound, PTL

\* And the offset is near the true one whatever is lost, repeated, delayed or
\* overtaken: samples only ever bring the least of such offsets.
THEOREM AlwaysOffsetSound == ASSUME DistinctPorts PROVE Spec => []OffsetSound
<1>1. IInv => OffsetSound
  BY AtEntry DEF OffsetSound, ClientSound
<1> QED BY <1>1, AlwaysSound, PTL

-----------------------------------------------------------------------------
(* The time sent with the blobs *)

\* C's division is the floor of a quotient that is not negative, and at most 0
\* and not below the floor of one that is.
LEMMA QuotientBounds ==
    ASSUME NEW x \in Int, NEW k \in Nat \ {0}
    PROVE  /\ Quotient(x, k) \in Int
           /\ x < k * Quotient(x, k) + k
           /\ x >= 0 => k * Quotient(x, k) <= x
           /\ x < 0 => Quotient(x, k) <= 0
<1>1. CASE x >= 0
  BY <1>1, Floor DEF Quotient
<1>2. CASE x < 0
  <2> DEFINE q == (-x) \div k
  <2>1. q \in Int /\ k * q <= -x /\ -x < k * q + k /\ Quotient(x, k) = -q
    BY <1>2, Floor DEF Quotient
  <2> HIDE DEF q
  <2>2. q >= 0
    <3>1. k * 0 < k * (q + 1)
      BY <1>2, <2>1
    <3> QED BY <3>1, <2>1, Cancel
  <2>3. k * (-q) = -(k * q) /\ k * q \in Int
    BY <2>1
  <2> QED BY <1>2, <2>1, <2>2, <2>3
<1> QED BY <1>1, <1>2

\* A clock that shows s after time u, or not before it.
LEMMA ShownBetween ==
    ASSUME NEW h \in Hosts, NEW u \in Int, NEW s \in Int
    PROVE  /\ UsecsPerMsec * s <= u + Phase[h] => s <= ClockOf(h, u)
           /\ u + Phase[h] < UsecsPerMsec * s + UsecsPerMsec => ClockOf(h, u) <= s
<1>1. /\ ClockOf(h, u) \in Int /\ Phase[h] \in Int /\ UsecsPerMsec \in Nat \ {0}
      /\ UsecsPerMsec * ClockOf(h, u) <= u + Phase[h]
      /\ u + Phase[h] < UsecsPerMsec * ClockOf(h, u) + UsecsPerMsec
  BY Clock, Sizes
<1>2. ASSUME UsecsPerMsec * s <= u + Phase[h] PROVE s <= ClockOf(h, u)
  <2>1. UsecsPerMsec * s < UsecsPerMsec * (ClockOf(h, u) + 1)
    BY <1>1, <1>2
  <2> QED BY <1>1, <2>1, Cancel
<1>3. ASSUME u + Phase[h] < UsecsPerMsec * s + UsecsPerMsec PROVE ClockOf(h, u) <= s
  <2>1. UsecsPerMsec * ClockOf(h, u) < UsecsPerMsec * (s + 1)
    BY <1>1, <1>3
  <2> QED BY <1>1, <2>1, Cancel
<1> QED BY <1>2, <1>3

LEMMA PredictionNear ==
    ASSUME DistinctPorts, NEW c \in ClientInfo, NEW t \in Int, ClientSound(c, t),
           c.sample_count > 0
    PROVE  LET shown == ToClientMsecs(c, t)
           IN  /\ ClockOf(c.host, t - Half - UsecsPerMsec + 1) <= shown
               /\ shown <= ClockOf(c.host, t + max_round_trip_usecs - 1)
<1> DEFINE h == c.host
           K == UsecsPerMsec
           start == c.client_start_time_msec
           offset == c.min_offset_usec
           mean == c.mean_half_round_trip_usec
           x == t + mean - offset
           q == Quotient(x, K)
           most == max_round_trip_usecs
<1>1. h \in Hosts /\ Phase[h] \in Int /\ K \in Nat \ {0} /\ most \in Nat \ {0}
  BY Sizes DEF ClientInfo
<1>2. start \in Int /\ offset \in Int /\ mean \in 0 .. Half
  BY DEF ClientInfo, ClientSound
<1>3. /\ K * start <= t + Phase[h]
      /\ -(most \div 2) <= offset - (K * start - Phase[h])
      /\ offset - (K * start - Phase[h]) <= Half + K - 1
  BY <1>2, Sizes DEF ClientSound, OffsetNear, TrueOffset
<1>4. ToClientMsecs(c, t) = q + start
  BY DEF ToClientMsecs
<1>5. Half \in Nat /\ most \div 2 \in Int /\ Half + most \div 2 = most - 1
  BY <1>1 DEF Half
<1>6. K * start \in Int /\ x \in Int
  BY <1>1, <1>2, <1>5
<1>7. /\ q \in Int /\ x < K * q + K
      /\ x >= 0 => K * q <= x
      /\ x < 0 => q <= 0
  BY <1>1, <1>6, QuotientBounds
<1> HIDE DEF h, K, start, offset, mean, q, most
<1>8. K * (q + start) = K * q + K * start /\ K * q \in Int
  BY <1>1, <1>2, <1>7
<1>9. t - Half - K + 1 + Phase[h] < K * (q + start) + K
  BY <1>1, <1>2, <1>3, <1>5, <1>6, <1>7, <1>8 DEF x
<1>10. K * (q + start) <= t + most - 1 + Phase[h]
  <2>1. CASE x >= 0
    BY <2>1, <1>1, <1>2, <1>3, <1>5, <1>6, <1>7, <1>8 DEF x
  <2>2. CASE x < 0
    <3>1. K * q <= 0
      BY <2>2, <1>1, <1>7
    <3> QED BY <3>1, <1>1, <1>3, <1>6, <1>8
  <2> QED BY <2>1, <2>2, <1>6
<1>11. q + start \in Int /\ t - Half - K + 1 \in Int /\ t + most - 1 \in Int
  BY <1>1, <1>2, <1>5, <1>7
<1>12. /\ ClockOf(h, t - Half - K + 1) <= q + start
       /\ q + start <= ClockOf(h, t + most - 1)
  BY <1>1, <1>9, <1>10, <1>11, ShownBetween DEF K
<1> QED BY <1>4, <1>12 DEF h, K, most

\* So the time that udp_comms_send_blobs_to_all sends is where the client's
\* clock may be when the message arrives.
THEOREM AlwaysPredictionSound == ASSUME DistinctPorts PROVE Spec => []PredictionSound
<1>1. IInv => PredictionSound
  <2> SUFFICES ASSUME IInv, s_pc = "send", client[s_client].sample_count > 0
               PROVE  LET shown == ToClientMsecs(client[s_client], now)
                          h == client[s_client].host
                      IN  /\ ClockOf(h, now - Half - UsecsPerMsec + 1) <= shown
                          /\ shown <= ClockOf(h, now + max_round_trip_usecs - 1)
    BY DEF PredictionSound
  <2>1. s_client \in Entries /\ now \in Int
    BY DEF IInv, OthersSound, TableSound, Entries
  <2> QED BY <2>1, AtEntry, PredictionNear
<1> QED BY <1>1, AlwaysSound, PTL
===============================================================================
