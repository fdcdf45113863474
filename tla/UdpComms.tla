------------------------------- MODULE UdpComms -------------------------------
(***************************************************************************)
(* The UDP server of the camera (udp_comms.c): the message loop's thread,  *)
(* which keeps a table of the clients that ever spoke to it and measures   *)
(* how far their clocks are from its own; the splitter's thread, which     *)
(* sends the blobs of an image to all of them; and a constructor that was  *)
(* asked to block until there is a connection.                             *)
(*                                                                         *)
(* Datagrams are lost, repeated, delayed and overtaken.  A client's clock  *)
(* counts milliseconds, and ours microseconds, of which there are          *)
(* UsecsPerMsec in the model as well.                                      *)
(*                                                                         *)
(* Left out: the counts of failed sends and when they are logged, the time *)
(* of the last ping, and messages that are no echoes, which no client in   *)
(* the repository sends.  The blobs themselves are of no interest here.    *)
(***************************************************************************)
EXTENDS Integers, FiniteSets

CONSTANTS
    Hosts,
    Port,                   \* each host's UDP port
    Phase,                  \* each host's clock at our time 0, in usecs
    UsecsPerMsec,           \* 1000
    MAX_CLIENTS,
    max_samples,
    max_round_trip_usecs,
    Unset,                  \* INT64_MIN and INT64_MAX, where they mean no value
    MaxTime,                \* bound: the last moment
    MaxInFlight,            \* bound: datagrams on their way
    MaxSamplesSeen          \* bound: samples of a client; later ones are left out

ASSUME UdpAssumption ==
    /\ Phase \in [Hosts -> Int]
    /\ {UsecsPerMsec, MAX_CLIENTS, max_samples, max_round_trip_usecs} \subseteq Nat \ {0}
    /\ Unset \notin Int
    /\ MaxTime \in Nat /\ max_round_trip_usecs <= MaxTime
    /\ MaxInFlight \in Nat /\ MaxSamplesSeen \in Nat

VARIABLES
    now,                    \* get_usecs, CLOCK_MONOTONIC
    net,                    \* datagrams on their way
    client,                 \* 1 .. MAX_CLIENTS -> Client_Info
    client_count,
    owner,                  \* holder of lock_mutex
    l_pc, l_client,         \* the message loop, the client it is at
    l_msg, arrive_usec,     \* the datagram it handles, and when that arrived
    l_sent,                 \* did the last sendto succeed?
    s_pc, s_client,         \* udp_comms_send_blobs_to_all, the client it is at
    c_pc                    \* udp_comms_construct

loop == <<l_pc, l_client, l_msg, arrive_usec, l_sent>>
sender == <<s_pc, s_client>>
table == <<client, client_count>>
vars == <<now, net, table, owner, loop, sender, c_pc>>

None == "none"

\* What a host's clock shows, in msecs.
ClockOf(h, usec) == (usec + Phase[h]) \div UsecsPerMsec

Request(h, usec) == [type |-> "request", host |-> h, cam_host_usec |-> usec]
Echo(h, usec, msec) ==
    [type |-> "echo", host |-> h, cam_host_usec |-> usec, client_msec |-> msec]

NoMessage == [type |-> None]

\* An entry of the table before it is used.
NoClient == [host |-> None]

NewClient(h) ==
    [host |-> h, client_start_time_msec |-> Unset, min_offset_usec |-> Unset,
     sum_half_round_trip_usec |-> 0, mean_half_round_trip_usec |-> 0,
     sample_count |-> 0, is_disconnected |-> FALSE]

\* The camera has been up for longer than the longest round trip accepted.
Init ==
    /\ now = max_round_trip_usecs
    /\ net = {}
    /\ client = [i \in 1 .. MAX_CLIENTS |-> NoClient] /\ client_count = 0
    /\ owner = None
    /\ l_pc = "select" /\ l_client = 0 /\ l_msg = NoMessage
    /\ arrive_usec = 0 /\ l_sent = TRUE
    /\ s_pc = "idle" /\ s_client = 0
    /\ c_pc = "lock"

-----------------------------------------------------------------------------
(* Time and the network *)

Tick ==
    /\ now < MaxTime /\ now' = now + 1
    /\ UNCHANGED <<net, table, owner, loop, sender, c_pc>>

\* A client makes itself known with an echo of a request it never got.
ClientSpeaks(h) ==
    /\ Cardinality(net) < MaxInFlight
    /\ net' = net \cup {Echo(h, 0, ClockOf(h, now))}
    /\ UNCHANGED <<now, table, owner, loop, sender, c_pc>>

\* A client echoes a request; the request may come again.
ClientEchoes ==
    /\ \E m \in net :
          /\ m.type = "request"
          /\ \E rest \in {net, net \ {m}} :
                net' = rest \cup {Echo(m.host, m.cam_host_usec, ClockOf(m.host, now))}
    /\ Cardinality(net') <= MaxInFlight
    /\ UNCHANGED <<now, table, owner, loop, sender, c_pc>>

NetLoses ==
    /\ \E m \in net : net' = net \ {m}
    /\ UNCHANGED <<now, table, owner, loop, sender, c_pc>>

-----------------------------------------------------------------------------
(* message_loop *)

\* select times out: a request to every client.
LoopTimesOut ==
    /\ l_pc = "select" /\ client_count > 0
    /\ l_pc' = "send" /\ l_client' = 1 /\ l_msg' = NoMessage
    /\ UNCHANGED <<now, net, table, owner, arrive_usec, l_sent, sender, c_pc>>

\* send_request_time: the mutex is held around sendto, which may fail.
LoopSends ==
    /\ l_pc = "send" /\ owner = None
    /\ \/ l_sent' = TRUE /\ net' = net \cup {Request(client[l_client].host, now)}
       \/ l_sent' \in BOOLEAN /\ net' = net     \* lost at once, or not sent
    /\ Cardinality(net') <= MaxInFlight
    /\ l_pc' = "mark"
    /\ UNCHANGED <<now, table, owner, l_client, l_msg, arrive_usec, sender, c_pc>>

\* udp_comms_send notes the result after it has released the mutex.  After a
\* timeout the loop goes on to the next client.
LoopMarks ==
    /\ l_pc = "mark"
    /\ client' = [client EXCEPT ![l_client].is_disconnected = ~l_sent]
    /\ l_sent' = TRUE
    /\ IF l_msg = NoMessage /\ l_client < client_count
       THEN l_pc' = "send" /\ l_client' = l_client + 1 /\ UNCHANGED <<l_msg, arrive_usec>>
       ELSE l_pc' = "select" /\ l_client' = 0 /\ l_msg' = NoMessage /\ arrive_usec' = 0
    /\ UNCHANGED <<now, net, client_count, owner, sender, c_pc>>

\* Mutant of SameClient: any client will do.
AnyClient(h, g) == h \in Hosts /\ g \in Hosts

\* sockaddr_equal: the addresses are each compared with itself.
SameClient(h, g) == Port[h] = Port[g]

Known(h) == {i \in 1 .. client_count : SameClient(h, client[i].host)}

HasRoom == client_count < MAX_CLIENTS

\* recvfrom, and the search of lookup_client_info.  A client that is not in
\* the table is written behind the last one, or ignored if the table is full.
LoopReceives ==
    /\ l_pc = "select"
    /\ \E m \in net :
          /\ m.type = "echo"
          /\ net' \in {net, net \ {m}}
          /\ \/ /\ \E i \in Known(m.host) :
                      (\A j \in Known(m.host) : i <= j) /\ l_client' = i
                /\ l_pc' = "echo" /\ UNCHANGED client
             \/ /\ Known(m.host) = {} /\ HasRoom
                /\ l_client' = client_count + 1
                /\ client' = [client EXCEPT ![client_count + 1] = NewClient(m.host)]
                /\ l_pc' = "publish"
          /\ l_msg' = m
    /\ arrive_usec' = now
    /\ UNCHANGED <<now, client_count, owner, l_sent, sender, c_pc>>

LoopIgnores ==
    /\ l_pc = "select" /\ ~HasRoom
    /\ \E m \in net : m.type = "echo" /\ Known(m.host) = {} /\ net' = net \ {m}
    /\ UNCHANGED <<now, table, owner, loop, sender, c_pc>>

LoopPublishes ==
    /\ l_pc = "publish" /\ owner = None
    /\ client_count' = client_count + 1
    /\ l_pc' = "echo"
    /\ UNCHANGED <<now, net, client, owner, l_client, l_msg, arrive_usec, l_sent, sender, c_pc>>

-----------------------------------------------------------------------------
(* handle_echo_time, without the mutex until it signals *)

RoundTrip == arrive_usec - l_msg.cam_host_usec

\* An echo of a time to come is given up; no host sends one here.
EchoNotesStart ==
    /\ l_pc = "echo"
    /\ IF RoundTrip < 0
       THEN /\ l_pc' = "select" /\ l_client' = 0 /\ l_msg' = NoMessage /\ arrive_usec' = 0
            /\ UNCHANGED client
       ELSE /\ client' = IF client[l_client].client_start_time_msec = Unset
                         THEN [client EXCEPT ![l_client].client_start_time_msec = l_msg.client_msec]
                         ELSE client
            /\ l_pc' = IF /\ RoundTrip < max_round_trip_usecs
                          /\ client[l_client].sample_count < MaxSamplesSeen
                       THEN "offset" ELSE "next"
            /\ UNCHANGED <<l_client, l_msg, arrive_usec>>
    /\ UNCHANGED <<now, net, client_count, owner, l_sent, sender, c_pc>>

\* Mutant of Offset: the whole round trip, for the half of it.
OffsetOfArrival ==
    arrive_usec
        - UsecsPerMsec * (l_msg.client_msec - client[l_client].client_start_time_msec)

Offset ==
    l_msg.cam_host_usec + RoundTrip \div 2
        - UsecsPerMsec * (l_msg.client_msec - client[l_client].client_start_time_msec)

\* Mutant of EchoNotesOffset: the initial value is the least, not the greatest.
EchoKeepsFirstOffset ==
    /\ l_pc = "offset"
    /\ LET old == client[l_client].min_offset_usec
       IN  client' = IF old # Unset /\ Offset < old
                     THEN [client EXCEPT ![l_client].min_offset_usec = Offset] ELSE client
    /\ l_pc' = "count"
    /\ UNCHANGED <<now, net, client_count, owner, l_client, l_msg, arrive_usec, l_sent, sender, c_pc>>

EchoNotesOffset ==
    /\ l_pc = "offset"
    /\ LET old == client[l_client].min_offset_usec
       IN  client' = IF old = Unset \/ Offset < old
                     THEN [client EXCEPT ![l_client].min_offset_usec = Offset] ELSE client
    /\ l_pc' = "count"
    /\ UNCHANGED <<now, net, client_count, owner, l_client, l_msg, arrive_usec, l_sent, sender, c_pc>>

\* Mutant of Counted: the mean round trip, for the half of it.
CountedWhole(c) ==
    LET sum == c.sum_half_round_trip_usec + RoundTrip
        n == c.sample_count + 1
    IN  [c EXCEPT !.sum_half_round_trip_usec = sum, !.sample_count = n,
                  !.mean_half_round_trip_usec = IF n >= max_samples THEN sum \div n ELSE @]

Counted(c) ==
    LET sum == c.sum_half_round_trip_usec + RoundTrip
        n == c.sample_count + 1
    IN  [c EXCEPT !.sum_half_round_trip_usec = sum, !.sample_count = n,
                  !.mean_half_round_trip_usec = IF n >= max_samples THEN sum \div (2 * n) ELSE @]

EchoCounts ==
    /\ l_pc = "count"
    /\ client' = [client EXCEPT ![l_client] = Counted(@)]
    /\ l_pc' = IF client'[l_client].sample_count = max_samples THEN "signal" ELSE "next"
    /\ UNCHANGED <<now, net, client_count, owner, l_client, l_msg, arrive_usec, l_sent, sender, c_pc>>

\* Mutant of EchoSignals: the signal is left out.
EchoSignalsNobody ==
    /\ l_pc = "signal" /\ owner = None
    /\ l_pc' = "next"
    /\ UNCHANGED <<now, net, table, owner, l_client, l_msg, arrive_usec, l_sent, sender, c_pc>>

EchoSignals ==
    /\ l_pc = "signal" /\ owner = None
    /\ c_pc' = IF c_pc = "wait" THEN "lock" ELSE c_pc
    /\ l_pc' = "next"
    /\ UNCHANGED <<now, net, table, owner, l_client, l_msg, arrive_usec, l_sent, sender>>

\* Until the clock is known, an echo is answered with a request.
EchoEnds ==
    /\ l_pc = "next"
    /\ IF client[l_client].sample_count < max_samples
       THEN l_pc' = "send" /\ UNCHANGED <<l_client, l_msg, arrive_usec>>
       ELSE l_pc' = "select" /\ l_client' = 0 /\ l_msg' = NoMessage /\ arrive_usec' = 0
    /\ UNCHANGED <<now, net, table, owner, l_sent, sender, c_pc>>

Loop == \/ LoopTimesOut \/ LoopSends \/ LoopMarks \/ LoopReceives \/ LoopIgnores
        \/ LoopPublishes \/ EchoNotesStart \/ EchoNotesOffset \/ EchoCounts
        \/ EchoSignals \/ EchoEnds

-----------------------------------------------------------------------------
(* udp_comms_send_blobs_to_all and udp_comms_construct *)

SenderLocks ==
    /\ s_pc = "idle" /\ owner = None /\ client_count > 0
    /\ owner' = "sender" /\ s_pc' = "send" /\ s_client' = 1
    /\ UNCHANGED <<now, net, table, loop, c_pc>>

\* One client after the other gets the time its clock will show.
SenderSends ==
    /\ s_pc = "send"
    /\ IF s_client < client_count
       THEN s_client' = s_client + 1 /\ UNCHANGED <<owner, s_pc>>
       ELSE s_client' = 0 /\ owner' = None /\ s_pc' = "idle"
    /\ UNCHANGED <<now, net, table, loop, c_pc>>

\* C's division rounds towards 0.
Quotient(a, b) == IF a >= 0 THEN a \div b ELSE -((-a) \div b)

\* to_client_msecs
ToClientMsecs(c, usec) ==
    Quotient(usec + c.mean_half_round_trip_usec - c.min_offset_usec, UsecsPerMsec)
        + c.client_start_time_msec

\* udp_comms_connection_count_no_mutex
ConnectionCount ==
    Cardinality({i \in 1 .. client_count : /\ ~client[i].is_disconnected
                                           /\ client[i].sample_count > 0})

\* The test of the constructor's while, under the mutex, before and after
\* pthread_cond_wait.
ConstructorChecks ==
    /\ c_pc = "lock" /\ owner = None
    /\ c_pc' = IF ConnectionCount > 0 THEN "returned" ELSE "wait"
    /\ UNCHANGED <<now, net, table, owner, loop, sender>>

Sender == SenderLocks \/ SenderSends

Next == \/ Tick \/ \E h \in Hosts : ClientSpeaks(h)
        \/ ClientEchoes \/ NetLoses
        \/ Loop \/ Sender \/ ConstructorChecks

\* No thread stops, and a mutex that is free again and again is got: the
\* sender takes it once an image, and never keeps it over a wait.
Spec == Init /\ [][Next]_vars
        /\ SF_vars(Loop) /\ WF_vars(SenderSends) /\ SF_vars(ConstructorChecks)

-----------------------------------------------------------------------------
(* Properties *)

Entries == 1 .. client_count

TypeOK ==
    /\ now \in 0 .. MaxTime /\ arrive_usec \in 0 .. MaxTime
    /\ Cardinality(net) <= MaxInFlight
    /\ client_count \in 0 .. MAX_CLIENTS
    /\ \A i \in Entries : client[i].host \in Hosts
    /\ owner \in {None, "sender"}
    /\ l_pc \in {"select", "send", "mark", "publish", "echo", "offset", "count", "signal", "next"}
    /\ l_client \in 0 .. MAX_CLIENTS
    /\ s_pc \in {"idle", "send"} /\ s_client \in 0 .. client_count
    /\ c_pc \in {"lock", "wait", "returned"}

\* "Return true if the socket addresses and ports are equal": an echo is a
\* sample of the clock of the host that sent it, and of no other.
OwnClient == l_msg # NoMessage => client[l_client].host = l_msg.host

\* A connected client has a clock: the sender, which runs between any two
\* writes of the loop, never takes the initial values for an offset.
ConnectedHasClock ==
    \A i \in Entries : client[i].sample_count > 0 =>
        Unset \notin {client[i].min_offset_usec, client[i].client_start_time_msec}

\* Our time when the client's clock showed its start time.
TrueOffset(c) == UsecsPerMsec * c.client_start_time_msec - Phase[c.host]

Half == (max_round_trip_usecs - 1) \div 2

\* Off by at most half the longest round trip, and by the msec not yet shown.
OffsetNear(c) ==
    LET error == c.min_offset_usec - TrueOffset(c)
    IN  -(max_round_trip_usecs \div 2) <= error /\ error <= Half + UsecsPerMsec - 1

\* Whatever the network loses, repeats, delays or reorders, an offset is near the
\* one true offset between the client's clock and ours.
OffsetSound ==
    \A i \in Entries : client[i].min_offset_usec # Unset => OffsetNear(client[i])

\* The time sent with the blobs is at most half a round trip and a msec behind
\* the client's clock, and at most a round trip ahead of it: where the clock may
\* be when the message arrives.
PredictionSound ==
    s_pc = "send" /\ client[s_client].sample_count > 0 =>
        LET shown == ToClientMsecs(client[s_client], now)
            h == client[s_client].host
        IN  /\ ClockOf(h, now - Half - UsecsPerMsec + 1) <= shown
            /\ shown <= ClockOf(h, now + max_round_trip_usecs - 1)

\* If no send ever fails, the constructor that waits for a connection returns
\* once a client's clock is known, though the condition is signalled only once.
ConstructorReturns ==
    [](\A i \in Entries : ~client[i].is_disconnected)
        /\ <>(\E i \in Entries : client[i].sample_count >= max_samples)
    => <>(c_pc = "returned")
=============================================================================
