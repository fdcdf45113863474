-------------------------------- MODULE MmalPort --------------------------------
(***************************************************************************)
(* An MMAL port as the camera's worker sees it (mmal_port.c), the pool of  *)
(* buffer headers made for it (mmal_pool.c) and the queue of the pool      *)
(* (mmal_queue.c).  A header belongs to one pool for ever; what is modelled*)
(* of it is where it is.  Queues are taken for sets: nothing here depends  *)
(* on the order of the headers.  The ports of this program are paused and  *)
(* flushed only by being disabled, and connected to one another only by    *)
(* tunnels inside the firmware, so the headers of a pool never leave its   *)
(* port and its client.                                                    *)
(***************************************************************************)
EXTENDS Integers, FiniteSets

CONSTANTS
    Ports,       \* the ports a client has a callback for
    Headers      \* [Ports -> set of headers], the pool of each port

ASSUME PortAssumption ==
    /\ IsFiniteSet(Ports)
    /\ \A p \in Ports : IsFiniteSet(Headers[p])
    /\ \A p, r \in Ports : p # r => Headers[p] \cap Headers[r] = {}

AllHeaders == UNION {Headers[p] : p \in Ports}

VARIABLES
    header,      \* where each header is
    port         \* is_enabled, whether a callback is set, headers in transit,
                 \* whether the component still fills headers or gives them up

At(p, place) == {h \in Headers[p] : header[h] = place}

NewPort == [enabled |-> FALSE, callback |-> FALSE, transit |-> 0, draining |-> FALSE]

\* mmal_pool_create puts all headers in the pool's queue.
PortInit ==
    /\ header = [h \in AllHeaders |-> "queue"]
    /\ port = [p \in Ports |-> NewPort]

mmal_port_enable(ps) ==
    port' = [p \in Ports |-> IF p \in ps /\ ~port[p].enabled
                             THEN [port[p] EXCEPT !.enabled = TRUE, !.callback = TRUE] ELSE port[p]]

\* The test, the count and pf_send are under send_lock.  A header that a disabled
\* port refuses, or that the firmware behind an open one does not take, stays with
\* the sender, and the senders of this program forget it.
mmal_port_send_buffer(p, h) ==
    \/ /\ port[p].enabled /\ header' = [header EXCEPT ![h] = "component"]
       /\ port' = [port EXCEPT ![p].transit = @ + 1]
    \/ header' = [header EXCEPT ![h] = IF port[p].enabled THEN "failed" ELSE "lost"]
       /\ UNCHANGED port

\* mmal_port_buffer_header_callback: into the callback of the client, which
\* must be set, and out of it, when the header no longer counts.
CallbackBegins(p, h) ==
    /\ header[h] = "component"
    /\ header' = [header EXCEPT ![h] = "callback"]
    /\ UNCHANGED port

CallbackEnds(p) == port' = [port EXCEPT ![p].transit = @ - 1]

\* The last reference: the header goes back to the queue of its pool.
mmal_buffer_header_release(h) == header' = [header EXCEPT ![h] = "queue"]

mmal_queue_get(p, h, place) ==
    header[h] = "queue" /\ header' = [header EXCEPT ![h] = place]

\* mmal_port_disable: no more headers are taken, the component gives up those
\* it has, and when none is in transit the callback is cleared.
DisableBegins(p) == port' = [port EXCEPT ![p].enabled = FALSE]
DisableComponent(p) == port' = [port EXCEPT ![p].draining = TRUE]

\* The firmware refuses: the port is open again, and nothing is waited for.
DisableFails(p) == port' = [port EXCEPT ![p].enabled = TRUE]

\* Mutant: the wait for the headers in transit is forgotten.
DisableEndsAtOnce(p) == port' = [port EXCEPT ![p].callback = FALSE]

DisableEnds(p) ==
    /\ port[p].transit = 0
    /\ port' = [port EXCEPT ![p].callback = FALSE]

mmal_pool_destroy(p) ==
    header' = [h \in AllHeaders |-> IF h \in Headers[p] THEN "freed" ELSE header[h]]

PortTypeOK ==
    /\ \A h \in AllHeaders : header[h] \in
          {"queue", "worker", "component", "callback", "again", "failed", "lost", "freed"}
    /\ \A p \in Ports : port[p].transit \in Int
=============================================================================
