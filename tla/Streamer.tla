-------------------------------- MODULE Streamer --------------------------------
(***************************************************************************)
(* mjpg_streamer with the Raspberry Pi's camera as input and output_http:  *)
(* the camera's worker and callbacks (CameraWorker), the HTTP server with  *)
(* a thread for each connection (httpd.c), and between them the picture    *)
(* under the mutex db and the condition db_update, up to the exit.  Each   *)
(* client asks for one thing: a snapshot, the stream, or something that is *)
(* answered without a picture or refused; the first two differ only in     *)
(* what follows the first picture.  The server listens on one socket.      *)
(***************************************************************************)
EXTENDS CameraWorker

CONSTANTS Clients, None

ASSUME ClientAssumption == None \notin Clients \cup Ports

VARIABLES
    db,          \* who holds the mutex
    listening,   \* does server_thread accept connections?
    client       \* where each connection's thread is

http == <<db, listening, client>>
vars == <<camera_vars, http>>

Init ==
    /\ CameraInit
    /\ db = None /\ listening = TRUE /\ client = [c \in Clients |-> "out"]

-----------------------------------------------------------------------------
(* The picture, as encoder_buffer_callback hands it out *)

\* pthread_cond_broadcast(db_update)
Woken == [c \in Clients |-> IF client[c] = "wait" THEN "relock" ELSE client[c]]

\* Mutant: nobody is told of the new picture.
EncoderDataSilent ==
    /\ callback[Encoder].data /\ chunks = 0 => db = None
    /\ db' = IF callback[Encoder].last THEN None
             ELSE IF chunks = 0 THEN Encoder ELSE db
    /\ UNCHANGED client

\* The first buffer with data takes db.  The flag of the end gives db back, also
\* on an empty buffer that has not taken it, whoever holds it then.
EncoderData ==
    /\ callback[Encoder].data /\ chunks = 0 => db = None
    /\ IF callback[Encoder].last THEN db' = None /\ client' = Woken
       ELSE /\ db' = IF chunks = 0 THEN Encoder ELSE db
            /\ UNCHANGED client

EncoderReleases ==
    /\ Releases(Encoder)
    /\ IF callback[Encoder].data \/ callback[Encoder].last THEN EncoderData
       ELSE UNCHANGED <<db, client>>
    /\ UNCHANGED listening

EncoderCallback ==
    \/ EncoderReleases
    \/ /\ Returns(Encoder) \/ Gets(Encoder) \/ SendsBack(Encoder) \/ Finishes(Encoder)
       /\ UNCHANGED http

SplitterCallback ==
    /\ \/ Returns(Splitter) \/ Releases(Splitter) \/ Gets(Splitter)
       \/ SendsBack(Splitter) \/ Finishes(Splitter)
    /\ UNCHANGED http

-----------------------------------------------------------------------------
(* server_thread and client_thread *)

ClientGoes(c, pc) == client' = [client EXCEPT ![c] = pc]

\* The stop flag is looked at after each connection.
Accepts(c) ==
    /\ listening /\ client[c] = "out"
    /\ ClientGoes(c, "request") /\ listening' = ~stop
    /\ UNCHANGED <<camera_vars, db>>

ServerCancelled ==
    /\ stop /\ listening /\ listening' = FALSE
    /\ UNCHANGED <<camera_vars, db, client>>

\* What does the client want?  A request that is not complete within five
\* seconds, is malformed or refused, or asks for no picture ends here, and so
\* does a stream when the flag is set.
Requests(c) ==
    /\ client[c] = "request" /\ \E pc \in {"out", "top"} : ClientGoes(c, pc)
    /\ UNCHANGED <<camera_vars, db, listening>>

\* db is locked for a moment, until pthread_cond_wait gives it back.
Waits(c) ==
    /\ client[c] = "top" /\ db = None
    /\ ClientGoes(c, "wait")
    /\ UNCHANGED <<camera_vars, db, listening>>

\* pthread_cond_wait may return without a signal.
WakesUnsignalled(c) ==
    /\ client[c] = "wait" /\ ClientGoes(c, "relock")
    /\ UNCHANGED <<camera_vars, db, listening>>

Locks(c) ==
    /\ client[c] = "relock" /\ db = None
    /\ db' = c /\ ClientGoes(c, "copy")
    /\ UNCHANGED <<camera_vars, listening>>

\* Mutant: without memory for the picture the mutex is kept.
CopiesKeeps(c) ==
    /\ client[c] = "copy" /\ worker.pc # "done"
    /\ \/ db' = None /\ ClientGoes(c, "write")
       \/ UNCHANGED db /\ ClientGoes(c, "out")
    /\ UNCHANGED <<camera_vars, listening>>

\* Without memory for the picture the client gets an error.
Copies(c) ==
    /\ client[c] = "copy" /\ worker.pc # "done"
    /\ db' = None
    /\ \E pc \in {"write", "out"} : ClientGoes(c, pc)
    /\ UNCHANGED <<camera_vars, listening>>

\* The worker has freed the picture, without db.
CopiesFreed(c) ==
    /\ client[c] = "copy" /\ worker.pc = "done"
    /\ \/ db' = None /\ ClientGoes(c, "write") /\ UNCHANGED worker
       \/ Goes("exit") /\ UNCHANGED <<db, client>>
    /\ UNCHANGED <<port, built, unchangedByStart, listening>>

\* A snapshot ends here, a stream when the client is gone or the flag is set.
Writes(c) ==
    /\ client[c] = "write"
    /\ \/ ClientGoes(c, "out")
       \/ ~stop /\ ClientGoes(c, "top")
    /\ UNCHANGED <<camera_vars, db, listening>>

ClientThread(c) ==
    Waits(c) \/ Locks(c) \/ Copies(c) \/ CopiesFreed(c) \/ Writes(c)

-----------------------------------------------------------------------------
Next ==
    /\ Running
    /\ \/ (Worker \/ signal_handler \/ exit) /\ UNCHANGED http
       \/ EncoderCallback \/ SplitterCallback \/ ServerCancelled
       \/ \E c \in Clients : Accepts(c) \/ Requests(c) \/ WakesUnsignalled(c) \/ ClientThread(c)

\* The threads of the worker, of the firmware and of the clients run while the
\* process does, and whoever wants db, which is given back again and again,
\* gets it in the end.  Nothing is asked of exit: the worker must end without.
Spec ==
    /\ Init /\ [][Next]_vars
    /\ WF_vars(Running /\ Worker /\ UNCHANGED http)
    /\ WF_vars(Running /\ SplitterCallback) /\ SF_vars(Running /\ EncoderCallback)
    /\ \A c \in Clients : SF_vars(Running /\ ClientThread(c))

-----------------------------------------------------------------------------
(* Properties *)

\* Types, and the mutex: held by a client only while it copies, or by the encoder.
TypeOK ==
    /\ CameraTypeOK
    /\ db \in Clients \cup {None, Encoder}
    /\ \A c \in Clients : client[c] \in
          {"out", "request", "top", "wait", "relock", "copy", "write"}

\* Whoever asks for a picture gets one, or the program comes to its end: no
\* broadcast is missed, and db is never kept, neither by another client nor
\* between two pictures.  Only an encoder without headers, or the video whose
\* first connection or whose start failed without anybody noticing, never has a
\* picture.
ClientServed ==
    \A c \in Clients :
        client[c] \in {"top", "wait"} ~>
            \/ client[c] \in {"write", "out"}
            \/ stop \/ ~Running \/ Starved
            \/ (worker.pc = "sleep" /\ ~(built.fed /\ capturing))
=============================================================================
