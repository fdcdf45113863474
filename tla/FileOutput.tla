------------------------------- MODULE FileOutput -------------------------------
(***************************************************************************)
(* output_file: the worker that saves each picture to a file of its own,   *)
(* named by the second and by a counter, and keeps the folder to a ring of *)
(* ringbuffer_size files (output_file.c).  The folder outlives the         *)
(* program, whose counter begins again at 0.  What is in a file does not   *)
(* matter here, nor how the picture got into the worker's buffer.          *)
(***************************************************************************)
EXTENDS Integers, Sequences, FiniteSets

CONSTANTS
    MaxSize, MaxExceed,    \* bounds: of the options -s (-1 for none) and -e
    MaxSaves,              \* bound: the files opened, in all runs together
    MaxRestarts,           \* bound: the times the program is started again
    MaxSecond              \* bound: the second in which time stops

ASSUME FileAssumption ==
    /\ MaxSize \in Nat /\ MaxExceed \in Nat
    /\ MaxSaves \in Nat /\ MaxRestarts \in Nat /\ MaxSecond \in Nat

VARIABLES
    ringbuffer_size, ringbuffer_exceed,
    second,      \* the time of day
    folder,      \* the files there, by their names
    counter,     \* of this run
    worker,      \* where worker_thread is
    doomed,      \* the files maintain_ringbuffer has still to delete
    saved,       \* the names of all files, in the order they were opened
    restarts,
    apart,       \* has each run begun in a later second than the last one saved?
    undeleted    \* has a scandir or an unlink failed?

options == <<ringbuffer_size, ringbuffer_exceed>>
history == <<saved, restarts, apart, undeleted>>
fileVars == <<options, second, folder, counter, worker, doomed, history>>

FileInit ==
    /\ ringbuffer_size \in -1 .. MaxSize /\ ringbuffer_exceed \in 0 .. MaxExceed
    /\ second = 0 /\ folder = {} /\ counter = 0 /\ worker = "wait" /\ doomed = {}
    /\ saved = <<>> /\ restarts = 0 /\ apart = TRUE /\ undeleted = FALSE

Tick ==
    /\ second < MaxSecond /\ second' = second + 1
    /\ UNCHANGED <<options, folder, counter, worker, doomed, history>>

\* alphasort on names with digits of a fixed number.
Before(f, g) == f[1] < g[1] \/ (f[1] = g[1] /\ f[2] < g[2])

-----------------------------------------------------------------------------
(* worker_thread *)

Goes(pc) == worker' = pc /\ UNCHANGED <<options, second, restarts, apart>>

\* A picture is signalled and copied; without memory the thread returns.
Copies ==
    /\ worker = "wait" /\ \E pc \in {"open", "ended"} : Goes(pc)
    /\ UNCHANGED <<folder, counter, doomed, saved, undeleted>>

\* An existing file of the same name is cut to nothing.
Opens ==
    /\ worker = "open" /\ Len(saved) < MaxSaves
    /\ counter' = counter + 1
    /\ \/ /\ Goes("write")
          /\ folder' = folder \cup {<<second, counter>>}
          /\ saved' = Append(saved, <<second, counter>>)
       \/ Goes("ended") /\ UNCHANGED <<folder, saved>>
    /\ UNCHANGED <<doomed, undeleted>>

\* The file stays when its picture cannot be written.
Writes ==
    /\ worker = "write" /\ \E pc \in {"maintain", "ended"} : Goes(pc)
    /\ UNCHANGED <<folder, counter, doomed, saved, undeleted>>

\* Mutant of Due: the ring is not looked after when the program starts.
DueRegularly == ringbuffer_exceed <= 0 \/ counter % (ringbuffer_exceed + 1) = 0

\* "do not maintain ringbuffer for each picture, this saves resources".
Due == ringbuffer_exceed <= 0 \/ counter = 1 \/ counter % (ringbuffer_exceed + 1) = 0

\* Mutant of Doomed: one file too many.
DoomedOneMore ==
    {f \in folder : Cardinality({g \in folder : Before(f, g)}) >= ringbuffer_size - 1}

\* All but the last ringbuffer_size of the sorted list.
Doomed == {f \in folder : Cardinality({g \in folder : Before(f, g)}) >= ringbuffer_size}

Maintains ==
    /\ worker = "maintain"
    /\ IF Due /\ ringbuffer_size >= 0 THEN doomed' = Doomed /\ Goes("unlink")
                                      ELSE UNCHANGED doomed /\ Goes("wait")
    /\ UNCHANGED <<folder, counter, saved, undeleted>>

\* scandir fails: the ring is left as it is until the next time it is due.
ScandirFails ==
    /\ worker = "maintain" /\ Due /\ ringbuffer_size >= 0
    /\ Goes("wait") /\ undeleted' = TRUE
    /\ UNCHANGED <<folder, counter, doomed, saved>>

OldestDoomed(f) == f \in doomed /\ \A g \in doomed \ {f} : Before(f, g)

\* The list is deleted from its beginning.
Unlinks ==
    /\ worker = "unlink"
    /\ IF doomed = {} THEN Goes("wait") /\ UNCHANGED <<folder, doomed>>
       ELSE \E f \in doomed :
               /\ OldestDoomed(f)
               /\ folder' = folder \ {f} /\ doomed' = doomed \ {f} /\ Goes("unlink")
    /\ UNCHANGED <<counter, saved, undeleted>>

\* unlink fails: the file stays, and the loop goes on with the next.
UnlinkFails ==
    /\ worker = "unlink"
    /\ \E f \in doomed : OldestDoomed(f) /\ doomed' = doomed \ {f}
    /\ Goes("unlink") /\ undeleted' = TRUE
    /\ UNCHANGED <<folder, counter, saved>>

\* The program ends, wherever the worker is, and is started again.
Restarts ==
    /\ restarts < MaxRestarts /\ restarts' = restarts + 1
    /\ counter' = 0 /\ worker' = "wait" /\ doomed' = {}
    /\ apart' = (apart /\ (saved = <<>> \/ saved[Len(saved)][1] < second))
    /\ UNCHANGED <<options, second, folder, saved, undeleted>>

Worker == Copies \/ Opens \/ Writes \/ Maintains \/ ScandirFails \/ Unlinks \/ UnlinkFails

FileNext == Tick \/ Worker \/ Restarts

FileSpec == FileInit /\ [][FileNext]_fileVars

-----------------------------------------------------------------------------
(* Properties *)

\* Types, of which the history is a part: the folder has no file but those saved.
FileTypeOK ==
    /\ folder \subseteq {saved[i] : i \in DOMAIN saved} /\ doomed \subseteq folder
    /\ counter \in 0 .. MaxSaves + 1 /\ second \in 0 .. MaxSecond
    /\ worker \in {"wait", "open", "write", "maintain", "unlink", "ended"}

\* As long as no run began in the second in which the run before it saved its
\* last file, none of the ringbuffer_size files saved last is ever deleted or
\* overwritten, wherever runs end and whatever could not be deleted before;
\* without the option -s no file at all is.
NewestKept ==
    apart => \A i \in DOMAIN saved :
        ringbuffer_size < 0 \/ Len(saved) - i < ringbuffer_size => saved[i] \in folder

\* output_init says "no ringbuffer" of every size that is not positive
\* (output_file.c:458-462): then no picture is deleted.  maintain_ringbuffer
\* looks for a negative size (158), and with a ring of size 0 deletes them all.
NoRingKeepsAll == ringbuffer_size <= 0 => \A i \in DOMAIN saved : saved[i] \in folder

\* As long as scandir and unlink succeed, the folder exceeds the ring by no more
\* than was allowed, and by the files which runs that ended early left to the
\* next one: one for each of them, as the first file of a run makes the worker
\* look after the ring.
BoundedRing ==
    ringbuffer_size >= 0 /\ ~undeleted =>
        Cardinality(folder) <=
            ringbuffer_size + (IF ringbuffer_exceed > 0 THEN ringbuffer_exceed ELSE 0)
                + 1 + restarts
=============================================================================
