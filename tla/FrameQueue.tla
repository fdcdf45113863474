------------------------------ MODULE FrameQueue ------------------------------
(***************************************************************************)
(* Frame_Queue (frame_queue.cpp): a ring of Size + 1 pointers under one    *)
(* mutex, with a condition for a queue that was empty and one for a queue  *)
(* that was full.  The module has the queue's operations only, for the     *)
(* modules that compose threads with queues.                               *)
(*                                                                         *)
(* A critical section is one step; it ends where the mutex is released: at *)
(* the return, or in pthread_cond_wait, after which a woken thread goes on *)
(* without looking at the queue again.  A thread's new_tail, which it      *)
(* computed before it went to wait, is kept with it.                       *)
(***************************************************************************)
EXTENDS Integers

CONSTANTS
    Frames,         \* the frames pointers may point to
    Null,           \* NULL, or what an unset slot holds
    MaxQueueSize    \* MAX_QUEUE_SIZE, 32

\* Assumed of the constants wherever the module is instantiated.
QueueAssumption == Null \notin Frames /\ MaxQueueSize \in Nat \ {0}

VARIABLE q    \* the object: see NewQueue

\* The constructor brings the size into the range of the array.
SizeFor(max_size) ==
    IF max_size < 1 THEN 1 ELSE IF max_size >= MaxQueueSize THEN MaxQueueSize ELSE max_size

NewQueue(max_size, do_block_on_empty, do_block_on_full) ==
    [size |-> SizeFor(max_size),
     block_on_empty |-> do_block_on_empty, block_on_full |-> do_block_on_full,
     head |-> 0, tail |-> 0, ptr |-> [i \in 0 .. MaxQueueSize |-> Null],
     full_waits |-> {}, full_woken |-> {},       \* <<thread, new_tail>>
     empty_waits |-> {}, empty_woken |-> {}]     \* threads

\* get_item_count
Count(s) == IF s.tail - s.head < 0 THEN s.tail - s.head + s.size + 1 ELSE s.tail - s.head

Following(i) == IF i + 1 = q.size + 1 THEN 0 ELSE i + 1

\* pthread_cond_signal: one waiter, any one, if there is one.
SignalFull(s) ==
    IF s.full_waits = {} THEN {s}
    ELSE {[s EXCEPT !.full_waits = @ \ {w}, !.full_woken = @ \cup {w}] : w \in s.full_waits}

SignalEmpty(s) ==
    IF s.empty_waits = {} THEN {s}
    ELSE {[s EXCEPT !.empty_waits = @ \ {t}, !.empty_woken = @ \cup {t}] : t \in s.empty_waits}

-----------------------------------------------------------------------------
(* push *)

\* The pointer is stored before anything is tested.
Stored(f) == [q EXCEPT !.ptr[q.tail] = f]

\* Mutant of Appended: nobody is told that the queue is not empty any more.
AppendedSilently(s, new_tail) == {[s EXCEPT !.tail = new_tail]}

\* What push does once there is room: tell a waiting pop, and move the tail.
Appended(s, new_tail) ==
    {[r EXCEPT !.tail = new_tail] :
        r \in IF s.block_on_empty /\ s.head = s.tail THEN SignalEmpty(s) ELSE {s}}

\* Mutant of IsFull: one item too late.
IsFullLate == Count(q) > q.size

IsFull == q.head = Following(q.tail)

Push(f) == ~IsFull /\ q' \in Appended(Stored(f), Following(q.tail))

PushBlocks(t, f) ==
    /\ IsFull /\ q.block_on_full
    /\ q' = [Stored(f) EXCEPT !.full_waits = @ \cup {<<t, Following(q.tail)>>}]

PushRefused(f) == IsFull /\ ~q.block_on_full /\ q' = Stored(f)

PushWakes(t) ==
    \E w \in q.full_woken :
        w[1] = t /\ q' \in Appended([q EXCEPT !.full_woken = @ \ {w}], w[2])

-----------------------------------------------------------------------------
(* pop *)

IsEmpty == q.head = q.tail

\* Mutant of Taken: nobody is told that the queue has room again.
TakenSilently(s) == {[s EXCEPT !.head = Following(s.head)]}

\* What pop does once there is an item: tell a waiting push, and move the head.
Taken(s) ==
    {[r EXCEPT !.head = Following(s.head)] :
        r \in IF s.block_on_full /\ Count(s) = s.size THEN SignalFull(s) ELSE {s}}

Pop(f) == ~IsEmpty /\ f = q.ptr[q.head] /\ q' \in Taken(q)

PopBlocks(t) ==
    /\ IsEmpty /\ q.block_on_empty
    /\ q' = [q EXCEPT !.empty_waits = @ \cup {t}]

\* The NULL that a queue which does not block returns.
PopRefused == IsEmpty /\ ~q.block_on_empty /\ UNCHANGED q

PopWakes(t, f) ==
    /\ t \in q.empty_woken
    /\ f = q.ptr[q.head]
    /\ q' \in Taken([q EXCEPT !.empty_woken = @ \ {t}])
=============================================================================
