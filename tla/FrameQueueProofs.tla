---------------------------- MODULE FrameQueueProofs ----------------------------
(***************************************************************************)
(* Theorems about the Odroid's frames: about CamPipeline, for any number   *)
(* of buffers, and about FrameStream, for any number of frames and sizes.  *)
(* The operations of FrameQueue are described by what they do to the       *)
(* sequence a queue holds, Contents.                                       *)
(***************************************************************************)
EXTENDS CamPipeline, SequenceTheorems, TLAPS

-----------------------------------------------------------------------------
(* The ring *)

Ring(s) == s.size \in Nat \ {0} /\ s.head \in 0 .. s.size /\ s.tail \in 0 .. s.size

\* The number of items, and the position of the i-th after the head, without
\* the remainders.
Held(s) == IF s.tail < s.head THEN s.tail - s.head + s.size + 1 ELSE s.tail - s.head
Wrapped(n, k) == IF k > n THEN k - n - 1 ELSE k
Slot(s, i) == Wrapped(s.size, s.head + i)
After(s, i) == IF i + 1 = s.size + 1 THEN 0 ELSE i + 1

\* Remainders within one turn of the ring.
LEMMA Modulo ==
    ASSUME NEW n \in Nat \ {0}, NEW a \in Int
    PROVE  /\ 0 <= a /\ a < n => a % n = a
           /\ n <= a /\ a < 2 * n => a % n = a - n
           /\ 0 - n <= a /\ a < 0 => a % n = a + n
OBVIOUS

\* What a queue holds, position by position.
LEMMA ContentsOf ==
    ASSUME NEW s, Ring(s)
    PROVE  /\ Held(s) \in 0 .. s.size
           /\ Contents(s) = [i \in 1 .. Held(s) |-> s.ptr[Slot(s, i - 1)]]
           /\ Held(s) = 0 <=> s.head = s.tail
           /\ Held(s) = s.size <=> s.head = After(s, s.tail)
           /\ Slot(s, Held(s)) = s.tail
           /\ \A i \in 0 .. Held(s) - 1 : Slot(s, i) \in 0 .. s.size /\ Slot(s, i) # s.tail
<1> DEFINE n == s.size + 1
<1>a. n \in Nat \ {0} /\ n = s.size + 1 /\ s.size \in Nat /\ s.head \in 0 .. n - 1 /\ s.tail \in 0 .. n - 1
  BY DEF Ring
<1> HIDE DEF n
<1>1. (s.tail - s.head) % n = Held(s)
  <2>1. s.tail - s.head \in Int /\ 0 - n <= s.tail - s.head /\ s.tail - s.head < n
    BY <1>a
  <2>2. CASE s.tail < s.head
    BY <1>a, <2>1, <2>2, Modulo DEF Held
  <2>3. CASE ~(s.tail < s.head)
    BY <1>a, <2>1, <2>3, Modulo DEF Held
  <2> QED BY <2>2, <2>3
<1>2. Held(s) \in 0 .. s.size
  BY DEF Ring, Held
<1>3. \A i \in 1 .. Held(s) : (s.head + i - 1) % n = Slot(s, i - 1)
  <2> SUFFICES ASSUME NEW i \in 1 .. Held(s) PROVE (s.head + i - 1) % n = Slot(s, i - 1)
    OBVIOUS
  <2>1. s.head + i - 1 \in Int /\ 0 <= s.head + i - 1 /\ s.head + i - 1 < 2 * n
    BY <1>a, <1>2
  <2>2. s.head + (i - 1) = s.head + i - 1
    BY <1>a, <1>2
  <2>3. CASE s.head + i - 1 < n
    BY <1>a, <2>1, <2>2, <2>3, Modulo DEF Slot, Wrapped
  <2>4. CASE n <= s.head + i - 1
    BY <1>a, <2>1, <2>2, <2>4, Modulo DEF Slot, Wrapped
  <2> QED BY <1>a, <2>1, <2>3, <2>4
<1>4. Contents(s) = [i \in 1 .. Held(s) |-> s.ptr[Slot(s, i - 1)]]
  BY <1>1, <1>3 DEF Contents, n
<1>5. /\ Held(s) = 0 <=> s.head = s.tail
      /\ Held(s) = s.size <=> s.head = After(s, s.tail)
      /\ Slot(s, Held(s)) = s.tail
  BY DEF Ring, Held, Slot, Wrapped, After
<1>6. \A i \in 0 .. Held(s) - 1 : Slot(s, i) \in 0 .. s.size /\ Slot(s, i) # s.tail
  BY DEF Ring, Held, Slot, Wrapped
<1> QED BY <1>2, <1>4, <1>5, <1>6

\* A pointer that is stored behind the last item changes nothing.
LEMMA StoreKeeps ==
    ASSUME NEW s, NEW r, Ring(s), r.size = s.size, r.head = s.head, r.tail = s.tail,
           \A i \in 0 .. s.size : i # s.tail => r.ptr[i] = s.ptr[i]
    PROVE  Ring(r) /\ Contents(r) = Contents(s)
<1>1. Ring(r) /\ Held(r) = Held(s) /\ \A i \in Int : Slot(r, i) = Slot(s, i)
  BY DEF Ring, Held, Slot, Wrapped
<1>2. /\ Contents(s) = [i \in 1 .. Held(s) |-> s.ptr[Slot(s, i - 1)]]
      /\ Contents(r) = [i \in 1 .. Held(s) |-> r.ptr[Slot(r, i - 1)]]
      /\ Held(s) \in 0 .. s.size
  BY <1>1, ContentsOf
<1>3. \A i \in 1 .. Held(s) : r.ptr[Slot(r, i - 1)] = s.ptr[Slot(s, i - 1)]
  <2> SUFFICES ASSUME NEW i \in 1 .. Held(s) PROVE r.ptr[Slot(r, i - 1)] = s.ptr[Slot(s, i - 1)]
    OBVIOUS
  <2>1. i - 1 \in 0 .. Held(s) - 1
    BY <1>2
  <2>2. Slot(s, i - 1) \in 0 .. s.size /\ Slot(s, i - 1) # s.tail
    BY <2>1, ContentsOf
  <2> QED BY <1>1, <2>1, <2>2
<1> QED BY <1>1, <1>2, <1>3

\* The tail that moves over a pointer appends it.
LEMMA TailMoves ==
    ASSUME NEW s, NEW r, NEW S, Ring(s), Contents(s) \in Seq(S), s.ptr[s.tail] \in S,
           s.head # After(s, s.tail),
           r.size = s.size, r.head = s.head, r.tail = After(s, s.tail), r.ptr = s.ptr
    PROVE  Ring(r) /\ Contents(r) = Append(Contents(s), s.ptr[s.tail])
<1>1. Ring(r) /\ \A i \in Int : Slot(r, i) = Slot(s, i)
  BY DEF Ring, Slot, Wrapped, After
<1>2. Held(r) = Held(s) + 1
  BY DEF Ring, Held, After
<1>3. /\ Held(s) \in 0 .. s.size /\ Slot(s, Held(s)) = s.tail
      /\ Contents(s) = [i \in 1 .. Held(s) |-> s.ptr[Slot(s, i - 1)]]
      /\ Contents(r) = [i \in 1 .. Held(s) + 1 |-> r.ptr[Slot(r, i - 1)]]
  BY <1>1, <1>2, ContentsOf
<1>4. Len(Contents(s)) = Held(s)
  BY <1>3
<1>5. /\ Append(Contents(s), s.ptr[s.tail]) \in Seq(S)
      /\ Len(Append(Contents(s), s.ptr[s.tail])) = Held(s) + 1
      /\ \A i \in 1 .. Held(s) : Append(Contents(s), s.ptr[s.tail])[i] = Contents(s)[i]
      /\ Append(Contents(s), s.ptr[s.tail])[Held(s) + 1] = s.ptr[s.tail]
  BY <1>4, AppendProperties
<1>6. \A i \in 1 .. Held(s) + 1 : Contents(r)[i] = Append(Contents(s), s.ptr[s.tail])[i]
  <2> SUFFICES ASSUME NEW i \in 1 .. Held(s) + 1
               PROVE  Contents(r)[i] = Append(Contents(s), s.ptr[s.tail])[i]
    OBVIOUS
  <2>1. Contents(r)[i] = s.ptr[Slot(s, i - 1)]
    BY <1>1, <1>3
  <2>2. CASE i = Held(s) + 1
    BY <1>3, <1>5, <2>1, <2>2
  <2>3. CASE i \in 1 .. Held(s)
    BY <1>3, <1>5, <2>1, <2>3
  <2> QED BY <1>3, <2>2, <2>3
<1>7. Contents(r) \in Seq(S) /\ Len(Contents(r)) = Held(s) + 1
  <2>1. \A i \in 1 .. Held(s) + 1 : Contents(r)[i] \in S
    BY <1>3, <1>5, <1>6, ElementOfSeq
  <2> QED BY <1>3, <2>1
<1>8. Contents(r) = Append(Contents(s), s.ptr[s.tail])
  BY <1>5, <1>6, <1>7, SeqEqual
<1> QED BY <1>1, <1>8

\* The head that moves takes the first item.
LEMMA HeadMoves ==
    ASSUME NEW s, NEW r, NEW S, Ring(s), Contents(s) \in Seq(S), s.head # s.tail,
           r.size = s.size, r.tail = s.tail, r.head = After(s, s.head), r.ptr = s.ptr
    PROVE  /\ Ring(r) /\ Contents(s) # <<>> /\ s.ptr[s.head] \in S
           /\ Contents(r) \in Seq(S)
           /\ Contents(s) = <<s.ptr[s.head]>> \o Contents(r)
<1>0. Ring(r) /\ r.head = (IF s.head = s.size THEN 0 ELSE s.head + 1)
  BY DEF Ring, After
<1>1. Ring(r) /\ Held(r) = Held(s) - 1 /\ Held(s) > 0
  <2>1. CASE s.head = s.size
    BY <1>0, <2>1 DEF Ring, Held
  <2>2. CASE s.head # s.size
    BY <1>0, <2>2 DEF Ring, Held
  <2> QED BY <2>1, <2>2
<1>2. \A i \in 0 .. Held(s) - 1 : Slot(r, i) = Slot(s, i + 1)
  <2> SUFFICES ASSUME NEW i \in 0 .. Held(s) - 1 PROVE Slot(r, i) = Slot(s, i + 1)
    OBVIOUS
  <2>0. s.size \in Nat /\ Held(s) \in 0 .. s.size
    BY ContentsOf DEF Ring
  <2>a. i \in 0 .. s.size
    BY <2>0
  <2>1. CASE s.head = s.size
    BY <1>0, <2>a, <2>1 DEF Ring, Slot, Wrapped
  <2>2. CASE s.head # s.size
    <3>1. s.head \in Int /\ s.size \in Int /\ r.size = s.size /\ r.head = s.head + 1 /\ i \in Int
      BY <1>0, <2>a, <2>2 DEF Ring
    <3>2. r.head + i \in Int /\ r.head + i = s.head + (i + 1)
      BY <3>1
    <3> QED BY <3>1, <3>2 DEF Slot
  <2> QED BY <2>1, <2>2
<1>3. /\ Held(s) \in 0 .. s.size
      /\ Contents(s) = [i \in 1 .. Held(s) |-> s.ptr[Slot(s, i - 1)]]
      /\ Contents(r) = [i \in 1 .. Held(s) - 1 |-> r.ptr[Slot(r, i - 1)]]
  BY <1>1, ContentsOf
<1>4. Slot(s, 0) = s.head
  BY DEF Ring, Slot, Wrapped
<1>5. Len(Contents(s)) = Held(s) /\ Contents(s)[1] = s.ptr[s.head]
  BY <1>1, <1>3, <1>4
<1>6. \A i \in 1 .. Held(s) - 1 : Contents(r)[i] = Contents(s)[i + 1]
  <2> SUFFICES ASSUME NEW i \in 1 .. Held(s) - 1 PROVE Contents(r)[i] = Contents(s)[i + 1]
    OBVIOUS
  <2>1. Contents(r)[i] = s.ptr[Slot(r, i - 1)]
    BY <1>3
  <2>2. Contents(s)[i + 1] = s.ptr[Slot(s, (i + 1) - 1)]
    BY <1>3
  <2>3. (i + 1) - 1 = (i - 1) + 1 /\ i - 1 \in 0 .. Held(s) - 1
    BY <1>3
  <2>4. Slot(r, i - 1) = Slot(s, (i - 1) + 1)
    BY <1>2, <2>3
  <2> QED BY <2>1, <2>2, <2>3, <2>4
<1>7. s.ptr[s.head] \in S
  BY <1>1, <1>5, ElementOfSeq
<1>8. Contents(r) \in Seq(S) /\ Len(Contents(r)) = Held(s) - 1
  <2>1. \A i \in 1 .. Held(s) - 1 : Contents(r)[i] \in S
    <3> SUFFICES ASSUME NEW i \in 1 .. Held(s) - 1 PROVE Contents(r)[i] \in S
      OBVIOUS
    <3>1. i + 1 \in 1 .. Len(Contents(s))
      BY <1>3, <1>5
    <3>2. Contents(s)[i + 1] \in S
      BY <3>1, ElementOfSeq
    <3>3. Contents(r)[i] = Contents(s)[i + 1]
      BY <1>6
    <3> QED BY <3>2, <3>3
  <2> DEFINE m == Held(s) - 1
  <2>2. m \in Nat
    BY <1>1, ContentsOf DEF Ring
  <2>3. Contents(r) = [i \in 1 .. m |-> r.ptr[Slot(r, i - 1)]] /\ \A i \in 1 .. m : Contents(r)[i] \in S
    BY <1>3, <2>1
  <2> HIDE DEF m
  <2>4. Contents(r) \in Seq(S) /\ Len(Contents(r)) = m
    BY <2>2, <2>3
  <2> QED BY <2>4 DEF m
<1> DEFINE t == <<s.ptr[s.head]>>
<1>9. t \in Seq(S) /\ Len(t) = 1 /\ t[1] = s.ptr[s.head]
  BY <1>7
<1> HIDE DEF t
<1>10. /\ t \o Contents(r) \in Seq(S) /\ Len(t \o Contents(r)) = Held(s)
       /\ \A i \in 1 .. Held(s) : (t \o Contents(r))[i] = IF i <= 1 THEN t[i] ELSE Contents(r)[i - 1]
  <2>1. Len(t) + Len(Contents(r)) = Held(s)
    BY <1>1, <1>8, <1>9, ContentsOf DEF Ring
  <2>2. /\ t \o Contents(r) \in Seq(S) /\ Len(t \o Contents(r)) = Held(s)
        /\ \A i \in 1 .. Held(s) :
             (t \o Contents(r))[i] = IF i <= Len(t) THEN t[i] ELSE Contents(r)[i - Len(t)]
    <3> HIDE DEF t
    <3>1. /\ t \o Contents(r) \in Seq(S)
          /\ Len(t \o Contents(r)) = Len(t) + Len(Contents(r))
          /\ \A i \in 1 .. Len(t) + Len(Contents(r)) :
               (t \o Contents(r))[i] = IF i <= Len(t) THEN t[i] ELSE Contents(r)[i - Len(t)]
      BY <1>8, <1>9, ConcatProperties
    <3> QED BY <2>1, <3>1
  <2> QED BY <1>9, <2>2
<1>11. \A i \in 1 .. Held(s) : (t \o Contents(r))[i] = Contents(s)[i]
  <2> SUFFICES ASSUME NEW i \in 1 .. Held(s) PROVE (t \o Contents(r))[i] = Contents(s)[i]
    OBVIOUS
  <2>1. CASE i = 1
    BY <1>5, <1>9, <1>10, <2>1
  <2>2. CASE i # 1
    <3>1. i - 1 \in 1 .. Held(s) - 1 /\ (i - 1) + 1 = i /\ ~(i <= 1)
      BY <1>3, <2>2
    <3> QED BY <1>6, <1>10, <3>1
  <2> QED BY <2>1, <2>2
<1>12. t \o Contents(r) = Contents(s)
  BY <1>5, <1>10, <1>11, SeqEqual
<1>13. Contents(s) # <<>>
  BY <1>1, <1>5
<1> QED BY <1>1, <1>7, <1>8, <1>12, <1>13 DEF t

-----------------------------------------------------------------------------
(* The operations of a queue *)

Threads == {"display", "pusher", "popper"}

Queues(P) ==
    [size : Nat \ {0}, block_on_empty : BOOLEAN, block_on_full : BOOLEAN,
     head : Nat, tail : Nat, ptr : [0 .. MaxQueueSize -> P],
     full_waits : SUBSET (Threads \X Nat), full_woken : SUBSET (Threads \X Nat),
     empty_waits : SUBSET Threads, empty_woken : SUBSET Threads]

\* Stored, Appended and Taken of FrameQueue, for any queue.
StoredIn(s, f) == {[s EXCEPT !.ptr[s.tail] = f]}
AppendedTo(s, new_tail) ==
    {[r EXCEPT !.tail = new_tail] :
        r \in IF s.block_on_empty /\ s.head = s.tail
              THEN IF s.empty_waits = {} THEN {s}
                   ELSE {[s EXCEPT !.empty_waits = @ \ {t}, !.empty_woken = @ \cup {t}] :
                           t \in s.empty_waits}
              ELSE {s}}
TakenFrom(s) ==
    {[r EXCEPT !.head = After(s, s.head)] :
        r \in IF s.block_on_full /\ Held(s) = s.size
              THEN IF s.full_waits = {} THEN {s}
                   ELSE {[s EXCEPT !.full_waits = @ \ {w}, !.full_woken = @ \cup {w}] :
                           w \in s.full_waits}
              ELSE {s}}

\* What the operations leave alone.
SameKind(s, r) ==
    /\ r.size = s.size
    /\ r.block_on_empty = s.block_on_empty /\ r.block_on_full = s.block_on_full
SameEmpty(s, r) == r.empty_waits = s.empty_waits /\ r.empty_woken = s.empty_woken
SameFull(s, r) == r.full_waits = s.full_waits /\ r.full_woken = s.full_woken

\* One waiter, if there is one, is told.
Told(waits, woken, waits1, woken1) ==
    \/ waits = {} /\ waits1 = {} /\ woken1 = woken
    \/ \E t \in waits : waits1 = waits \ {t} /\ woken1 = woken \cup {t}

\* The pointer is stored.
LEMMA Storing ==
    ASSUME NEW P, NEW s \in Queues(P), Ring(s), s.size <= MaxQueueSize, MaxQueueSize \in Nat,
           NEW f \in P, NEW r \in StoredIn(s, f)
    PROVE  /\ r \in Queues(P) /\ Ring(r) /\ Contents(r) = Contents(s) /\ Held(r) = Held(s)
           /\ r.head = s.head /\ r.tail = s.tail /\ r.ptr[r.tail] = f
           /\ SameKind(s, r) /\ SameEmpty(s, r) /\ SameFull(s, r)
<1>1. /\ r \in Queues(P)
      /\ r.size = s.size /\ r.head = s.head /\ r.tail = s.tail
      /\ r.block_on_empty = s.block_on_empty /\ r.block_on_full = s.block_on_full
      /\ r.empty_waits = s.empty_waits /\ r.empty_woken = s.empty_woken
      /\ r.full_waits = s.full_waits /\ r.full_woken = s.full_woken
      /\ r.ptr = [s.ptr EXCEPT ![s.tail] = f]
  <2>1. r = [s EXCEPT !.ptr = [s.ptr EXCEPT ![s.tail] = f]]
    BY DEF Queues, StoredIn
  <2>2. [s.ptr EXCEPT ![s.tail] = f] \in [0 .. MaxQueueSize -> P]
    BY DEF Queues
  <2> DEFINE ptr == [s.ptr EXCEPT ![s.tail] = f]
  <2> HIDE DEF ptr
  <2>3. r = [s EXCEPT !.ptr = ptr] /\ ptr \in [0 .. MaxQueueSize -> P]
    BY <2>1, <2>2 DEF ptr
  <2>4. r \in Queues(P)
    BY <2>3 DEF Queues
  <2>5. /\ r.size = s.size /\ r.head = s.head /\ r.tail = s.tail
        /\ r.block_on_empty = s.block_on_empty /\ r.block_on_full = s.block_on_full
    BY <2>3 DEF Queues
  <2>6. /\ r.empty_waits = s.empty_waits /\ r.empty_woken = s.empty_woken
        /\ r.full_waits = s.full_waits /\ r.full_woken = s.full_woken /\ r.ptr = ptr
    BY <2>3 DEF Queues
  <2> QED BY <2>4, <2>5, <2>6 DEF ptr
<1>2. s.ptr \in [0 .. MaxQueueSize -> P] /\ s.tail \in 0 .. MaxQueueSize /\ s.size \in Nat
  BY DEF Queues, Ring
<1>3. r.ptr[r.tail] = f
  BY <1>1, <1>2
<1>a. \A i \in 0 .. s.size : i # s.tail => r.ptr[i] = s.ptr[i]
  BY <1>1, <1>2
<1>b. r.size = s.size /\ r.head = s.head /\ r.tail = s.tail
  BY <1>1
<1>4. Ring(r) /\ Contents(r) = Contents(s)
  BY <1>a, <1>b, StoreKeeps
<1> QED BY <1>1, <1>3, <1>4 DEF SameKind, SameEmpty, SameFull, Held

\* The stored pointer becomes the last item.
LEMMA Appending ==
    ASSUME NEW P, NEW S, NEW s \in Queues(P), Ring(s), Contents(s) \in Seq(S),
           s.ptr[s.tail] \in S, s.head # After(s, s.tail),
           NEW r \in AppendedTo(s, After(s, s.tail))
    PROVE  /\ r \in Queues(P) /\ Ring(r) /\ SameKind(s, r) /\ SameFull(s, r)
           /\ r.head = s.head /\ r.head # r.tail /\ r.ptr = s.ptr
           /\ Contents(r) = Append(Contents(s), s.ptr[s.tail])
           /\ IF s.block_on_empty /\ s.head = s.tail
              THEN Told(s.empty_waits, s.empty_woken, r.empty_waits, r.empty_woken)
              ELSE SameEmpty(s, r)
<1>1. After(s, s.tail) \in Nat /\ After(s, s.tail) \in 0 .. s.size
  BY DEF Ring, After
<1>2. /\ r \in Queues(P)
      /\ r.size = s.size /\ r.head = s.head /\ r.tail = After(s, s.tail) /\ r.ptr = s.ptr
      /\ r.block_on_empty = s.block_on_empty /\ r.block_on_full = s.block_on_full
      /\ r.full_waits = s.full_waits /\ r.full_woken = s.full_woken
      /\ IF s.block_on_empty /\ s.head = s.tail
         THEN \/ s.empty_waits = {} /\ r.empty_waits = {} /\ r.empty_woken = s.empty_woken
              \/ \E t \in s.empty_waits : /\ r.empty_waits = s.empty_waits \ {t}
                                          /\ r.empty_woken = s.empty_woken \cup {t}
         ELSE r.empty_waits = s.empty_waits /\ r.empty_woken = s.empty_woken
  <2>1. CASE (s.block_on_empty /\ s.head = s.tail) /\ s.empty_waits # {}
    <3> DEFINE W == {[s EXCEPT !.empty_waits = @ \ {t}, !.empty_woken = @ \cup {t}] : t \in s.empty_waits}
    <3>0. PICK x \in W : r = [x EXCEPT !.tail = After(s, s.tail)]
      <4>1. AppendedTo(s, After(s, s.tail)) = {[x EXCEPT !.tail = After(s, s.tail)] : x \in W}
        BY <2>1 DEF AppendedTo
      <4> HIDE DEF W
      <4> QED BY <4>1
    <3>1. PICK t \in s.empty_waits :
            r = [[s EXCEPT !.empty_waits = @ \ {t}, !.empty_woken = @ \cup {t}]
                   EXCEPT !.tail = After(s, s.tail)]
      BY <3>0
    <3> QED BY <1>1, <2>1, <3>1 DEF Queues
  <2>2. CASE (s.block_on_empty /\ s.head = s.tail) /\ s.empty_waits = {}
    <3>1. r = [s EXCEPT !.tail = After(s, s.tail)]
      BY <2>2 DEF AppendedTo
    <3> QED BY <1>1, <2>2, <3>1 DEF Queues
  <2>3. CASE ~(s.block_on_empty /\ s.head = s.tail)
    <3>1. r = [s EXCEPT !.tail = After(s, s.tail)]
      BY <2>3 DEF AppendedTo
    <3> QED BY <1>1, <2>3, <3>1 DEF Queues
  <2> QED BY <2>1, <2>2, <2>3
<1>3. Ring(r) /\ Contents(r) = Append(Contents(s), s.ptr[s.tail])
  BY <1>2, TailMoves
<1> QED BY <1>2, <1>3 DEF SameKind, SameFull, SameEmpty, Told

\* The first item is taken.
LEMMA Taking ==
    ASSUME NEW P, NEW S, NEW s \in Queues(P), Ring(s), Contents(s) \in Seq(S),
           s.head # s.tail, NEW r \in TakenFrom(s)
    PROVE  /\ r \in Queues(P) /\ Ring(r) /\ SameKind(s, r) /\ SameEmpty(s, r)
           /\ r.tail = s.tail /\ r.head = After(s, s.head) /\ r.ptr = s.ptr
           /\ s.ptr[s.head] \in S /\ Contents(r) \in Seq(S)
           /\ Contents(s) = <<s.ptr[s.head]>> \o Contents(r)
           /\ IF s.block_on_full /\ Held(s) = s.size
              THEN Told(s.full_waits, s.full_woken, r.full_waits, r.full_woken)
              ELSE SameFull(s, r)
<1>1. After(s, s.head) \in Nat /\ After(s, s.head) \in 0 .. s.size
  BY DEF Ring, After
<1>2. /\ r \in Queues(P)
      /\ r.size = s.size /\ r.tail = s.tail /\ r.head = After(s, s.head) /\ r.ptr = s.ptr
      /\ r.block_on_empty = s.block_on_empty /\ r.block_on_full = s.block_on_full
      /\ r.empty_waits = s.empty_waits /\ r.empty_woken = s.empty_woken
      /\ IF s.block_on_full /\ Held(s) = s.size
         THEN \/ s.full_waits = {} /\ r.full_waits = {} /\ r.full_woken = s.full_woken
              \/ \E w \in s.full_waits : /\ r.full_waits = s.full_waits \ {w}
                                         /\ r.full_woken = s.full_woken \cup {w}
         ELSE r.full_waits = s.full_waits /\ r.full_woken = s.full_woken
  <2>1. CASE (s.block_on_full /\ Held(s) = s.size) /\ s.full_waits # {}
    <3> DEFINE W == {[s EXCEPT !.full_waits = @ \ {w}, !.full_woken = @ \cup {w}] :
                      w \in s.full_waits}
    <3>0. PICK x \in W : r = [x EXCEPT !.head = After(s, s.head)]
      <4>1. TakenFrom(s) = {[x EXCEPT !.head = After(s, s.head)] : x \in W}
        BY <2>1 DEF TakenFrom
      <4> HIDE DEF W
      <4> QED BY <4>1
    <3>1. PICK w \in s.full_waits :
            r = [[s EXCEPT !.full_waits = @ \ {w}, !.full_woken = @ \cup {w}]
                   EXCEPT !.head = After(s, s.head)]
      BY <3>0
    <3> QED BY <1>1, <2>1, <3>1 DEF Queues
  <2>2. CASE (s.block_on_full /\ Held(s) = s.size) /\ s.full_waits = {}
    <3>1. r = [s EXCEPT !.head = After(s, s.head)]
      BY <2>2 DEF TakenFrom
    <3> QED BY <1>1, <2>2, <3>1 DEF Queues
  <2>3. CASE ~(s.block_on_full /\ Held(s) = s.size)
    <3>1. r = [s EXCEPT !.head = After(s, s.head)]
      BY <2>3 DEF TakenFrom
    <3> QED BY <1>1, <2>3, <3>1 DEF Queues
  <2> QED BY <2>1, <2>2, <2>3
<1>3. /\ Ring(r) /\ s.ptr[s.head] \in S /\ Contents(r) \in Seq(S)
      /\ Contents(s) = <<s.ptr[s.head]>> \o Contents(r)
  BY <1>2, HeadMoves
<1> QED BY <1>2, <1>3 DEF SameKind, SameFull, SameEmpty, Told

-----------------------------------------------------------------------------
(* Sequences *)

Optional(c, x) == IF c THEN <<x>> ELSE <<>>

\* A sequence with one more item in front.
LEMMA InFront ==
    ASSUME NEW S, NEW x \in S, NEW t \in Seq(S)
    PROVE  /\ <<x>> \in Seq(S) /\ <<x>> \o t \in Seq(S) /\ <<x>> \o t # <<>>
           /\ Head(<<x>> \o t) = x /\ Tail(<<x>> \o t) = t
<1> DEFINE u == <<x>> \o t
<1>1. <<x>> \in Seq(S) /\ Len(<<x>>) = 1 /\ <<x>>[1] = x
  OBVIOUS
<1>2. /\ u \in Seq(S) /\ Len(u) = 1 + Len(t) /\ Len(t) \in Nat
      /\ \A i \in 1 .. 1 + Len(t) : u[i] = IF i <= 1 THEN <<x>>[i] ELSE t[i - 1]
  BY <1>1, ConcatProperties
<1> HIDE DEF u
<1>3. u # <<>> /\ u[1] = x
  <2>1. 1 \in 1 .. 1 + Len(t) /\ 1 <= 1 /\ 1 + Len(t) # 0
    BY <1>2
  <2>2. u[1] = <<x>>[1]
    BY <1>2, <2>1
  <2>3. u # <<>>
    BY <1>2, <2>1, EmptySeq
  <2> QED BY <1>1, <2>2, <2>3
<1>4. Tail(u) \in Seq(S) /\ Len(Tail(u)) = Len(t) /\ \A i \in 1 .. Len(t) : Tail(u)[i] = u[i + 1]
  BY <1>2, <1>3, HeadTailProperties
<1>5. \A i \in 1 .. Len(t) : Tail(u)[i] = t[i]
  <2> SUFFICES ASSUME NEW i \in 1 .. Len(t) PROVE Tail(u)[i] = t[i]
    OBVIOUS
  <2>1. i + 1 \in 1 .. 1 + Len(t) /\ ~(i + 1 <= 1) /\ (i + 1) - 1 = i
    BY <1>2
  <2> QED BY <1>2, <1>4, <2>1
<1>6. Tail(u) = t
  BY <1>4, <1>5, SeqEqual
<1>7. Head(u) = x
  BY <1>2, <1>3
<1> QED BY <1>1, <1>2, <1>3, <1>6, <1>7 DEF u

\* An item in front of a part comes before the rest.
LEMMA FirstAndRest ==
    ASSUME NEW S, NEW x \in S, NEW a \in Seq(S), NEW b \in Seq(S)
    PROVE  (<<x>> \o a) \o b = <<x>> \o ((<<>> \o a) \o b)
<1> DEFINE t == <<x>>
<1>1. t \in Seq(S)
  OBVIOUS
<1>2. (t \o a) \o b = t \o (a \o b) /\ <<>> \o a = a
  BY <1>1, ConcatAssociative, ConcatEmptySeq
<1> HIDE DEF t
<1> QED BY <1>2 DEF t

\* The front may be empty.
LEMMA FrontIsEmpty ==
    ASSUME NEW S, NEW x \in S, NEW a \in Seq(S), NEW b \in Seq(S)
    PROVE  (<<>> \o (<<x>> \o a)) \o b = (<<x>> \o a) \o b
<1> DEFINE t == <<x>>
<1>1. t \in Seq(S)
  OBVIOUS
<1>2. t \o a \in Seq(S)
  BY <1>1, ConcatProperties
<1>3. <<>> \o (t \o a) = t \o a
  BY <1>2, ConcatEmptySeq
<1> QED BY <1>3 DEF t

\* The last of a line, appended to the whole.
LEMMA LastOfTwo ==
    ASSUME NEW S, NEW x \in S, NEW a \in Seq(S), NEW b \in Seq(S)
    PROVE  Append((a \o b) \o <<>>, x) = (a \o b) \o <<x>>
<1> DEFINE t == <<x>>
<1>1. t \in Seq(S)
  OBVIOUS
<1>2. a \o b \in Seq(S)
  BY ConcatProperties
<1>3. (a \o b) \o <<>> = a \o b /\ Append(a \o b, x) = (a \o b) \o t
  BY <1>2, ConcatEmptySeq, AppendIsConcat
<1> QED BY <1>3 DEF t

\* The last of a line, appended to its last part.
LEMMA LastOfSecond ==
    ASSUME NEW S, NEW x \in S, NEW a \in Seq(S), NEW b \in Seq(S)
    PROVE  (a \o Append(b, x)) \o <<>> = (a \o b) \o <<x>>
<1> DEFINE t == <<x>>
<1>1. t \in Seq(S)
  OBVIOUS
<1>2. Append(b, x) = b \o t /\ Append(b, x) \in Seq(S)
  BY AppendIsConcat, AppendProperties
<1>3. a \o Append(b, x) \in Seq(S)
  BY <1>2, ConcatProperties
<1>4. (a \o Append(b, x)) \o <<>> = a \o Append(b, x)
  BY <1>3, ConcatEmptySeq
<1>5. (a \o b) \o t = a \o (b \o t)
  BY <1>1, ConcatAssociative
<1> QED BY <1>2, <1>4, <1>5 DEF t

\* The first leaves its part for the front.
LEMMA ToTheFront ==
    ASSUME NEW S, NEW x \in S, NEW a \in Seq(S), NEW b \in Seq(S)
    PROVE  <<>> \o ((<<x>> \o a) \o b) = <<x>> \o (a \o b)
<1> DEFINE t == <<x>>
<1>1. t \in Seq(S)
  OBVIOUS
<1>2. (t \o a) \o b = t \o (a \o b)
  BY <1>1, ConcatAssociative
<1>3. a \o b \in Seq(S)
  BY ConcatProperties
<1>4. t \o (a \o b) \in Seq(S)
  BY <1>1, <1>3, ConcatProperties
<1>5. <<>> \o (t \o (a \o b)) = t \o (a \o b)
  BY <1>4, ConcatEmptySeq
<1> QED BY <1>2, <1>5 DEF t

\* The end of the last part is the end.
LEMMA LastOfAll ==
    ASSUME NEW S, NEW x \in S, NEW a \in Seq(S), NEW b \in Seq(S)
    PROVE  a \o Append(b, x) = Append(a \o b, x)
<1> DEFINE t == <<x>>
<1>1. t \in Seq(S)
  OBVIOUS
<1>2. a \o b \in Seq(S)
  BY ConcatProperties
<1>3. Append(b, x) = b \o t /\ Append(a \o b, x) = (a \o b) \o t
  BY <1>2, AppendIsConcat
<1>4. (a \o b) \o t = a \o (b \o t)
  BY <1>1, ConcatAssociative
<1> QED BY <1>3, <1>4

\* An item goes from between two parts to the end of the first.
LEMMA AcrossParts ==
    ASSUME NEW S, NEW x \in S, NEW a \in Seq(S), NEW b \in Seq(S)
    PROVE  Append(a, x) \o (<<>> \o b) = a \o (<<x>> \o b)
<1> DEFINE t == <<x>>
<1>1. t \in Seq(S)
  OBVIOUS
<1>2. Append(a, x) = a \o t /\ <<>> \o b = b
  BY AppendIsConcat, ConcatEmptySeq
<1>3. (a \o t) \o b = a \o (t \o b)
  BY <1>1, ConcatAssociative
<1> QED BY <1>2, <1>3 DEF t

\* Every frame at one position.
OnlyAt(line, n, f, i) == \A j \in 1 .. n : line[j] = f <=> j = i
Once(line) ==
    /\ line \in Seq(Frames) /\ Len(line) = buf_count
    /\ \A f \in Frames : \E i \in 1 .. Len(line) : OnlyAt(line, Len(line), f, i)

\* The first goes to the end.
LEMMA Rotated ==
    ASSUME NEW x \in Frames, NEW t \in Seq(Frames), Once(<<x>> \o t)
    PROVE  Once(Append(t, x))
<1> DEFINE u == <<x>> \o t
           v == Append(t, x)
           n == Len(t)
<1>1. <<x>> \in Seq(Frames) /\ Len(<<x>>) = 1 /\ <<x>>[1] = x
  OBVIOUS
<1>2. n \in Nat /\ Len(u) = n + 1 /\ \A i \in 1 .. 1 + n : u[i] = IF i <= 1 THEN <<x>>[i] ELSE t[i - 1]
  BY <1>1, ConcatProperties
<1>3. /\ v \in Seq(Frames) /\ Len(v) = n + 1 /\ v[n + 1] = x
      /\ \A i \in 1 .. n : v[i] = t[i]
  BY AppendProperties
<1>4. Len(u) = buf_count /\ \A f \in Frames : \E i \in 1 .. Len(u) : OnlyAt(u, Len(u), f, i)
  BY DEF Once
<1> HIDE DEF u, v, n
<1>5. u[1] = x /\ \A i \in 1 .. n : u[i + 1] = v[i]
  <2>1. 1 \in 1 .. 1 + n /\ 1 <= 1
    BY <1>2
  <2>2. u[1] = x
    BY <1>1, <1>2, <2>1
  <2> SUFFICES ASSUME NEW i \in 1 .. n PROVE u[i + 1] = v[i]
    BY <2>2
  <2>3. i + 1 \in 1 .. 1 + n /\ ~(i + 1 <= 1) /\ (i + 1) - 1 = i
    BY <1>2
  <2> QED BY <1>2, <1>3, <2>3
<1>6. ASSUME NEW f \in Frames
      PROVE  \E i \in 1 .. n + 1 : OnlyAt(v, n + 1, f, i)
  <2>0. PICK k \in 1 .. n + 1 : OnlyAt(u, n + 1, f, k)
    BY <1>2, <1>4
  <2>1. \A j \in 1 .. n + 1 : u[j] = f <=> j = k
    BY <2>0 DEF OnlyAt
  <2>a. k \in Int /\ n \in Nat /\ 1 <= k /\ k <= n + 1
    BY <1>2
  <2>2. CASE k = 1
    <3>1. x = f
      BY <1>2, <1>5, <2>1, <2>2
    <3>2. ASSUME NEW j \in 1 .. n PROVE v[j] # f
      <4>1. j + 1 \in 1 .. n + 1 /\ j + 1 # 1
        BY <1>2
      <4> QED BY <1>5, <2>1, <2>2, <4>1
    <3>3. ASSUME NEW j \in 1 .. n + 1 PROVE v[j] = f <=> j = n + 1
      <4>1. j \in 1 .. n \/ j = n + 1
        BY <1>2
      <4>2. j \in 1 .. n => j # n + 1
        BY <1>2
      <4> QED BY <1>3, <3>1, <3>2, <4>1, <4>2
    <3>4. n + 1 \in 1 .. n + 1
      BY <1>2
    <3> QED BY <3>3, <3>4 DEF OnlyAt
  <2>3. CASE k # 1
    <3>1. k - 1 \in 1 .. n /\ k - 1 \in 1 .. n + 1 /\ k - 1 # n + 1
      BY <2>a, <2>3
    <3>2. x # f
      <4>1. 1 \in 1 .. n + 1
        BY <1>2
      <4> QED BY <1>5, <2>1, <2>3, <4>1
    <3>3. ASSUME NEW j \in 1 .. n + 1 PROVE v[j] = f <=> j = k - 1
      <4>1. CASE j = n + 1
        BY <1>3, <3>1, <3>2, <4>1
      <4>2. CASE j # n + 1
        <5>1. j \in 1 .. n /\ j + 1 \in 1 .. n + 1 /\ (j + 1 = k <=> j = k - 1)
          BY <2>a, <4>2
        <5> QED BY <1>5, <2>1, <5>1
      <4> QED BY <4>1, <4>2
    <3> QED BY <3>1, <3>3 DEF OnlyAt
  <2> QED BY <2>2, <2>3
<1> QED BY <1>2, <1>3, <1>4, <1>6 DEF Once, v

-----------------------------------------------------------------------------
(* The camera pipeline: an invariant that is inductive *)

Kinds ==
    /\ c_pc \in {"start", "select", "free_pop", "dqbuf", "push", "print", "thrown", "crashed"}
    /\ d_pc \in {"pop", "pop_wait", "show", "free_push", "print"}
    /\ c_frame \in Frames \cup {Null} /\ d_frame \in Frames \cup {Null}
    /\ c_pc \in {"dqbuf", "push"} => c_frame \in Frames
    /\ d_pc \in {"show", "free_push"} => d_frame \in Frames
    /\ driver \in Seq(Frames) /\ filled \in 0 .. Len(driver)
    /\ streaming <=> c_pc # "start"

OwnIndex == index = [f \in Frames |-> f]

QueueOf(s) ==
    /\ s \in Queues(Frames \cup {Null}) /\ Ring(s) /\ s.size = buf_count
    /\ Contents(s) \in Seq(Frames)

\* display_thread waits for q1 or has been told, and then there is an item.
Waiting ==
    /\ q1.empty_waits \cup q1.empty_woken \subseteq {"display"}
    /\ q1.empty_waits \cap q1.empty_woken = {}
    /\ d_pc # "pop_wait" => q1.empty_waits = {} /\ q1.empty_woken = {}
    /\ q1.empty_woken # {} => q1.head # q1.tail

\* All the frames, from the one that is shown to the last that went back to
\* the driver: a frame that is passed on keeps its place in the line, and the
\* display's goes from the front to the end.
Line ==
    Optional(d_pc = "show", d_frame)
    \o (Contents(q1) \o (Optional(c_pc = "push", c_frame) \o driver))

IInv == Kinds /\ OwnIndex /\ QueueOf(free_list) /\ QueueOf(q1) /\ Waiting /\ InStep /\ Once(Line)

\* The size of the two queues.
LEMMA Sizes == Free!SizeFor(buf_count) = buf_count /\ Q1!SizeFor(buf_count) = buf_count
BY PipelineAssumption DEF Free!SizeFor, Q1!SizeFor

\* A queue at its beginning.
LEMMA FirstContents ==
    ASSUME NEW s, Ring(s), s.head = 0
    PROVE  Contents(s) = [i \in 1 .. s.tail |-> s.ptr[i - 1]]
<1>1. Held(s) = s.tail
  BY DEF Ring, Held
<1>2. \A i \in 1 .. s.tail : Slot(s, i - 1) = i - 1
  BY DEF Ring, Slot, Wrapped
<1>3. Contents(s) = [i \in 1 .. s.tail |-> s.ptr[Slot(s, i - 1)]]
  BY <1>1, ContentsOf
<1> QED BY <1>2, <1>3

\* The invariant holds at first.
LEMMA First == Init => IInv
<1> SUFFICES ASSUME Init PROVE IInv
  OBVIOUS
<1>1. /\ buf_count \in Nat \ {0} /\ MaxQueueSize \in Nat /\ buf_count <= MaxQueueSize
  BY PipelineAssumption
<1> DEFINE ids == [i \in 1 .. buf_count |-> i - 1]
<1>2. ids \in Seq(Frames) /\ Len(ids) = buf_count
  <2>1. \A i \in 1 .. buf_count : i - 1 \in Frames
    BY <1>1 DEF Frames
  <2> QED BY <1>1, <2>1
<1>3. free_list \in Queues(Frames \cup {Null}) /\ free_list.size = buf_count
      /\ free_list.head = 0 /\ free_list.tail = buf_count
      /\ free_list.ptr = [i \in 0 .. MaxQueueSize |-> IF i \in Frames THEN i ELSE Null]
  BY <1>1, Sizes DEF Init, Free!NewQueue, Queues
<1>4. q1 \in Queues(Frames \cup {Null}) /\ q1.size = buf_count /\ q1.head = 0 /\ q1.tail = 0
      /\ q1.empty_waits = {} /\ q1.empty_woken = {}
  BY <1>1, Sizes DEF Init, Queue1, Q1!NewQueue, Queues
<1>5. Ring(free_list) /\ Ring(q1)
  BY <1>1, <1>3, <1>4 DEF Ring
<1>6. Contents(free_list) = ids
  <2>1. Contents(free_list) = [i \in 1 .. buf_count |-> free_list.ptr[i - 1]]
    BY <1>3, <1>5, FirstContents
  <2>2. ASSUME NEW i \in 1 .. buf_count PROVE free_list.ptr[i - 1] = i - 1
    <3>1. i - 1 \in 0 .. MaxQueueSize /\ i - 1 \in Frames
      BY <1>1 DEF Frames
    <3> QED BY <1>3, <3>1
  <2> QED BY <2>1, <2>2
<1>7. Contents(q1) = <<>>
  <2>1. Contents(q1) = [i \in 1 .. 0 |-> q1.ptr[i - 1]]
    BY <1>4, <1>5, FirstContents
  <2> QED BY <2>1
<1>8. driver = ids /\ c_pc = "start" /\ d_pc = "pop" /\ filled = 0
  BY DEF Init
<1>9. Kinds /\ OwnIndex /\ Waiting
  <2>1. driver \in Seq(Frames) /\ filled \in 0 .. Len(driver)
    BY <1>1, <1>2, <1>8
  <2>2. Kinds
    BY <2>1, <1>8 DEF Init, Kinds
  <2> QED BY <1>4, <1>8, <2>2 DEF Init, OwnIndex, Waiting
<1>10. QueueOf(free_list) /\ QueueOf(q1)
  BY <1>2, <1>3, <1>4, <1>5, <1>6, <1>7 DEF QueueOf
<1>11. InStep /\ Line = ids
  <2>1. <<>> \o ids = ids /\ ids \o <<>> = ids
    BY <1>2, ConcatEmptySeq
  <2>2. <<>> \o (<<>> \o (<<>> \o ids)) = ids /\ (<<>> \o ids) \o <<>> = ids
    BY <2>1
  <2> HIDE DEF ids
  <2>3. Line = <<>> \o (<<>> \o (<<>> \o ids))
    BY <1>7, <1>8 DEF Line, Optional
  <2>4. InStep <=> driver = (<<>> \o ids) \o <<>>
    BY <1>6, <1>8 DEF InStep
  <2> QED BY <1>8, <2>2, <2>3, <2>4
<1>12. Once(ids)
  <2> SUFFICES ASSUME NEW f \in Frames PROVE \E i \in 1 .. buf_count : OnlyAt(ids, buf_count, f, i)
    BY <1>2 DEF Once
  <2>1. f + 1 \in 1 .. buf_count
    BY <1>1 DEF Frames
  <2>2. OnlyAt(ids, buf_count, f, f + 1)
    BY <1>1 DEF OnlyAt, Frames
  <2> QED BY <2>1, <2>2
<1> QED BY <1>9, <1>10, <1>11, <1>12 DEF IInv

\* The queues' operations are those of the lemmas.
LEMMA FreeOperations ==
    ASSUME NEW s, Ring(s), s.size = free_list.size
    PROVE  /\ \A i : Free!Following(i) = After(free_list, i)
           /\ \A n : Free!Appended(s, n) = AppendedTo(s, n)
           /\ Free!Taken(s) = TakenFrom(s)
<1>1. \A i : Free!Following(i) = After(s, i) /\ After(free_list, i) = After(s, i)
  BY DEF Free!Following, After
<1>2. Free!Count(s) = Held(s)
  BY DEF Free!Count, Held, Ring
<1> QED BY <1>1, <1>2 DEF Free!Appended, Free!SignalEmpty, AppendedTo,
                          Free!Taken, Free!SignalFull, TakenFrom

\* The same for q1.
LEMMA Q1Operations ==
    ASSUME NEW s, Ring(s), s.size = q1.size
    PROVE  /\ \A i : Q1!Following(i) = After(q1, i)
           /\ \A n : Q1!Appended(s, n) = AppendedTo(s, n)
           /\ Q1!Taken(s) = TakenFrom(s)
<1>1. \A i : Q1!Following(i) = After(s, i) /\ After(q1, i) = After(s, i)
  BY DEF Q1!Following, After
<1>2. Q1!Count(s) = Held(s)
  BY DEF Q1!Count, Held, Ring
<1> QED BY <1>1, <1>2 DEF Q1!Appended, Q1!SignalEmpty, AppendedTo,
                          Q1!Taken, Q1!SignalFull, TakenFrom

\* What a pop of either queue does, in terms of what it holds.
LEMMA Popped ==
    ASSUME NEW s, NEW r \in TakenFrom(s), QueueOf(s), s.head # s.tail
    PROVE  /\ QueueOf(r) /\ s.ptr[s.head] \in Frames
           /\ Contents(s) = <<s.ptr[s.head]>> \o Contents(r)
           /\ SameEmpty(s, r)
BY Taking DEF QueueOf, SameKind

\* And a push.
LEMMA Pushed ==
    ASSUME NEW s, NEW f \in Frames, QueueOf(s), s.head # After(s, s.tail),
           NEW t \in StoredIn(s, f), NEW r \in AppendedTo(t, After(s, s.tail))
    PROVE  /\ QueueOf(r) /\ Contents(r) = Append(Contents(s), f) /\ r.head # r.tail
           /\ IF s.block_on_empty /\ s.head = s.tail
              THEN Told(s.empty_waits, s.empty_woken, r.empty_waits, r.empty_woken)
              ELSE SameEmpty(s, r)
<1>1. s.size <= MaxQueueSize /\ MaxQueueSize \in Nat
  BY PipelineAssumption DEF QueueOf
<1>2. /\ t \in Queues(Frames \cup {Null}) /\ Ring(t) /\ Contents(t) = Contents(s)
      /\ t.head = s.head /\ t.tail = s.tail /\ t.ptr[t.tail] = f
      /\ SameKind(s, t) /\ SameEmpty(s, t)
  BY <1>1, Storing DEF QueueOf
<1>3. After(t, t.tail) = After(s, s.tail)
  BY <1>2 DEF After, SameKind
<1>4. r \in AppendedTo(t, After(t, t.tail)) /\ t.head # After(t, t.tail)
  BY <1>2, <1>3
<1>5. /\ r \in Queues(Frames \cup {Null}) /\ Ring(r) /\ SameKind(t, r)
      /\ r.head # r.tail
      /\ Contents(r) = Append(Contents(t), t.ptr[t.tail])
      /\ IF t.block_on_empty /\ t.head = t.tail
         THEN Told(t.empty_waits, t.empty_woken, r.empty_waits, r.empty_woken)
         ELSE SameEmpty(t, r)
  BY <1>2, <1>4, Appending DEF QueueOf
<1>6. Append(Contents(s), f) \in Seq(Frames)
  BY AppendProperties DEF QueueOf
<1> QED BY <1>2, <1>5, <1>6 DEF QueueOf, SameKind, SameEmpty

\* capture_thread's pop of the free list.
LEMMA FreePops ==
    ASSUME QueueOf(free_list), NEW f, Free!Pop(f)
    PROVE  /\ f \in Frames /\ QueueOf(free_list')
           /\ Contents(free_list) = <<f>> \o Contents(free_list')
<1>1. free_list' \in TakenFrom(free_list) /\ free_list.head # free_list.tail
      /\ f = free_list.ptr[free_list.head]
  BY FreeOperations DEF Free!Pop, Free!IsEmpty, QueueOf
<1> QED BY <1>1, Popped

\* A frame that goes back to the free list.
LEMMA FreePushes ==
    ASSUME QueueOf(free_list), NEW f \in Frames, Free!Push(f)
    PROVE  QueueOf(free_list') /\ Contents(free_list') = Append(Contents(free_list), f)
<1> DEFINE t == [free_list EXCEPT !.ptr[free_list.tail] = f]
<1>1. t \in StoredIn(free_list, f)
  BY DEF StoredIn
<1>2. Ring(t) /\ t.size = free_list.size
  BY <1>1, PipelineAssumption, Storing DEF QueueOf, SameKind
<1>3. free_list' \in Free!Appended(t, Free!Following(free_list.tail))
  BY DEF Free!Push, Free!Stored
<1>4. ~(free_list.head = Free!Following(free_list.tail))
  BY DEF Free!Push, Free!IsFull
<1> HIDE DEF t
<1>5. /\ free_list' \in AppendedTo(t, After(free_list, free_list.tail))
      /\ free_list.head # After(free_list, free_list.tail)
  BY <1>2, <1>3, <1>4, FreeOperations
<1> QED BY <1>1, <1>5, Pushed

\* capture_thread's push on q1, which may wake display_thread.
LEMMA Q1Pushes ==
    ASSUME QueueOf(q1), Waiting, NEW f \in Frames, Q1!Push(f), d_pc' = d_pc
    PROVE  QueueOf(q1') /\ Contents(q1') = Append(Contents(q1), f) /\ Waiting'
<1> DEFINE t == [q1 EXCEPT !.ptr[q1.tail] = f]
<1>1. t \in StoredIn(q1, f)
  BY DEF StoredIn
<1>2. Ring(t) /\ t.size = q1.size
  BY <1>1, PipelineAssumption, Storing DEF QueueOf, SameKind
<1>3. q1' \in Q1!Appended(t, Q1!Following(q1.tail))
  BY DEF Q1!Push, Q1!Stored
<1>4. ~(q1.head = Q1!Following(q1.tail))
  BY DEF Q1!Push, Q1!IsFull
<1> HIDE DEF t
<1>5. q1' \in AppendedTo(t, After(q1, q1.tail)) /\ q1.head # After(q1, q1.tail)
  BY <1>2, <1>3, <1>4, Q1Operations
<1>6. /\ QueueOf(q1') /\ Contents(q1') = Append(Contents(q1), f) /\ q1'.head # q1'.tail
      /\ IF q1.block_on_empty /\ q1.head = q1.tail
         THEN Told(q1.empty_waits, q1.empty_woken, q1'.empty_waits, q1'.empty_woken)
         ELSE SameEmpty(q1, q1')
  BY <1>1, <1>5, Pushed
<1>7. Waiting'
  BY <1>6 DEF Waiting, Told, SameEmpty
<1> QED BY <1>6, <1>7

\* display_thread takes a frame, at once or after a wait.
LEMMA Q1Pops ==
    ASSUME QueueOf(q1), Waiting, NEW f,
           \/ Q1!Pop(f) /\ d_pc # "pop_wait"
           \/ Q1!PopWakes("display", f)
    PROVE  /\ f \in Frames /\ QueueOf(q1') /\ Waiting'
           /\ Contents(q1) = <<f>> \o Contents(q1')
<1>1. CASE Q1!Pop(f) /\ d_pc # "pop_wait"
  <2>1. /\ q1' \in TakenFrom(q1) /\ q1.head # q1.tail /\ f = q1.ptr[q1.head]
    BY <1>1, Q1Operations DEF Q1!Pop, Q1!IsEmpty, QueueOf
  <2>2. /\ f \in Frames /\ QueueOf(q1') /\ Contents(q1) = <<f>> \o Contents(q1')
        /\ SameEmpty(q1, q1')
    BY <2>1, Popped
  <2>3. Waiting'
    BY <1>1, <2>2 DEF Waiting, SameEmpty
  <2> QED BY <2>2, <2>3
<1>2. CASE Q1!PopWakes("display", f)
  <2> DEFINE t == [q1 EXCEPT !.empty_woken = @ \ {"display"}]
  <2>1. /\ t \in Queues(Frames \cup {Null}) /\ t.size = q1.size /\ t.head = q1.head
        /\ t.tail = q1.tail /\ t.ptr = q1.ptr
        /\ t.empty_waits = q1.empty_waits /\ t.empty_woken = q1.empty_woken \ {"display"}
    BY DEF QueueOf, Queues
  <2>2. q1' \in Q1!Taken(t) /\ "display" \in q1.empty_woken /\ f = q1.ptr[q1.head]
    BY <1>2 DEF Q1!PopWakes
  <2> HIDE DEF t
  <2>3. Ring(t) /\ Contents(t) = Contents(q1)
    BY <2>1 DEF Ring, Contents, QueueOf
  <2>4. QueueOf(t) /\ t.head # t.tail /\ q1' \in TakenFrom(t)
    BY <2>1, <2>2, <2>3, Q1Operations DEF QueueOf, Waiting
  <2>5. /\ f \in Frames /\ QueueOf(q1') /\ Contents(q1) = <<f>> \o Contents(q1')
        /\ SameEmpty(t, q1')
    BY <2>1, <2>2, <2>3, <2>4, Popped
  <2>6. q1'.empty_waits = {} /\ q1'.empty_woken = {}
    BY <2>1, <2>2, <2>5 DEF Waiting, SameEmpty
  <2>7. Waiting'
    BY <2>6 DEF Waiting
  <2> QED BY <2>5, <2>7
<1> QED BY <1>1, <1>2

\* A step that moves no frame.
LEMMA NoFrameMoves ==
    ASSUME IInv, UNCHANGED <<driver, index>>,
           c_pc \in {"dqbuf", "push"} => c_frame' = c_frame,
           d_pc \in {"show", "free_push"} => d_frame' = d_frame,
           Contents(free_list') = Contents(free_list), Contents(q1') = Contents(q1),
           c_pc' = "dqbuf" <=> c_pc = "dqbuf", c_pc' = "push" <=> c_pc = "push",
           d_pc' = "show" <=> d_pc = "show", d_pc' = "free_push" <=> d_pc = "free_push"
    PROVE  OwnIndex' /\ InStep' /\ Once(Line)'
<1>1. InStep' /\ OwnIndex'
  BY DEF IInv, InStep, OwnIndex
<1>2. /\ Optional(d_pc = "show", d_frame)' = Optional(d_pc = "show", d_frame)
      /\ Optional(c_pc = "push", c_frame)' = Optional(c_pc = "push", c_frame)
  BY DEF Optional
<1>3. Line' = Line
  BY <1>2 DEF Line
<1> QED BY <1>1, <1>3 DEF IInv

\* Nor does one leave the queues' records as they are.
LEMMA FreeList ==
    ASSUME IInv, UNCHANGED free_list
    PROVE  QueueOf(free_list')
BY DEF IInv

\* The same for q1 and for the thread that may wait in its pop.
LEMMA Images ==
    ASSUME IInv, UNCHANGED <<q1, d_pc>>
    PROVE  QueueOf(q1') /\ Waiting'
BY DEF IInv, Waiting

\* capture_thread's pop: the frame at the head of the free list is the one
\* whose buffer is at the head of the driver's queue.
LEMMA FreePopKeeps == ASSUME IInv, FreePop PROVE IInv'
<1>1. PICK f \in Frames : Free!Pop(f) /\ c_frame' = f
  BY DEF FreePop
<1>2. /\ c_pc = "free_pop" /\ c_pc' = "dqbuf"
      /\ UNCHANGED <<streaming, driver, filled, index, q1, d_pc, d_frame>>
  BY DEF FreePop, camera, display
<1> DEFINE b == Optional(d_pc = "free_push", d_frame)
           a == Contents(free_list')
<1>3. QueueOf(free_list') /\ Contents(free_list) = <<f>> \o a
  BY <1>1, FreePops DEF IInv
<1>4. a \in Seq(Frames) /\ b \in Seq(Frames)
  BY <1>3 DEF QueueOf, IInv, Kinds, Optional
<1>5. InStep'
  <2>1. driver = (<<>> \o (<<f>> \o a)) \o b
    BY <1>2, <1>3 DEF IInv, InStep, Optional
  <2> HIDE DEF a
  <2>2. driver = (<<f>> \o a) \o b
    BY <1>4, <2>1, FrontIsEmpty
  <2> QED BY <1>1, <1>2, <2>2 DEF InStep, a, Optional
<1>6. Line' = Line
  BY <1>2 DEF Line, Optional
<1>7. Kinds' /\ OwnIndex'
  BY <1>1, <1>2 DEF IInv, Kinds, OwnIndex
<1>8. QueueOf(q1') /\ Waiting'
  BY <1>2, Images
<1> QED BY <1>3, <1>5, <1>6, <1>7, <1>8 DEF IInv

\* VIDIOC_DQBUF returns the buffer of the frame that capture_thread holds.
LEMMA DqbufKeeps == ASSUME IInv, Dqbuf PROVE IInv'
<1>1. /\ c_pc = "dqbuf" /\ c_pc' = "push" /\ filled > 0 /\ filled' = filled - 1
      /\ index' = [index EXCEPT ![c_frame] = Head(driver)] /\ driver' = Tail(driver)
      /\ UNCHANGED <<streaming, free_list, q1, c_frame, d_pc, d_frame>>
  BY DEF Dqbuf, display
<1>2. c_frame \in Frames /\ Contents(free_list) \in Seq(Frames) /\ Contents(q1) \in Seq(Frames)
  BY <1>1 DEF IInv, Kinds, QueueOf
<1> DEFINE a == Contents(free_list)
           b == Optional(d_pc = "free_push", d_frame)
           rest == (<<>> \o a) \o b
<1> PICK f \in Frames : f = c_frame
  BY <1>2
<1>3. a \in Seq(Frames) /\ b \in Seq(Frames) /\ rest \in Seq(Frames)
  <2>1. a \in Seq(Frames) /\ b \in Seq(Frames)
    BY <1>2 DEF IInv, Kinds, Optional
  <2> QED BY <2>1, ConcatProperties, ConcatEmptySeq
<1>4. driver = <<f>> \o rest
  <2>1. driver = (<<f>> \o a) \o b
    BY <1>1 DEF IInv, InStep, Optional
  <2>a. f \in Frames /\ a \in Seq(Frames) /\ b \in Seq(Frames)
    BY <1>3
  <2> HIDE DEF a, b, rest
  <2>2. (<<f>> \o a) \o b = <<f>> \o ((<<>> \o a) \o b)
    BY <2>a, FirstAndRest
  <2> QED BY <2>1, <2>2 DEF rest
<1>5. Head(driver) = f /\ driver' = rest /\ driver # <<>>
  <2> HIDE DEF rest
  <2>1. /\ <<f>> \o rest # <<>> /\ Head(<<f>> \o rest) = f
        /\ Tail(<<f>> \o rest) = rest
    BY <1>2, <1>3, InFront
  <2> QED BY <1>1, <1>4, <2>1
<1>6. InStep'
  BY <1>1, <1>5 DEF InStep, Optional
<1>7. OwnIndex'
  BY <1>1, <1>2, <1>5 DEF IInv, OwnIndex
<1>8. Kinds'
  <2>1. Len(Tail(driver)) = Len(driver) - 1 /\ Len(driver) \in Nat
    BY <1>5, HeadTailProperties DEF IInv, Kinds
  <2>2. filled' \in 0 .. Len(driver')
    BY <1>1, <2>1 DEF IInv, Kinds
  <2>3. driver' \in Seq(Frames)
    BY <1>3, <1>5
  <2> QED BY <1>1, <1>2, <2>2, <2>3 DEF IInv, Kinds
<1>9. Line' = Line
  <2> HIDE DEF rest
  <2>1. <<>> \o driver = <<f>> \o driver'
    BY <1>4, <1>5, ConcatEmptySeq DEF IInv, Kinds
  <2> QED BY <1>1, <2>1 DEF Line, Optional
<1>10. QueueOf(free_list') /\ QueueOf(q1') /\ Waiting'
  BY <1>1, Images, FreeList
<1> QED BY <1>6, <1>7, <1>8, <1>9, <1>10 DEF IInv

\* The frame capture_thread pushes leaves its hands for q1.
LEMMA CapturePushesKeeps == ASSUME IInv, CapturePushes PROVE IInv'
<1>1. /\ c_pc = "push" /\ c_pc' = "print" /\ Q1!Push(c_frame)
      /\ UNCHANGED <<streaming, driver, filled, index, free_list, c_frame, d_pc, d_frame>>
  BY DEF CapturePushes, camera, display
<1>2. PICK f \in Frames : f = c_frame
  BY <1>1 DEF IInv, Kinds
<1>3. QueueOf(q1') /\ Contents(q1') = Append(Contents(q1), f) /\ Waiting'
  BY <1>1, <1>2, Q1Pushes DEF IInv
<1> DEFINE a == Contents(q1)
           d == Optional(d_pc = "show", d_frame)
<1>4. a \in Seq(Frames) /\ driver \in Seq(Frames)
  BY DEF IInv, QueueOf, Kinds
<1>5. Append(a, f) \o (<<>> \o driver) = a \o (<<f>> \o driver)
  <2> HIDE DEF a
  <2> QED BY <1>4, AcrossParts
<1>6. Line' = Line
  <2>1. Line = d \o (a \o (<<f>> \o driver))
    BY <1>1, <1>2 DEF Line, Optional
  <2>2. Line' = d \o (Append(a, f) \o (<<>> \o driver))
    BY <1>1, <1>3 DEF Line, Optional
  <2> QED BY <1>5, <2>1, <2>2
<1>7. Kinds' /\ OwnIndex'
  BY <1>1 DEF IInv, Kinds, OwnIndex
<1>8. InStep'
  BY <1>1 DEF IInv, InStep
<1>9. QueueOf(free_list')
  BY <1>1, FreeList
<1> QED BY <1>3, <1>6, <1>7, <1>8, <1>9 DEF IInv

\* The first frame of q1 becomes the one that is shown.
LEMMA DisplayTakesKeeps == ASSUME IInv, DisplayPops \/ DisplayWakes PROVE IInv'
<1>1. PICK f \in Frames : /\ \/ Q1!Pop(f) /\ d_pc # "pop_wait"
                             \/ Q1!PopWakes("display", f)
                          /\ d_frame' = f
  BY DEF DisplayPops, DisplayWakes, DisplayAt
<1>2. /\ d_pc \in {"pop", "pop_wait"} /\ d_pc' = "show"
      /\ UNCHANGED <<streaming, driver, filled, index, free_list, c_pc, c_frame>>
  BY DEF DisplayPops, DisplayWakes, DisplayAt, camera, capture
<1>3. /\ QueueOf(q1') /\ Waiting' /\ Contents(q1) = <<f>> \o Contents(q1')
  BY <1>1, Q1Pops DEF IInv
<1> DEFINE a == Contents(q1')
           b == Optional(c_pc = "push", c_frame) \o driver
<1>4. a \in Seq(Frames) /\ b \in Seq(Frames)
  <2>1. Optional(c_pc = "push", c_frame) \in Seq(Frames)
    BY DEF IInv, Kinds, Optional
  <2> QED BY <1>3, <2>1, ConcatProperties DEF IInv, Kinds, QueueOf
<1>5. <<>> \o ((<<f>> \o a) \o b) = <<f>> \o (a \o b)
  <2> HIDE DEF a, b
  <2> QED BY <1>4, ToTheFront
<1>6. Line' = Line
  <2>1. Line = <<>> \o ((<<f>> \o a) \o b)
    BY <1>2, <1>3 DEF Line, Optional
  <2>2. Line' = <<f>> \o (a \o b)
    BY <1>1, <1>2 DEF Line, Optional
  <2> QED BY <1>5, <2>1, <2>2
<1>7. Kinds' /\ OwnIndex'
  BY <1>1, <1>2 DEF IInv, Kinds, OwnIndex
<1>8. InStep'
  BY <1>2 DEF IInv, InStep
<1>9. QueueOf(free_list')
  BY <1>2, FreeList
<1> QED BY <1>3, <1>6, <1>7, <1>8, <1>9 DEF IInv

\* The frame that was shown goes to the end of the line.
LEMMA QbufKeeps == ASSUME IInv, Qbuf PROVE IInv'
<1>1. /\ d_pc = "show" /\ d_pc' = "free_push" /\ driver' = Append(driver, index[d_frame])
      /\ UNCHANGED <<streaming, filled, index, free_list, q1, c_pc, c_frame, d_frame>>
  BY DEF Qbuf, DisplayAt, capture
<1>2. PICK f \in Frames : f = d_frame /\ index[d_frame] = f
  BY <1>1 DEF IInv, Kinds, OwnIndex
<1> DEFINE a == Optional(c_pc = "dqbuf", c_frame)
           b == Contents(free_list)
           c == Optional(c_pc = "push", c_frame)
           d == Contents(q1)
<1>3. /\ a \in Seq(Frames) /\ b \in Seq(Frames) /\ c \in Seq(Frames) /\ d \in Seq(Frames)
      /\ driver \in Seq(Frames)
  BY DEF IInv, Kinds, Optional, QueueOf
<1>4. InStep'
  <2>1. driver = (a \o b) \o <<>>
    BY <1>1 DEF IInv, InStep, Optional
  <2>2. InStep' <=> driver' = (a \o b) \o <<f>>
    BY <1>1, <1>2 DEF InStep, Optional
  <2> HIDE DEF a, b, c, d
  <2>3. Append((a \o b) \o <<>>, f) = (a \o b) \o <<f>>
    BY <1>3, LastOfTwo
  <2> QED BY <1>1, <1>2, <2>1, <2>2, <2>3
<1>5. Once(Line)'
  <2>1. Line = <<f>> \o (d \o (c \o driver))
    BY <1>1, <1>2 DEF Line, Optional
  <2>2. Line' = <<>> \o (d \o (c \o Append(driver, f)))
    BY <1>1, <1>2 DEF Line, Optional
  <2>3. Once(Line)
    BY DEF IInv
  <2> HIDE DEF a, b, c, d
  <2>4. d \o (c \o driver) \in Seq(Frames)
    BY <1>3, ConcatProperties
  <2>5. Once(Append(d \o (c \o driver), f))
    BY <2>1, <2>3, <2>4, Rotated
  <2>6. d \o (c \o Append(driver, f)) = Append(d \o (c \o driver), f)
    <3>1. c \o driver \in Seq(Frames)
      BY <1>3, ConcatProperties
    <3>2. c \o Append(driver, f) = Append(c \o driver, f)
      BY <1>3, LastOfAll
    <3>3. d \o Append(c \o driver, f) = Append(d \o (c \o driver), f)
      BY <1>3, <3>1, LastOfAll
    <3> QED BY <3>2, <3>3
  <2>7. Append(d \o (c \o driver), f) \in Seq(Frames)
    BY <2>4, AppendProperties
  <2>8. Line' = Append(d \o (c \o driver), f)
    BY <2>2, <2>6, <2>7, ConcatEmptySeq
  <2> QED BY <2>5, <2>8
<1>6. Kinds'
  <2>1. driver' \in Seq(Frames) /\ Len(driver') = Len(driver) + 1 /\ Len(driver) \in Nat
    BY <1>1, <1>2, <1>3, AppendProperties
  <2>2. filled' \in 0 .. Len(driver')
    BY <1>1, <2>1 DEF IInv, Kinds
  <2> QED BY <1>1, <1>2, <2>1, <2>2 DEF IInv, Kinds
<1>7. OwnIndex' /\ QueueOf(q1') /\ Waiting'
  BY <1>1 DEF IInv, OwnIndex, Waiting
<1>8. QueueOf(free_list')
  BY <1>1, FreeList
<1> QED BY <1>4, <1>5, <1>6, <1>7, <1>8 DEF IInv

\* And its frame to the end of the free list.
LEMMA FreePushKeeps == ASSUME IInv, FreePush PROVE IInv'
<1>1. /\ d_pc = "free_push" /\ d_pc' = "print" /\ Free!Push(d_frame)
      /\ UNCHANGED <<streaming, driver, filled, index, q1, c_pc, c_frame, d_frame>>
  BY DEF FreePush, DisplayAt, camera, capture
<1>2. PICK f \in Frames : f = d_frame
  BY <1>1 DEF IInv, Kinds
<1>3. QueueOf(free_list') /\ Contents(free_list') = Append(Contents(free_list), f)
  BY <1>1, <1>2, FreePushes DEF IInv
<1> DEFINE a == Optional(c_pc = "dqbuf", c_frame)
           b == Contents(free_list)
<1>4. a \in Seq(Frames) /\ b \in Seq(Frames)
  BY DEF IInv, Kinds, Optional, QueueOf
<1>5. InStep'
  <2>1. driver = (a \o b) \o <<f>>
    BY <1>1, <1>2 DEF IInv, InStep, Optional
  <2>2. InStep' <=> driver = (a \o Append(b, f)) \o <<>>
    BY <1>1, <1>3 DEF InStep, Optional
  <2> HIDE DEF a, b
  <2>3. (a \o Append(b, f)) \o <<>> = (a \o b) \o <<f>>
    BY <1>4, LastOfSecond
  <2> QED BY <2>1, <2>2, <2>3
<1>6. Line' = Line
  BY <1>1 DEF Line, Optional
<1>7. Kinds' /\ OwnIndex' /\ QueueOf(q1') /\ Waiting'
  BY <1>1 DEF IInv, Kinds, OwnIndex, Waiting
<1> QED BY <1>3, <1>5, <1>6, <1>7 DEF IInv

\* Every step keeps the invariant.
LEMMA StepKeeps == IInv /\ [Next]_vars => IInv'
<1> SUFFICES ASSUME IInv, [Next]_vars PROVE IInv'
  OBVIOUS
<1>1. CASE Fill
  <2>1. /\ filled' = filled + 1 /\ filled < Len(driver)
        /\ UNCHANGED <<streaming, driver, index, free_list, q1, capture, display>>
    BY <1>1 DEF Fill
  <2>2. OwnIndex' /\ InStep' /\ Once(Line)'
    BY <2>1, NoFrameMoves DEF capture, display
  <2>3. QueueOf(free_list') /\ QueueOf(q1') /\ Waiting'
    BY <2>1, FreeList, Images DEF display
  <2>4. Kinds'
    <3>1. Len(driver) \in Nat
      BY DEF IInv, Kinds
    <3>2. filled' \in 0 .. Len(driver')
      BY <2>1, <3>1 DEF IInv, Kinds
    <3> QED BY <2>1, <3>2 DEF IInv, Kinds, capture, display
  <2> QED BY <2>2, <2>3, <2>4 DEF IInv
<1>2. CASE \/ StreamStart \/ Select \/ SelectFails \/ SelectTimeout \/ FreePopThrows
           \/ CapturePrints \/ UNCHANGED vars
  <2>1. /\ UNCHANGED <<driver, filled, index, free_list, q1, d_pc, d_frame>>
        /\ \/ c_pc' = c_pc /\ c_frame' = c_frame
           \/ /\ {c_pc, c_pc'} \subseteq {"start", "select", "free_pop", "print", "thrown", "crashed"}
              /\ c_frame' \in {c_frame, Null}
        /\ streaming' <=> c_pc' # "start"
    BY <1>2 DEF StreamStart, Select, SelectFails, SelectTimeout, FreePopThrows, CapturePrints,
                vars, camera, display, IInv, Kinds, Free!PopRefused
  <2>2. OwnIndex' /\ InStep' /\ Once(Line)'
    BY <2>1, NoFrameMoves
  <2>3. QueueOf(free_list') /\ QueueOf(q1') /\ Waiting'
    BY <2>1, FreeList, Images
  <2>4. Kinds'
    BY <2>1 DEF IInv, Kinds
  <2> QED BY <2>2, <2>3, <2>4 DEF IInv
<1>10. CASE DisplayPrints
  <2>1. /\ UNCHANGED <<streaming, driver, filled, index, free_list, q1, c_pc, c_frame>>
        /\ d_pc = "print" /\ d_pc' = "pop" /\ d_frame' = Null
    BY <1>10 DEF DisplayPrints, DisplayAt, camera, capture
  <2>2. OwnIndex' /\ InStep' /\ Once(Line)'
    BY <2>1, NoFrameMoves
  <2>3. QueueOf(free_list') /\ QueueOf(q1')
    BY <2>1 DEF IInv
  <2>4. Waiting'
    BY <2>1 DEF IInv, Waiting
  <2>5. Kinds'
    BY <2>1 DEF IInv, Kinds
  <2> QED BY <2>2, <2>3, <2>4, <2>5 DEF IInv
<1>3. CASE DisplayBlocks
  <2>1. /\ d_pc = "pop" /\ d_pc' = "pop_wait" /\ q1.head = q1.tail
        /\ q1' = [q1 EXCEPT !.empty_waits = @ \cup {"display"}]
        /\ UNCHANGED <<streaming, driver, filled, index, free_list, c_pc, c_frame, d_frame>>
    BY <1>3 DEF DisplayBlocks, DisplayAt, Q1!PopBlocks, Q1!IsEmpty, camera, capture
  <2>2. /\ q1' \in Queues(Frames \cup {Null}) /\ q1'.size = q1.size
        /\ q1'.head = q1.head /\ q1'.tail = q1.tail /\ q1'.ptr = q1.ptr
        /\ q1'.empty_waits = q1.empty_waits \cup {"display"} /\ q1'.empty_woken = q1.empty_woken
    BY <2>1 DEF IInv, QueueOf, Queues, Threads
  <2>3. Contents(q1') = Contents(q1) /\ Ring(q1')
    BY <2>2 DEF Contents, Ring, IInv, QueueOf
  <2>4. QueueOf(q1') /\ Waiting'
    BY <2>1, <2>2, <2>3 DEF IInv, QueueOf, Waiting
  <2>5. OwnIndex' /\ InStep' /\ Once(Line)'
    BY <2>1, <2>3, NoFrameMoves
  <2>6. QueueOf(free_list')
    BY <2>1, FreeList
  <2>7. Kinds'
    BY <2>1 DEF IInv, Kinds
  <2> QED BY <2>4, <2>5, <2>6, <2>7 DEF IInv
<1>4. CASE FreePop
  BY <1>4, FreePopKeeps
<1>5. CASE Dqbuf
  BY <1>5, DqbufKeeps
<1>6. CASE CapturePushes
  BY <1>6, CapturePushesKeeps
<1>7. CASE DisplayPops \/ DisplayWakes
  BY <1>7, DisplayTakesKeeps
<1>8. CASE Qbuf
  BY <1>8, QbufKeeps
<1>9. CASE FreePush
  BY <1>9, FreePushKeeps
<1> QED BY <1>1, <1>2, <1>3, <1>4, <1>5, <1>6, <1>7, <1>8, <1>9, <1>10 DEF Next, Capture, Display

\* The invariant of the camera pipeline.
THEOREM Inductive == Spec => []IInv
<1>1. Init => IInv
  BY First
<1>2. IInv /\ [Next]_vars => IInv'
  BY StepKeeps
<1> QED BY <1>1, <1>2, PTL DEF Spec

\* The states of the camera and of its two threads stay of their kinds.
THEOREM Typed == Spec => []TypeOK
<1>1. IInv => TypeOK
  BY DEF IInv, Kinds, OwnIndex, TypeOK
<1> QED BY <1>1, Inductive, PTL

\* The driver's queue and the free list list the same frames in the same
\* order: the buffer VIDIOC_DQBUF returns is that of the frame pop has taken.
THEOREM DriverInStep == Spec => []InStep
<1>1. IInv => InStep
  BY DEF IInv
<1> QED BY <1>1, Inductive, PTL

\* Two parts of a line, position by position.
LEMMA TwoParts ==
    ASSUME NEW S, NEW a \in Seq(S), NEW b \in Seq(S)
    PROVE  /\ a \o b \in Seq(S) /\ Len(a) \in Nat /\ Len(b) \in Nat
           /\ Len(a \o b) = Len(a) + Len(b)
           /\ \A i \in 1 .. Len(a) : (a \o b)[i] = a[i]
           /\ \A i \in 1 .. Len(b) : (a \o b)[Len(a) + i] = b[i]
<1> DEFINE u == a \o b
           m == Len(a)
           n == Len(b)
<1>1. /\ u \in Seq(S) /\ m \in Nat /\ n \in Nat /\ Len(u) = m + n
      /\ \A i \in 1 .. m + n : u[i] = IF i <= m THEN a[i] ELSE b[i - m]
  BY ConcatProperties
<1> HIDE DEF u, m, n
<1>2. ASSUME NEW i \in 1 .. m PROVE u[i] = a[i]
  <2>1. i \in 1 .. m + n /\ i <= m
    BY <1>1
  <2> QED BY <1>1, <2>1
<1>3. ASSUME NEW i \in 1 .. n PROVE u[m + i] = b[i]
  <2>1. m + i \in 1 .. m + n /\ ~(m + i <= m) /\ (m + i) - m = i
    BY <1>1
  <2> QED BY <1>1, <2>1
<1> QED BY <1>1, <1>2, <1>3 DEF u, m, n

\* The four parts of the line.
LEMMA FourParts ==
    ASSUME NEW S, NEW a \in Seq(S), NEW b \in Seq(S), NEW c \in Seq(S), NEW d \in Seq(S),
           NEW u, u = a \o (b \o (c \o d))
    PROVE  /\ Len(u) = Len(a) + Len(b) + Len(c) + Len(d)
           /\ Len(a) \in Nat /\ Len(b) \in Nat /\ Len(c) \in Nat /\ Len(d) \in Nat
           /\ \A i \in 1 .. Len(a) : u[i] = a[i]
           /\ \A i \in 1 .. Len(b) : u[Len(a) + i] = b[i]
           /\ \A i \in 1 .. Len(c) : u[Len(a) + Len(b) + i] = c[i]
           /\ \A i \in 1 .. Len(d) : u[Len(a) + Len(b) + Len(c) + i] = d[i]
<1> DEFINE w == c \o d
           v == b \o w
<1>1. /\ w \in Seq(S) /\ Len(c) \in Nat /\ Len(d) \in Nat /\ Len(w) = Len(c) + Len(d)
      /\ \A i \in 1 .. Len(c) : w[i] = c[i]
      /\ \A i \in 1 .. Len(d) : w[Len(c) + i] = d[i]
  BY TwoParts
<1>a. w \in Seq(S)
  BY <1>1
<1> HIDE DEF w
<1>2. /\ v \in Seq(S) /\ Len(b) \in Nat /\ Len(v) = Len(b) + Len(w)
      /\ \A i \in 1 .. Len(b) : v[i] = b[i]
      /\ \A i \in 1 .. Len(w) : v[Len(b) + i] = w[i]
  BY <1>a, TwoParts
<1>b. v \in Seq(S)
  BY <1>2
<1> HIDE DEF v
<1>3. /\ Len(a) \in Nat /\ Len(a \o v) = Len(a) + Len(v)
      /\ \A i \in 1 .. Len(a) : (a \o v)[i] = a[i]
      /\ \A i \in 1 .. Len(v) : (a \o v)[Len(a) + i] = v[i]
  BY <1>b, TwoParts
<1>4. u = a \o v
  BY DEF v, w
<1>5. Len(u) = Len(a) + Len(b) + Len(c) + Len(d)
  BY <1>1, <1>2, <1>3, <1>4
<1>6. ASSUME NEW i \in 1 .. Len(b) PROVE u[Len(a) + i] = b[i]
  <2>1. i \in 1 .. Len(v)
    BY <1>1, <1>2
  <2> QED BY <1>2, <1>3, <1>4, <2>1
<1>7. ASSUME NEW i \in 1 .. Len(w) PROVE u[Len(a) + Len(b) + i] = w[i]
  <2>1. Len(b) + i \in 1 .. Len(v) /\ Len(a) + Len(b) + i = Len(a) + (Len(b) + i)
    BY <1>1, <1>2, <1>3
  <2>2. u[Len(a) + (Len(b) + i)] = v[Len(b) + i]
    BY <1>3, <1>4, <2>1
  <2> QED BY <1>2, <2>1, <2>2
<1>8. ASSUME NEW i \in 1 .. Len(c) PROVE u[Len(a) + Len(b) + i] = c[i]
  <2>1. i \in 1 .. Len(w)
    BY <1>1
  <2> QED BY <1>1, <1>7, <2>1
<1>9. ASSUME NEW i \in 1 .. Len(d) PROVE u[Len(a) + Len(b) + Len(c) + i] = d[i]
  <2>1. /\ Len(c) + i \in 1 .. Len(w)
        /\ Len(a) + Len(b) + Len(c) + i = Len(a) + Len(b) + (Len(c) + i)
    BY <1>1, <1>2, <1>3
  <2>2. u[Len(a) + Len(b) + (Len(c) + i)] = w[Len(c) + i]
    BY <1>7, <2>1
  <2> QED BY <1>1, <2>1, <2>2
<1>10. \A i \in 1 .. Len(a) : u[i] = a[i]
  BY <1>3, <1>4
<1> QED BY <1>1, <1>2, <1>3, <1>5, <1>6, <1>8, <1>9, <1>10

\* A frame that is once in the line is in one place.
LEMMA OneOfPlaces ==
    ASSUME IInv, NEW f \in Frames
    PROVE  \E p \in Places(f) : Places(f) = {p}
<1> DEFINE a == Optional(d_pc = "show", d_frame)
           b == Contents(q1)
           c == Optional(c_pc = "push", c_frame)
<1>1. /\ a \in Seq(Frames) /\ b \in Seq(Frames) /\ c \in Seq(Frames) /\ driver \in Seq(Frames)
      /\ Line = a \o (b \o (c \o driver))
      /\ DOMAIN b = 1 .. Len(b) /\ DOMAIN driver = 1 .. Len(driver)
  BY DEF IInv, Kinds, Optional, QueueOf, Line
<1>2. /\ Len(a) = IF d_pc = "show" THEN 1 ELSE 0
      /\ d_pc = "show" => a[1] = d_frame
      /\ Len(c) = IF c_pc = "push" THEN 1 ELSE 0
      /\ c_pc = "push" => c[1] = c_frame
  BY DEF Optional
<1>3. PICK k \in 1 .. Len(Line) : OnlyAt(Line, Len(Line), f, k)
  BY DEF IInv, Once
<1> DEFINE na == Len(a)
           nb == Len(b)
           nc == Len(c)
           nd == Len(driver)
<1> HIDE DEF a, b, c
<1>4. /\ Len(Line) = na + nb + nc + nd
      /\ na \in Nat /\ nb \in Nat /\ nc \in Nat /\ nd \in Nat
      /\ \A i \in 1 .. na : Line[i] = a[i]
      /\ \A i \in 1 .. nb : Line[na + i] = b[i]
      /\ \A i \in 1 .. nc : Line[na + nb + i] = c[i]
      /\ \A i \in 1 .. nd : Line[na + nb + nc + i] = driver[i]
  BY <1>1, FourParts
<1>5. na \in {0, 1} /\ nc \in {0, 1} /\ (d_pc = "show" <=> na = 1) /\ (c_pc = "push" <=> nc = 1)
  BY <1>2
<1> HIDE DEF na, nb, nc, nd
<1>6. k \in Int /\ 1 <= k /\ k <= na + nb + nc + nd
  BY <1>3, <1>4
<1>7. \A j \in 1 .. na + nb + nc + nd : Line[j] = f <=> j = k
  BY <1>3, <1>4 DEF OnlyAt
<1>8. (d_pc = "show" /\ d_frame = f) <=> k <= na
  <2>1. CASE na = 1
    <3>1. 1 \in 1 .. na /\ 1 \in 1 .. na + nb + nc + nd
      BY <1>4, <2>1
    <3>2. Line[1] = d_frame
      BY <1>2, <1>4, <1>5, <2>1, <3>1
    <3>3. d_frame = f <=> k = 1
      BY <1>7, <3>1, <3>2
    <3> QED BY <1>5, <1>6, <2>1, <3>3
  <2>2. CASE na = 0
    BY <1>5, <1>6, <2>2
  <2> QED BY <1>5, <2>1, <2>2
<1>9. ASSUME NEW i \in 1 .. nb PROVE b[i] = f <=> k = na + i
  <2>1. na + i \in 1 .. na + nb + nc + nd
    BY <1>4
  <2> QED BY <1>4, <1>7, <2>1
<1>10. (c_pc = "push" /\ c_frame = f) <=> k = na + nb + 1 /\ nc = 1
  <2>1. CASE nc = 1
    <3>1. 1 \in 1 .. nc /\ na + nb + 1 \in 1 .. na + nb + nc + nd
      BY <1>4, <2>1
    <3>2. Line[na + nb + 1] = c_frame
      BY <1>2, <1>4, <1>5, <2>1, <3>1
    <3>3. c_frame = f <=> na + nb + 1 = k
      BY <1>7, <3>1, <3>2
    <3> QED BY <1>5, <2>1, <3>3
  <2>2. CASE nc = 0
    BY <1>5, <2>2
  <2> QED BY <1>5, <2>1, <2>2
<1>11. ASSUME NEW i \in 1 .. nd PROVE driver[i] = f <=> k = na + nb + nc + i
  <2>1. na + nb + nc + i \in 1 .. na + nb + nc + nd
    BY <1>4
  <2> QED BY <1>4, <1>7, <2>1
<1>12. InQ1(f) = {i \in 1 .. nb : k = na + i}
  BY <1>1, <1>9 DEF InQ1, b, nb
<1>13. WithDriver(f) = {i \in 1 .. nd : k = na + nb + nc + i}
  BY <1>1, <1>11 DEF WithDriver, nd
<1>14. CASE k <= na
  <2>1. InQ1(f) = {} /\ WithDriver(f) = {} /\ ~(k = na + nb + 1)
    BY <1>4, <1>6, <1>12, <1>13, <1>14
  <2>2. Places(f) = {<<"display", 1>>}
    BY <1>8, <1>10, <1>14, <2>1 DEF Places
  <2> QED BY <2>2
<1>15. CASE na < k /\ k <= na + nb
  <2>1. InQ1(f) = {k - na} /\ WithDriver(f) = {} /\ ~(k = na + nb + 1) /\ ~(k <= na)
    BY <1>4, <1>6, <1>12, <1>13, <1>15
  <2>2. Places(f) = {<<"q1", k - na>>}
    BY <1>8, <1>10, <2>1 DEF Places
  <2> QED BY <2>2
<1>16. CASE na + nb < k /\ k <= na + nb + nc
  <2>1. InQ1(f) = {} /\ WithDriver(f) = {} /\ k = na + nb + 1 /\ nc = 1 /\ ~(k <= na)
    BY <1>4, <1>5, <1>6, <1>12, <1>13, <1>16
  <2>2. Places(f) = {<<"capture", 1>>}
    BY <1>8, <1>10, <2>1 DEF Places
  <2> QED BY <2>2
<1>17. CASE na + nb + nc < k
  <2>1. /\ InQ1(f) = {} /\ WithDriver(f) = {k - na - nb - nc}
        /\ ~(k = na + nb + 1 /\ nc = 1) /\ ~(k <= na)
    <3>1. k - na - nb - nc \in 1 .. nd /\ \A i \in 1 .. nd : k = na + nb + nc + i <=> i = k - na - nb - nc
      BY <1>4, <1>6, <1>17
    <3>2. WithDriver(f) = {k - na - nb - nc}
      BY <1>13, <3>1
    <3>3. InQ1(f) = {}
      BY <1>4, <1>6, <1>12, <1>17
    <3> QED BY <1>4, <1>6, <1>17, <3>2, <3>3
  <2>2. Places(f) = {<<"driver", k - na - nb - nc>>}
    BY <1>8, <1>10, <2>1 DEF Places
  <2> QED BY <2>2
<1> QED BY <1>4, <1>6, <1>14, <1>15, <1>16, <1>17

\* Each frame is in one place, with any number of buffers: an image that is
\* pushed, queued for display or shown is not the driver's to fill, nor any
\* other thread's.
THEOREM AlwaysOnePlace == Spec => []OnePlace
<1>1. IInv => OnePlace
  BY OneOfPlaces DEF OnePlace
<1> QED BY <1>1, Inductive, PTL

\* There is room for a frame that comes back, in q1 and in the free list: the
\* pointer push stores before it tests overwrites no frame, capture_thread never
\* waits in push, and the free list never refuses a frame.
AlwaysRoom ==
    /\ c_pc = "push" => ~Q1!IsFull
    /\ d_pc = "free_push" => ~Free!IsFull

\* With any number of buffers, push of frame_queue.cpp:28-54 never finds either
\* queue full in this pipeline.
THEOREM NeverFull == Spec => []AlwaysRoom
<1>1. ASSUME IInv PROVE AlwaysRoom
  <2> DEFINE a == Optional(d_pc = "show", d_frame)
             b == Contents(q1)
             c == Optional(c_pc = "push", c_frame)
  <2>1. /\ a \in Seq(Frames) /\ b \in Seq(Frames) /\ c \in Seq(Frames) /\ driver \in Seq(Frames)
        /\ Line = a \o (b \o (c \o driver)) /\ Len(Line) = buf_count
    <3>1. a \in Seq(Frames) /\ b \in Seq(Frames) /\ c \in Seq(Frames) /\ driver \in Seq(Frames)
      BY <1>1 DEF IInv, Kinds, Optional, QueueOf
    <3>2. Line = a \o (b \o (c \o driver))
      BY DEF Line
    <3>3. Len(Line) = buf_count
      BY <1>1 DEF IInv, Once
    <3> QED BY <3>1, <3>2, <3>3
  <2>2. buf_count \in Nat /\ q1.size = buf_count /\ free_list.size = buf_count
    BY <1>1, PipelineAssumption DEF IInv, QueueOf
  <2>3. c_pc = "push" => Len(c) = 1
    BY DEF Optional
  <2> HIDE DEF a, b, c
  <2>4. /\ buf_count = Len(a) + Len(b) + Len(c) + Len(driver)
        /\ Len(a) \in Nat /\ Len(b) \in Nat /\ Len(c) \in Nat /\ Len(driver) \in Nat
    BY <2>1, FourParts
  <2>5. ASSUME c_pc = "push", Q1!IsFull PROVE FALSE
    <3>1. Ring(q1) /\ q1.head = After(q1, q1.tail)
      BY <1>1, <2>5 DEF IInv, QueueOf, Q1!IsFull, Q1!Following, After
    <3>2. Held(q1) = buf_count /\ Contents(q1) = [i \in 1 .. Held(q1) |-> q1.ptr[Slot(q1, i - 1)]]
      BY <2>2, <3>1, ContentsOf
    <3>3. Len(b) = buf_count
      BY <2>2, <3>2 DEF b
    <3>4. Len(c) = 1
      BY <2>3, <2>5
    <3> QED BY <2>4, <3>3, <3>4
  <2>6. ASSUME d_pc = "free_push", Free!IsFull PROVE FALSE
    <3> DEFINE e == Optional(c_pc = "dqbuf", c_frame)
               g == Contents(free_list)
    <3>1. Ring(free_list) /\ free_list.head = After(free_list, free_list.tail)
      BY <1>1, <2>6 DEF IInv, QueueOf, Free!IsFull, Free!Following, After
    <3>2. /\ Held(free_list) = buf_count
          /\ Contents(free_list) = [i \in 1 .. Held(free_list) |-> free_list.ptr[Slot(free_list, i - 1)]]
      BY <2>2, <3>1, ContentsOf
    <3>3. Len(g) = buf_count
      BY <2>2, <3>2
    <3>4. PICK f \in Frames : f = d_frame
      BY <1>1, <2>6 DEF IInv, Kinds
    <3>5. e \in Seq(Frames) /\ g \in Seq(Frames) /\ driver = (e \o g) \o <<f>>
      BY <1>1, <2>6, <3>4 DEF IInv, InStep, Kinds, QueueOf, Optional
    <3> HIDE DEF e, g
    <3>6. e \o g \in Seq(Frames) /\ Len(e \o g) = Len(e) + Len(g) /\ Len(e) \in Nat
      BY <3>5, TwoParts
    <3>7. (e \o g) \o <<f>> = Append(e \o g, f)
      BY <3>6, AppendIsConcat
    <3>8. Len(driver) = Len(e \o g) + 1
      BY <3>5, <3>6, <3>7, AppendProperties
    <3> QED BY <2>2, <2>4, <3>3, <3>6, <3>8
  <2> QED BY <2>5, <2>6 DEF AlwaysRoom
<1> QED BY <1>1, Inductive, PTL

-----------------------------------------------------------------------------
(* FrameStream implements Fifo *)

CONSTANTS MaxFrames, MaxSizes
VARIABLES q, next, pushing, popping, accepted, popped

Numbered == 1 .. MaxFrames

Stream == INSTANCE FrameStream WITH Frames <- Numbered

\* What the pusher waits for: that there is room behind the slot it has stored in.
PusherWaits ==
    /\ q.full_waits \cup q.full_woken =
          (IF pushing = Null THEN {} ELSE {<<"pusher", After(q, q.tail)>>})
    /\ q.full_waits \cap q.full_woken = {}
    /\ pushing # Null => q.ptr[q.tail] = pushing
    /\ q.full_woken # {} => q.head # After(q, q.tail)

PopperWaits ==
    /\ q.empty_waits \cup q.empty_woken = (IF popping THEN {"popper"} ELSE {})
    /\ q.empty_waits \cap q.empty_woken = {}
    /\ q.empty_woken # {} => q.head # q.tail

StreamKinds ==
    /\ next \in 1 .. MaxFrames + 1
    /\ pushing \in Numbered \cup {Null} /\ popping \in BOOLEAN
    /\ q \in Queues(Numbered \cup {Null}) /\ Ring(q) /\ q.size <= MaxQueueSize

\* The difference between what was accepted and what was popped is what the
\* ring holds.
Difference ==
    /\ Contents(q) \in Seq(Numbered) /\ popped \in Seq(Numbered)
    /\ accepted = popped \o Contents(q)

StreamInv == StreamKinds /\ Difference /\ PusherWaits /\ PopperWaits

Assumed == Stream!QueueAssumption /\ Stream!StreamAssumption

\* The operations of the lemmas, once more.
LEMMA StreamOperations ==
    ASSUME NEW s, Ring(s), s.size = q.size
    PROVE  /\ \A i : Stream!Following(i) = After(q, i)
           /\ \A n : Stream!Appended(s, n) = AppendedTo(s, n)
           /\ Stream!Taken(s) = TakenFrom(s)
<1>1. \A i : Stream!Following(i) = After(s, i) /\ After(q, i) = After(s, i)
  BY DEF Stream!Following, After
<1>2. Stream!Count(s) = Held(s)
  BY DEF Stream!Count, Held, Ring
<1> QED BY <1>1, <1>2 DEF Stream!Appended, Stream!SignalEmpty, AppendedTo,
                          Stream!Taken, Stream!SignalFull, TakenFrom

\* A stream begins with an empty queue.
LEMMA StreamFirst == Assumed /\ Stream!Init => StreamInv /\ Stream!Abstract!Init
<1> SUFFICES ASSUME Assumed, Stream!Init PROVE StreamInv /\ Stream!Abstract!Init
  OBVIOUS
<1>1. MaxQueueSize \in Nat \ {0} /\ MaxFrames \in Nat /\ MaxSizes \subseteq Int
  BY DEF Assumed, Stream!QueueAssumption, Stream!StreamAssumption
<1>2. PICK max_size \in MaxSizes, on_empty \in BOOLEAN, on_full \in BOOLEAN :
         q = Stream!NewQueue(max_size, on_empty, on_full)
  BY DEF Stream!Init
<1>3. Stream!SizeFor(max_size) \in 1 .. MaxQueueSize
  BY <1>1 DEF Stream!SizeFor
<1>4. /\ q \in Queues(Numbered \cup {Null}) /\ q.size = Stream!SizeFor(max_size)
      /\ q.head = 0 /\ q.tail = 0
      /\ q.full_waits = {} /\ q.full_woken = {} /\ q.empty_waits = {} /\ q.empty_woken = {}
  BY <1>1, <1>2, <1>3 DEF Stream!NewQueue, Queues
<1>5. Ring(q) /\ q.size <= MaxQueueSize /\ q.size \in Nat
  BY <1>1, <1>3, <1>4 DEF Ring
<1>6. Contents(q) = <<>>
  <2>1. Contents(q) = [i \in 1 .. 0 |-> q.ptr[i - 1]]
    BY <1>4, <1>5, FirstContents
  <2> QED BY <2>1
<1>7. Difference
  <2>1. <<>> \in Seq(Numbered) /\ <<>> \o <<>> = <<>>
    BY ConcatEmptySeq
  <2> QED BY <1>6, <2>1 DEF Stream!Init, Difference
<1>8. StreamKinds
  <2>1. next = 1 /\ pushing = Null /\ popping = FALSE
    BY DEF Stream!Init
  <2>2. next \in 1 .. MaxFrames + 1
    BY <1>1, <2>1
  <2> QED BY <1>4, <1>5, <2>1, <2>2 DEF StreamKinds
<1>9. PusherWaits /\ PopperWaits
  BY <1>4 DEF Stream!Init, PusherWaits, PopperWaits
<1>10. Stream!Abstract!Init
  BY <1>5 DEF Stream!Init, Stream!Abstract!Init
<1> QED BY <1>7, <1>8, <1>9, <1>10 DEF StreamInv

AbstractStep ==
    [Stream!Abstract!Put \/ Stream!Abstract!Take]_<<q.size, accepted, popped>>

\* A frame that is accepted is the last the ring holds, and was put.
LEMMA Accepts ==
    ASSUME Ring(q), Difference, NEW f \in Numbered, q.head # After(q, q.tail),
           Contents(q') = Append(Contents(q), f), accepted' = Append(accepted, f),
           popped' = popped, q'.size = q.size
    PROVE  Difference' /\ AbstractStep
<1> DEFINE c == Contents(q)
<1>1. c \in Seq(Numbered) /\ popped \in Seq(Numbered) /\ accepted = popped \o c
  BY DEF Difference
<1>2. Len(c) = Held(q) /\ Held(q) \in 0 .. q.size /\ Held(q) # q.size /\ q.size \in Nat
  <2>1. /\ Held(q) \in 0 .. q.size /\ Held(q) # q.size
        /\ Contents(q) = [i \in 1 .. Held(q) |-> q.ptr[Slot(q, i - 1)]]
    BY ContentsOf
  <2> QED BY <2>1 DEF Ring
<1> HIDE DEF c
<1>3. popped \o Append(c, f) = Append(popped \o c, f)
  BY <1>1, LastOfAll
<1>4. Append(c, f) \in Seq(Numbered)
  BY <1>1, AppendProperties
<1>5. Difference'
  BY <1>1, <1>3, <1>4 DEF Difference, c
<1>6. Len(accepted) = Len(popped) + Len(c) /\ Len(popped) \in Nat /\ Len(c) \in Nat
  BY <1>1, TwoParts
<1>7. Len(accepted) - Len(popped) < q.size
  BY <1>2, <1>6
<1>8. Stream!Abstract!Put
  BY <1>7 DEF Stream!Abstract!Put
<1> QED BY <1>5, <1>8 DEF AbstractStep

\* A frame that is popped was the first the ring held, and is taken.
LEMMA Delivers ==
    ASSUME Difference, NEW f \in Numbered, Contents(q') \in Seq(Numbered),
           Contents(q) = <<f>> \o Contents(q'), accepted' = accepted,
           popped' = Append(popped, f), q'.size = q.size
    PROVE  Difference' /\ AbstractStep
<1> DEFINE c == Contents(q)
           d == Contents(q')
           t == <<f>>
<1>1. /\ c \in Seq(Numbered) /\ popped \in Seq(Numbered) /\ accepted = popped \o c
      /\ d \in Seq(Numbered) /\ t \in Seq(Numbered) /\ c = t \o d
      /\ Len(t) = 1 /\ t[1] = f
  BY DEF Difference
<1>2. popped' = popped \o t
  BY <1>1, AppendIsConcat
<1>3. popped' \in Seq(Numbered)
  BY <1>1, AppendProperties
<1>a. popped \in Seq(Numbered) /\ t \in Seq(Numbered) /\ d \in Seq(Numbered)
  BY <1>1
<1> HIDE DEF c, d, t
<1>4. popped \o (t \o d) = (popped \o t) \o d
  BY <1>a, ConcatAssociative
<1>5. Difference'
  <2>1. accepted' = popped' \o d
    BY <1>1, <1>2, <1>4
  <2> QED BY <1>1, <1>3, <2>1 DEF Difference, d
<1>6. /\ Len(accepted) = Len(popped) + Len(c) /\ Len(popped) \in Nat
      /\ \A i \in 1 .. Len(c) : accepted[Len(popped) + i] = c[i]
  BY <1>1, TwoParts
<1>7. Len(c) = 1 + Len(d) /\ Len(d) \in Nat /\ \A i \in 1 .. Len(t) : c[i] = t[i]
  <2>1. /\ Len(t \o d) = Len(t) + Len(d) /\ Len(d) \in Nat
        /\ \A i \in 1 .. Len(t) : (t \o d)[i] = t[i]
    BY <1>a, TwoParts
  <2> QED BY <1>1, <2>1
<1>8. Len(popped) < Len(accepted) /\ accepted[Len(popped) + 1] = f
  <2>1. 1 \in 1 .. Len(c) /\ 1 \in 1 .. Len(t)
    BY <1>1, <1>7
  <2> QED BY <1>1, <1>6, <1>7, <2>1
<1>9. Stream!Abstract!Take
  BY <1>8 DEF Stream!Abstract!Take
<1> QED BY <1>5, <1>9 DEF AbstractStep

\* What the pusher stores and what it appends, in one step or in two.
LEMMA PusherAppends ==
    ASSUME Assumed, StreamInv, NEW f \in Numbered, NEW s, NEW r,
           s \in Queues(Numbered \cup {Null}), Ring(s), Contents(s) = Contents(q),
           s.size = q.size, s.head = q.head, s.tail = q.tail, s.ptr[s.tail] = f,
           s.full_waits = {}, s.full_woken = {}, SameEmpty(q, s),
           s.head # After(s, s.tail), q' = r, r \in AppendedTo(s, After(s, s.tail)),
           accepted' = Append(accepted, f), pushing' = Null,
           next' \in 1 .. MaxFrames + 1, popping' = popping, popped' = popped
    PROVE  StreamInv' /\ AbstractStep
<1>1. /\ r \in Queues(Numbered \cup {Null}) /\ Ring(r) /\ SameKind(s, r) /\ SameFull(s, r)
      /\ r.head # r.tail /\ Contents(r) = Append(Contents(s), f)
      /\ IF s.block_on_empty /\ s.head = s.tail
         THEN Told(s.empty_waits, s.empty_woken, r.empty_waits, r.empty_woken)
         ELSE SameEmpty(s, r)
  <2>1. Contents(s) \in Seq(Numbered)
    BY DEF StreamInv, Difference
  <2> QED BY <2>1, Appending
<1>2. Difference' /\ AbstractStep
  <2>1. Ring(q) /\ Difference
    BY DEF StreamInv, StreamKinds
  <2>2. After(q, q.tail) = After(s, s.tail)
    BY DEF After
  <2> QED BY <1>1, <2>1, <2>2, Accepts DEF SameKind
<1>3. StreamKinds'
  BY <1>1 DEF StreamInv, StreamKinds, SameKind
<1>4. PusherWaits'
  BY <1>1 DEF PusherWaits, SameFull
<1>5. PopperWaits'
  BY <1>1 DEF StreamInv, PopperWaits, SameEmpty, Told
<1> QED BY <1>2, <1>3, <1>4, <1>5 DEF StreamInv

\* A push that finds room.
LEMMA PusherPushesKeeps ==
    ASSUME Assumed, StreamInv, Stream!PusherPushes
    PROVE  StreamInv' /\ AbstractStep
<1>1. /\ pushing = Null /\ next <= MaxFrames /\ Stream!Push(next)
      /\ next' = next + 1 /\ accepted' = Append(accepted, next)
      /\ UNCHANGED <<pushing, popping, popped>>
  BY DEF Stream!PusherPushes, Stream!MayPush
<1>2. PICK f \in Numbered : f = next /\ next' \in 1 .. MaxFrames + 1
  BY <1>1 DEF StreamInv, StreamKinds, Numbered, Assumed, Stream!StreamAssumption
<1> DEFINE t == [q EXCEPT !.ptr[q.tail] = f]
<1>3. t \in StoredIn(q, f)
  BY DEF StoredIn
<1>4. q' \in Stream!Appended(t, Stream!Following(q.tail)) /\ ~(q.head = Stream!Following(q.tail))
  BY <1>1, <1>2 DEF Stream!Push, Stream!Stored, Stream!IsFull
<1> HIDE DEF t
<1>5. /\ t \in Queues(Numbered \cup {Null}) /\ Ring(t) /\ Contents(t) = Contents(q)
      /\ t.head = q.head /\ t.tail = q.tail /\ t.ptr[t.tail] = f
      /\ SameKind(q, t) /\ SameEmpty(q, t) /\ SameFull(q, t)
  BY <1>3, Storing DEF StreamInv, StreamKinds, Assumed, Stream!QueueAssumption
<1>6. t.size = q.size /\ After(t, t.tail) = After(q, q.tail)
  BY <1>5 DEF SameKind, After
<1>7. q' \in AppendedTo(t, After(t, t.tail)) /\ t.head # After(t, t.tail)
  BY <1>4, <1>5, <1>6, StreamOperations
<1>8. t.full_waits = {} /\ t.full_woken = {}
  BY <1>1, <1>5 DEF SameFull, StreamInv, PusherWaits
<1> QED BY <1>1, <1>2, <1>5, <1>6, <1>7, <1>8, PusherAppends

\* The pusher is woken: what it stored is appended behind the tail it had.
LEMMA PusherWakesKeeps ==
    ASSUME Assumed, StreamInv, Stream!PusherWakes
    PROVE  StreamInv' /\ AbstractStep
<1>1. /\ pushing # Null /\ Stream!PushWakes("pusher")
      /\ accepted' = Append(accepted, pushing) /\ pushing' = Null
      /\ UNCHANGED <<next, popping, popped>>
  BY DEF Stream!PusherWakes
<1>2. PICK f \in Numbered : f = pushing
  BY <1>1 DEF StreamInv, StreamKinds
<1>3. PICK w \in q.full_woken :
         q' \in Stream!Appended([q EXCEPT !.full_woken = @ \ {w}], w[2])
  BY <1>1 DEF Stream!PushWakes
<1>4. /\ w = <<"pusher", After(q, q.tail)>> /\ q.full_woken = {w} /\ q.full_waits = {}
      /\ w[2] = After(q, q.tail) /\ q.ptr[q.tail] = f /\ q.head # After(q, q.tail)
  BY <1>1, <1>2, <1>3 DEF StreamInv, PusherWaits
<1> DEFINE t == [q EXCEPT !.full_woken = @ \ {w}]
<1>5. /\ t \in Queues(Numbered \cup {Null}) /\ t.size = q.size /\ t.head = q.head /\ t.tail = q.tail
      /\ t.ptr = q.ptr /\ t.full_waits = q.full_waits /\ t.full_woken = q.full_woken \ {w}
      /\ t.empty_waits = q.empty_waits /\ t.empty_woken = q.empty_woken
  BY DEF StreamInv, StreamKinds, Queues
<1>6. q' \in Stream!Appended(t, w[2])
  BY <1>3
<1> HIDE DEF t
<1>7. /\ Ring(t) /\ Contents(t) = Contents(q) /\ After(t, t.tail) = After(q, q.tail)
      /\ SameEmpty(q, t) /\ t.full_waits = {} /\ t.full_woken = {}
  BY <1>4, <1>5 DEF Ring, Contents, After, SameEmpty, StreamInv, StreamKinds
<1>8. q' \in AppendedTo(t, After(t, t.tail)) /\ t.head # After(t, t.tail) /\ t.ptr[t.tail] = f
  BY <1>4, <1>5, <1>6, <1>7, StreamOperations
<1>9. next' \in 1 .. MaxFrames + 1 /\ accepted' = Append(accepted, f)
  BY <1>1, <1>2 DEF StreamInv, StreamKinds
<1> QED BY <1>1, <1>5, <1>7, <1>8, <1>9, PusherAppends

\* A push that waits, or is refused, leaves its pointer behind the last item.
LEMMA PusherStoresKeeps ==
    ASSUME Assumed, StreamInv, Stream!PusherBlocks \/ Stream!PusherRefused
    PROVE  StreamInv' /\ AbstractStep
<1>1. /\ pushing = Null /\ next <= MaxFrames /\ q.head = Stream!Following(q.tail)
      /\ next' = next + 1 /\ UNCHANGED <<popping, accepted, popped>>
  BY DEF Stream!PusherBlocks, Stream!PusherRefused, Stream!MayPush, Stream!PushBlocks,
         Stream!PushRefused, Stream!IsFull
<1>2. PICK f \in Numbered : f = next /\ next' \in 1 .. MaxFrames + 1 /\ f # Null
  BY <1>1 DEF StreamInv, StreamKinds, Numbered, Assumed, Stream!StreamAssumption,
              Stream!QueueAssumption
<1> DEFINE t == [q EXCEPT !.ptr[q.tail] = f]
           wait == <<"pusher", After(q, q.tail)>>
<1>3. t \in StoredIn(q, f)
  BY DEF StoredIn
<1>4. \/ q' = [t EXCEPT !.full_waits = @ \cup {wait}] /\ pushing' = f
      \/ q' = t /\ pushing' = Null
  <2>1. CASE Stream!PusherBlocks
    <3>1. Stream!Following(q.tail) = After(q, q.tail)
      BY DEF Stream!Following, After
    <3> QED BY <1>2, <2>1, <3>1 DEF Stream!PusherBlocks, Stream!PushBlocks, Stream!Stored
  <2>2. CASE Stream!PusherRefused
    BY <1>1, <1>2, <2>2 DEF Stream!PusherRefused, Stream!PushRefused, Stream!Stored
  <2> QED BY <2>1, <2>2
<1>a. wait \in Threads \X Nat
  BY DEF Threads, After, StreamInv, StreamKinds, Ring
<1> HIDE DEF t, wait
<1>5. /\ t \in Queues(Numbered \cup {Null}) /\ Ring(t) /\ Contents(t) = Contents(q)
      /\ t.head = q.head /\ t.tail = q.tail /\ t.ptr[t.tail] = f
      /\ SameKind(q, t) /\ SameEmpty(q, t) /\ SameFull(q, t)
  BY <1>3, Storing DEF StreamInv, StreamKinds, Assumed, Stream!QueueAssumption
<1>6. /\ q' \in Queues(Numbered \cup {Null}) /\ q'.size = t.size /\ q'.head = t.head
      /\ q'.tail = t.tail /\ q'.ptr = t.ptr /\ q'.full_woken = t.full_woken
      /\ q'.empty_waits = t.empty_waits /\ q'.empty_woken = t.empty_woken
      /\ \/ q'.full_waits = t.full_waits \cup {wait} /\ pushing' = f
         \/ q'.full_waits = t.full_waits /\ pushing' = Null
  BY <1>a, <1>4, <1>5 DEF Queues
<1>7. Ring(q') /\ Contents(q') = Contents(q) /\ q'.size = q.size
  BY <1>5, <1>6 DEF Ring, Contents, SameKind
<1>8. StreamKinds'
  BY <1>1, <1>2, <1>6, <1>7 DEF StreamInv, StreamKinds
<1>9. Difference' /\ AbstractStep
  BY <1>1, <1>7 DEF StreamInv, Difference, AbstractStep
<1>10. PusherWaits'
  <2>1. q.full_waits = {} /\ q.full_woken = {}
    BY <1>1 DEF StreamInv, PusherWaits
  <2>2. After(q', q'.tail) = After(q, q.tail)
    BY <1>5, <1>6, <1>7 DEF After
  <2>3. q'.full_woken = {} /\ q'.ptr[q'.tail] = f
    BY <1>5, <1>6, <2>1 DEF SameFull
  <2>4. q'.full_waits = IF pushing' = Null THEN {} ELSE {wait}
    BY <1>2, <1>5, <1>6, <2>1 DEF SameFull
  <2> QED BY <1>6, <2>2, <2>3, <2>4, <1>2 DEF PusherWaits, wait
<1>11. PopperWaits'
  BY <1>1, <1>5, <1>6 DEF StreamInv, PopperWaits, SameEmpty
<1> QED BY <1>8, <1>9, <1>10, <1>11 DEF StreamInv

\* What the popper takes, at once or when it is woken; a pusher that waits may
\* be told, and there is room for it.
LEMMA PopperTakes ==
    ASSUME Assumed, StreamInv, NEW f, NEW s, NEW r,
           s \in Queues(Numbered \cup {Null}), Ring(s), Contents(s) = Contents(q),
           s.size = q.size, s.head = q.head, s.tail = q.tail, s.ptr = q.ptr, s.ptr[s.head] = f,
           s.empty_waits = {}, s.empty_woken = {}, SameFull(q, s),
           s.head # s.tail, q' = r, r \in TakenFrom(s),
           popped' = Append(popped, f), popping' = FALSE,
           UNCHANGED <<next, pushing, accepted>>
    PROVE  StreamInv' /\ AbstractStep
<1>1. Contents(s) \in Seq(Numbered)
  BY DEF StreamInv, Difference
<1>2. /\ r \in Queues(Numbered \cup {Null}) /\ Ring(r) /\ SameKind(s, r) /\ SameEmpty(s, r)
      /\ r.tail = s.tail /\ r.head = After(s, s.head) /\ r.ptr = s.ptr
      /\ f \in Numbered /\ Contents(r) \in Seq(Numbered)
      /\ Contents(s) = <<f>> \o Contents(r)
      /\ IF s.block_on_full /\ Held(s) = s.size
         THEN Told(s.full_waits, s.full_woken, r.full_waits, r.full_woken)
         ELSE SameFull(s, r)
  BY <1>1, Taking
<1>3. q'.size = q.size
  BY <1>2 DEF SameKind
<1>4. Difference' /\ AbstractStep
  BY <1>2, <1>3, Delivers DEF StreamInv
<1>5. StreamKinds'
  BY <1>2, <1>3 DEF StreamInv, StreamKinds
<1>6. PusherWaits'
  <2>1. After(q', q'.tail) = After(q, q.tail) /\ q'.head # After(q', q'.tail)
    BY <1>2, <1>3 DEF After, Ring
  <2>2. /\ q'.full_waits \cup q'.full_woken = q.full_waits \cup q.full_woken
        /\ q'.full_waits \cap q'.full_woken = {}
    BY <1>2 DEF StreamInv, PusherWaits, SameFull, Told
  <2>3. q'.ptr[q'.tail] = q.ptr[q.tail]
    BY <1>2
  <2> QED BY <2>1, <2>2, <2>3 DEF StreamInv, PusherWaits
<1>7. PopperWaits'
  BY <1>2 DEF PopperWaits, SameEmpty
<1> QED BY <1>4, <1>5, <1>6, <1>7 DEF StreamInv

\* A pop that finds a frame.
LEMMA PopperPopsKeeps ==
    ASSUME Assumed, StreamInv, Stream!PopperPops
    PROVE  StreamInv' /\ AbstractStep
<1>1. PICK f : Stream!Pop(f) /\ popped' = Append(popped, f)
  BY DEF Stream!PopperPops
<1>2. ~popping /\ UNCHANGED <<next, pushing, popping, accepted>>
  BY DEF Stream!PopperPops
<1>3. /\ q \in Queues(Numbered \cup {Null}) /\ Ring(q)
      /\ q.empty_waits = {} /\ q.empty_woken = {} /\ popping' = FALSE
  BY <1>2 DEF StreamInv, StreamKinds, PopperWaits
<1>4. q' \in TakenFrom(q) /\ q.head # q.tail /\ q.ptr[q.head] = f
  BY <1>1, <1>3, StreamOperations DEF Stream!Pop, Stream!IsEmpty
<1> QED BY <1>1, <1>2, <1>3, <1>4, PopperTakes DEF SameFull

\* The popper is woken, and takes without looking again.
LEMMA PopperWakesKeeps ==
    ASSUME Assumed, StreamInv, Stream!PopperWakes
    PROVE  StreamInv' /\ AbstractStep
<1>1. PICK f : Stream!PopWakes("popper", f) /\ popped' = Append(popped, f)
  BY DEF Stream!PopperWakes
<1>2. popping /\ popping' = FALSE /\ UNCHANGED <<next, pushing, accepted>>
  BY DEF Stream!PopperWakes
<1> DEFINE t == [q EXCEPT !.empty_woken = @ \ {"popper"}]
<1>3. q' \in Stream!Taken(t) /\ "popper" \in q.empty_woken /\ f = q.ptr[q.head]
  BY <1>1 DEF Stream!PopWakes
<1>4. /\ t \in Queues(Numbered \cup {Null}) /\ t.size = q.size /\ t.head = q.head /\ t.tail = q.tail
      /\ t.ptr = q.ptr /\ t.full_waits = q.full_waits /\ t.full_woken = q.full_woken
      /\ t.empty_waits = q.empty_waits /\ t.empty_woken = q.empty_woken \ {"popper"}
  BY DEF StreamInv, StreamKinds, Queues
<1> HIDE DEF t
<1>5. /\ Ring(t) /\ Contents(t) = Contents(q) /\ SameFull(q, t)
      /\ t.empty_waits = {} /\ t.empty_woken = {} /\ q.head # q.tail
  BY <1>2, <1>3, <1>4 DEF Ring, Contents, SameFull, StreamInv, StreamKinds, PopperWaits
<1>6. q' \in TakenFrom(t)
  BY <1>3, <1>4, <1>5, StreamOperations
<1> QED BY <1>1, <1>2, <1>3, <1>4, <1>5, <1>6, PopperTakes

\* A pop that waits.
LEMMA PopperBlocksKeeps ==
    ASSUME Assumed, StreamInv, Stream!PopperBlocks
    PROVE  StreamInv' /\ AbstractStep
<1>1. /\ ~popping /\ popping' = TRUE /\ q.head = q.tail
      /\ q' = [q EXCEPT !.empty_waits = @ \cup {"popper"}]
      /\ UNCHANGED <<next, pushing, accepted, popped>>
  BY DEF Stream!PopperBlocks, Stream!PopBlocks, Stream!IsEmpty
<1>2. /\ q' \in Queues(Numbered \cup {Null}) /\ q'.size = q.size /\ q'.head = q.head
      /\ q'.tail = q.tail /\ q'.ptr = q.ptr
      /\ q'.full_waits = q.full_waits /\ q'.full_woken = q.full_woken
      /\ q'.empty_waits = q.empty_waits \cup {"popper"} /\ q'.empty_woken = q.empty_woken
  BY <1>1 DEF StreamInv, StreamKinds, Queues, Threads
<1>3. Ring(q') /\ Contents(q') = Contents(q)
  BY <1>2 DEF Ring, Contents, StreamInv, StreamKinds
<1>4. StreamKinds' /\ Difference' /\ AbstractStep
  BY <1>1, <1>2, <1>3 DEF StreamInv, StreamKinds, Difference, AbstractStep
<1>5. PusherWaits'
  BY <1>1, <1>2 DEF StreamInv, PusherWaits, After
<1>6. PopperWaits'
  BY <1>1, <1>2 DEF StreamInv, PopperWaits
<1> QED BY <1>4, <1>5, <1>6 DEF StreamInv

\* Every step of the two threads keeps the invariant, and puts a frame into the
\* abstract queue, takes one out of it, or leaves it alone.
LEMMA StreamStep ==
    ASSUME Assumed, StreamInv, [Stream!Next]_(Stream!vars)
    PROVE  StreamInv' /\ AbstractStep
<1>1. CASE Stream!PusherPushes
  BY <1>1, PusherPushesKeeps
<1>2. CASE Stream!PusherBlocks \/ Stream!PusherRefused
  BY <1>2, PusherStoresKeeps
<1>3. CASE Stream!PusherWakes
  BY <1>3, PusherWakesKeeps
<1>4. CASE Stream!PopperPops
  BY <1>4, PopperPopsKeeps
<1>5. CASE Stream!PopperBlocks
  BY <1>5, PopperBlocksKeeps
<1>6. CASE Stream!PopperWakes
  BY <1>6, PopperWakesKeeps
<1>7. CASE UNCHANGED Stream!vars
  <2>1. UNCHANGED <<q, next, pushing, popping, accepted, popped>>
    BY <1>7 DEF Stream!vars
  <2> QED BY <2>1 DEF StreamInv, StreamKinds, Difference, PusherWaits, PopperWaits, AbstractStep
<1> QED BY <1>1, <1>2, <1>3, <1>4, <1>5, <1>6, <1>7 DEF Stream!Next, Stream!Pusher, Stream!Popper

\* The ring is a bounded first-in first-out queue, for any number of frames and
\* any sizes asked for: ImplementsFifo of FrameStream.
THEOREM RingIsFifo ==
    ASSUME Stream!QueueAssumption, Stream!StreamAssumption
    PROVE  Stream!Spec => Stream!ImplementsFifo
<1>1. Assumed
  BY DEF Assumed
<1>2. Stream!Init => StreamInv /\ Stream!Abstract!Init
  BY <1>1, StreamFirst
<1>3. StreamInv /\ [Stream!Next]_(Stream!vars) => StreamInv' /\ AbstractStep
  BY <1>1, StreamStep
<1>4. AbstractStep => [Stream!Abstract!Put \/ Stream!Abstract!Take]_<<q.size, accepted, popped>>
  BY DEF AbstractStep
<1> QED BY <1>2, <1>3, <1>4, PTL DEF Stream!Spec, Stream!ImplementsFifo, Stream!Abstract!Spec
=============================================================================
