--------------------------- MODULE FrameBufferProofs ---------------------------
(***************************************************************************)
(* What FrameBuffer keeps for any number of viewers, any number of frames  *)
(* and images, and frames of any length.                                   *)
(*                                                                         *)
(* The invariant says where each thread is when it holds a mutex           *)
(* (LockInv), and that it has db wherever it relies on it, until db is     *)
(* taken from a viewer (DbInv); how much of a frame is in the buffer       *)
(* (FrameInv, BufInv); what the boxes are of (BoxInv); and what a viewer   *)
(* waits for, and has read (ViewInv).                                      *)
(*                                                                         *)
(* At the end, what FileOutput keeps of the pictures a viewer saves, for   *)
(* any ring and any number of files and runs.                              *)
(***************************************************************************)
EXTENDS FrameBuffer, FileOutput, Integers, FiniteSets, FiniteSetTheorems, FunctionTheorems,
        SequenceTheorems, TLAPS

EncoderHolds ==
    \/ e_pc \in {"count", "age", "bbox", "tags", "copy"}
    \/ e_pc \in {"idle", "complete"} /\ offset > 0

\* A mutex is held only where the code of its holder is between lock and unlock,
\* and exactly there, but for db after it was taken from a viewer; the encoder
\* keeps db between two callbacks of one frame.
LockInv ==
    /\ owner["db"] \in {None, "encoder"} \cup Viewers
    /\ owner["db"] = "encoder" => EncoderHolds
    /\ \A v \in Viewers : owner["db"] = v => v_pc[v] = "copy"
    /\ owner["bbox"] \in {None, "encoder", "splitter"}
    /\ owner["bbox"] = "encoder" <=> e_pc = "tags"
    /\ owner["bbox"] = "splitter" <=> s_pc \in {"elements", "elements_count"}
    /\ owner["udp"] \in {None, "splitter"}
    /\ owner["udp"] = "splitter" <=> s_pc = "sent"

DbInv ==
    harm = "none" =>
        /\ EncoderHolds => owner["db"] = "encoder"
        /\ \A v \in Viewers : v_pc[v] = "copy" => owner["db"] = v

\* The header is written before the first chunk.
FrameInv ==
    /\ e_pc \in {"db", "count", "age", "bbox", "tags"} => offset = 0
    /\ e_pc # "idle" \/ offset > 0 => frame_no < MaxFrames

\* Only between the splitter's two writes do count and boxes disagree.
BoxInv ==
    /\ IF s_pc = "elements_count" THEN bbox_elements = image
                                  ELSE bbox_elements = bbox_element_count
    /\ BoxesOfOneImage

\* The buffer begins with what is there of the frame being assembled; when no
\* frame is, it begins with the latest one.
BufInv ==
    /\ latest \in Seq(Chunks) /\ Len(latest) = size
    /\ ~EncoderHolds => \A k \in 1 .. size : buf[k] = latest[k]
    /\ \A k \in 1 .. offset : buf[k] = <<frame_no + 1, k>>

\* No wait begins while a frame is assembled, so the broadcast that ends it is
\* of a frame begun after it.
ViewInv ==
    harm = "none" => \A v \in Viewers :
        /\ started[v] <= frame_no
        /\ v_pc[v] = "copy" => frame_size[v] = size
        /\ v_pc[v] \in {"relock", "copy"} /\ ~unsignalled[v] => frame_no > started[v]

IInv == TypeOK /\ LockInv /\ DbInv /\ FrameInv /\ BoxInv /\ BufInv /\ ViewInv

-----------------------------------------------------------------------------

\* The bounds are positive numbers.
LEMMA Bounds ==
    /\ MaxFrames \in Nat /\ MaxChunks \in Nat /\ MaxImages \in Nat
    /\ MaxFrames > 0 /\ MaxChunks > 0 /\ MaxImages > 0
BY FrameAssumption

\* A viewer is none of the other threads, nor nobody.
LEMMA Names ==
    \A v \in Viewers :
        v # "encoder" /\ v # "splitter" /\ v # "tcp" /\ v # "control" /\ v # "none"
BY FrameAssumption

\* The invariant holds at first.
LEMMA InitIInv == Init => IInv
<1> SUFFICES ASSUME Init PROVE IInv
  OBVIOUS
<1> USE Bounds
<1>1. TypeOK
  <2>1. owner \in [Locks -> Threads \cup {None}]
    BY DEF Init
  <2>2. buf \in [1 .. MaxChunks -> Chunks]
    BY DEF Init, NoChunk, Chunks
  <2>3. /\ tags \in [elements : Images, count : Images, yuv : Images \X Images \X Images]
        /\ {image, bbox_elements, bbox_element_count} \subseteq Images
        /\ yuv_meas \in Images \X Images \X Images
    BY DEF Init, Images
  <2>4. /\ v_pc \in [Viewers -> {"idle", "wait", "relock", "copy"}]
        /\ frame_size \in [Viewers -> 0 .. MaxChunks]
        /\ started \in [Viewers -> 0 .. MaxFrames]
        /\ unsignalled \in [Viewers -> BOOLEAN]
    BY DEF Init
  <2>5. \A v \in Viewers : Len(frame[v]) <= MaxChunks
    <3>1. \A v \in Viewers : frame[v] = <<>>
      BY DEF Init
    <3>2. Len(<<>>) = 0
      OBVIOUS
    <3>3. 0 <= MaxChunks
      OBVIOUS
    <3> QED
      BY <3>1, <3>2, <3>3, Zenon
  <2>6. /\ offset \in 0 .. MaxChunks /\ size \in 0 .. MaxChunks /\ frame_no \in 0 .. MaxFrames
        /\ flagged \in BOOLEAN /\ e_pc = "idle" /\ s_pc = "idle" /\ harm = "none"
    <3>1. offset = 0 /\ size = 0 /\ frame_no = 0 /\ flagged = FALSE
      BY DEF Init
    <3>2. 0 \in 0 .. MaxChunks /\ 0 \in 0 .. MaxFrames
      OBVIOUS
    <3> QED
      BY <3>1, <3>2 DEF Init
  <2> QED
    BY <2>1, <2>2, <2>3, <2>4, <2>5, <2>6 DEF TypeOK
<1>2. LockInv /\ DbInv
  BY Names DEF Init, LockInv, DbInv, Locks, None, EncoderHolds
<1>3. FrameInv /\ BoxInv
  BY DEF Init, FrameInv, BoxInv, BoxesOfOneImage
<1>4. BufInv
  BY DEF Init, BufInv
<1>5. ViewInv
  <2>1. frame_no = 0 /\ \A v \in Viewers : v_pc[v] = "idle" /\ started[v] = 0
    BY DEF Init
  <2>2. \A v \in Viewers : started[v] <= frame_no
    <3>1. 0 <= 0
      OBVIOUS
    <3> QED
      BY <2>1, <3>1, Zenon
  <2>3. \A v \in Viewers : ~(v_pc[v] \in {"relock", "copy"}) /\ v_pc[v] # "copy"
    BY <2>1
  <2> QED
    BY <2>2, <2>3 DEF ViewInv
<1> QED
  BY <1>1, <1>2, <1>3, <1>4, <1>5 DEF IInv

\* The action of each thread.
LEMMA StepCases ==
    ASSUME [Next]_vars
    PROVE  \/ EncoderGets \/ EncoderGetsEmpty \/ EncoderLocksDb \/ EncoderCounts
           \/ EncoderLocksBoxes \/ EncoderWritesTags \/ EncoderCopies \/ EncoderOverruns
           \/ EncoderCompletes
           \/ SplitterLocksParams \/ SplitterMeasures \/ SplitterLocksBoxes
           \/ SplitterWritesElements \/ SplitterWritesCount
           \/ SplitterSends \/ SplitterSent \/ SplitterEnds
           \/ (\E v \in Viewers : ViewerWaits(v)) \/ (\E v \in Viewers : ViewerWakesUnsignalled(v))
           \/ (\E v \in Viewers : ViewerReadsSize(v)) \/ (\E v \in Viewers : ViewerCopies(v))
           \/ (\E t \in Settings : SettingsLock(t)) \/ (\E t \in Settings : SettingsUnlock(t))
           \/ UNCHANGED vars
BY DEF Next, Encoder, Splitter, Viewer

\* Who holds what.
LEMMA LocksKept == ASSUME IInv, [Next]_vars PROVE LockInv'
<1> USE Bounds, Names DEF IInv, LockInv, EncoderHolds
<1>0. /\ owner \in [Locks -> Threads \cup {None}] /\ offset \in Nat
      /\ v_pc \in [Viewers -> {"idle", "wait", "relock", "copy"}]
  BY DEF TypeOK
<1>1. CASE EncoderGets \/ EncoderGetsEmpty
  <2>1. EncoderHolds' <=> EncoderHolds
    <3>1. CASE EncoderGets
      <4>1. e_pc = "idle" /\ offset' = offset /\ e_pc' = IF offset = 0 THEN "db" ELSE "copy"
        BY <3>1 DEF EncoderGets
      <4> QED
        BY <1>0, <4>1
    <3>2. CASE EncoderGetsEmpty
      BY <3>2 DEF EncoderGetsEmpty
    <3> QED
      BY <1>1, <3>1, <3>2
  <2>2. e_pc # "tags" /\ e_pc' # "tags" /\ UNCHANGED <<owner, v_pc, s_pc>>
    BY <1>0, <1>1 DEF EncoderGets, EncoderGetsEmpty, splitter, viewer
  <2> HIDE DEF EncoderHolds
  <2> QED
    BY <2>1, <2>2
<1>2. CASE EncoderLocksDb
  BY <1>0, <1>2 DEF EncoderLocksDb, Lock, Locks, None, FrameInv, splitter, viewer
<1>3. CASE EncoderCounts
  BY <1>0, <1>3 DEF EncoderCounts, splitter, viewer
<1>4. CASE EncoderLocksBoxes
  BY <1>0, <1>4 DEF EncoderLocksBoxes, Lock, Locks, None, splitter, viewer
<1>5. CASE EncoderWritesTags
  BY <1>0, <1>5 DEF EncoderWritesTags, Unlock, Locks, None, splitter, viewer
<1>6. CASE EncoderCopies \/ EncoderOverruns
  BY <1>0, <1>6 DEF EncoderCopies, EncoderOverruns, splitter, viewer
<1>7. CASE EncoderCompletes
  <2>1. /\ owner' = [owner EXCEPT !["db"] = None] /\ s_pc' = s_pc
        /\ e_pc = "complete" /\ e_pc' = "idle"
    BY <1>7 DEF EncoderCompletes, Unlock, splitter
  <2>2. /\ owner'["db"] = None /\ owner'["bbox"] = owner["bbox"] /\ owner'["udp"] = owner["udp"]
    BY <1>0, <2>1 DEF Locks
  <2>3. None # "encoder" /\ \A v \in Viewers : v # None
    BY DEF None
  <2> HIDE DEF EncoderHolds
  <2> QED
    BY <2>1, <2>2, <2>3
<1>8. CASE SplitterLocksParams
  BY <1>0, <1>8 DEF SplitterLocksParams, Lock, Locks, None, encoder, viewer
<1>9. CASE SplitterMeasures
  BY <1>0, <1>9 DEF SplitterMeasures, YuvPlace, AfterYuv, encoder, viewer
<1>10. CASE SplitterLocksBoxes
  BY <1>0, <1>10 DEF SplitterLocksBoxes, Lock, Locks, None, encoder, viewer
<1>11. CASE SplitterWritesElements
  BY <1>0, <1>11 DEF SplitterWritesElements, encoder, viewer
<1>12. CASE SplitterWritesCount
  BY <1>0, <1>12 DEF SplitterWritesCount, Unlock, Locks, None, encoder, viewer
<1>13. CASE SplitterSends
  BY <1>0, <1>13 DEF SplitterSends, Lock, Locks, None, encoder, viewer
<1>14. CASE SplitterSent
  BY <1>0, <1>14 DEF SplitterSent, Unlock, Locks, None, encoder, viewer
<1>15. CASE SplitterEnds
  BY <1>0, <1>15 DEF SplitterEnds, Unlock, Locks, None, encoder, viewer
<1>16. ASSUME NEW v \in Viewers, ViewerWaits(v) \/ ViewerWakesUnsignalled(v) PROVE LockInv'
  BY <1>0, <1>16 DEF ViewerWaits, ViewerWakesUnsignalled, encoder, splitter, viewer
<1>17. ASSUME NEW v \in Viewers, ViewerReadsSize(v) PROVE LockInv'
  BY <1>0, <1>17 DEF ViewerReadsSize, Lock, Locks, None, encoder, splitter, viewer
<1>18. ASSUME NEW v \in Viewers, ViewerCopies(v) PROVE LockInv'
  BY <1>0, <1>18 DEF ViewerCopies, Unlock, Locks, None, encoder, splitter, viewer
<1>19. ASSUME NEW t \in Settings, SettingsLock(t) \/ SettingsUnlock(t) PROVE LockInv'
  BY <1>0, <1>19 DEF SettingsLock, SettingsUnlock, Lock, Unlock, Locks, None, encoder, splitter, viewer
<1>20. CASE UNCHANGED vars
  BY <1>0, <1>20 DEF vars, encoder, splitter, viewer
<1> QED
  BY <1>1, <1>2, <1>3, <1>4, <1>5, <1>6, <1>7, <1>8, <1>9, <1>10, <1>11, <1>12, <1>13,
     <1>14, <1>15, <1>16, <1>17, <1>18, <1>19, <1>20, StepCases

\* Until it is taken from a viewer, db is held wherever the code says so.
LEMMA DbKept == ASSUME IInv, [Next]_vars PROVE DbInv'
<1> USE Bounds, Names DEF IInv, DbInv
<1>0. /\ owner \in [Locks -> Threads \cup {None}] /\ offset \in Nat
      /\ v_pc \in [Viewers -> {"idle", "wait", "relock", "copy"}]
      /\ None # "encoder" /\ \A v \in Viewers : v # None /\ v # "encoder"
  BY DEF TypeOK, None
<1>1. CASE EncoderGets \/ EncoderGetsEmpty
  <2>1. EncoderHolds' <=> EncoderHolds
    <3>1. CASE EncoderGets
      BY <1>0, <3>1 DEF EncoderGets, EncoderHolds
    <3>2. CASE EncoderGetsEmpty
      BY <3>2 DEF EncoderGetsEmpty, EncoderHolds
    <3> QED
      BY <1>1, <3>1, <3>2
  <2>2. UNCHANGED <<owner, v_pc, harm>>
    BY <1>1 DEF EncoderGets, EncoderGetsEmpty, viewer
  <2> QED
    BY <2>1, <2>2
<1>2. CASE EncoderLocksDb
  <2>1. owner["db"] = None /\ owner'["db"] = "encoder" /\ UNCHANGED <<harm, v_pc>>
    BY <1>0, <1>2 DEF EncoderLocksDb, Lock, Locks, viewer
  <2> QED
    BY <1>0, <2>1
<1>3. CASE EncoderCounts \/ EncoderWritesTags \/ EncoderLocksBoxes
  <2>1. EncoderHolds /\ owner'["db"] = owner["db"] /\ UNCHANGED <<harm, v_pc>>
    <3>1. CASE EncoderCounts
      BY <1>0, <3>1 DEF EncoderCounts, EncoderHolds, viewer
    <3>2. CASE EncoderWritesTags
      BY <1>0, <3>2 DEF EncoderWritesTags, EncoderHolds, Unlock, Locks, viewer
    <3>3. CASE EncoderLocksBoxes
      BY <1>0, <3>3 DEF EncoderLocksBoxes, EncoderHolds, Lock, Locks, viewer
    <3> QED
      BY <1>3, <3>1, <3>2, <3>3
  <2> QED
    BY <2>1
<1>4. CASE EncoderCopies
  <2>1. EncoderHolds /\ UNCHANGED <<owner, harm, v_pc>>
    BY <1>4 DEF EncoderCopies, EncoderHolds, viewer
  <2> QED
    BY <2>1
<1>5. CASE EncoderOverruns
  BY <1>5 DEF EncoderOverruns
<1>6. CASE EncoderCompletes
  <2> SUFFICES ASSUME harm' = "none" PROVE DbInv'
    OBVIOUS
  <2>1. harm = "none" /\ owner["db"] \notin Viewers /\ v_pc' = Woken
    BY <1>6 DEF EncoderCompletes
  <2>2. \A v \in Viewers : v_pc'[v] # "copy"
    BY <2>1 DEF Woken
  <2>3. ~EncoderHolds'
    BY <1>6 DEF EncoderCompletes, EncoderHolds
  <2> QED
    BY <2>2, <2>3
<1>7. ASSUME NEW v \in Viewers, ViewerWaits(v) \/ ViewerWakesUnsignalled(v) PROVE DbInv'
  <2>1. /\ UNCHANGED <<owner, harm, e_pc, offset>>
        /\ \A w \in Viewers : v_pc'[w] = "copy" => v_pc[w] = "copy"
    BY <1>0, <1>7 DEF ViewerWaits, ViewerWakesUnsignalled, encoder
  <2> QED
    BY <2>1 DEF EncoderHolds
<1>8. ASSUME NEW v \in Viewers, ViewerReadsSize(v) PROVE DbInv'
  <2>1. /\ owner["db"] = None /\ owner'["db"] = v /\ UNCHANGED <<harm, e_pc, offset>>
        /\ \A w \in Viewers \ {v} : v_pc'[w] = v_pc[w]
    BY <1>0, <1>8 DEF ViewerReadsSize, Lock, Locks, encoder
  <2> QED
    BY <1>0, <2>1 DEF EncoderHolds
<1>9. ASSUME NEW v \in Viewers, ViewerCopies(v) PROVE DbInv'
  <2> SUFFICES ASSUME harm' = "none" PROVE DbInv'
    OBVIOUS
  <2>1. /\ v_pc[v] = "copy" /\ owner'["db"] = None /\ UNCHANGED <<harm, e_pc, offset>>
        /\ v_pc' = [v_pc EXCEPT ![v] = "idle"]
    BY <1>0, <1>9 DEF ViewerCopies, Unlock, Locks, encoder
  <2>2. owner["db"] = v /\ ~EncoderHolds
    BY <1>0, <2>1
  <2>3. \A w \in Viewers : v_pc'[w] # "copy"
    BY <1>0, <2>1, <2>2
  <2> QED
    BY <2>1, <2>2, <2>3 DEF EncoderHolds
<1>10. CASE UNCHANGED <<owner["db"], e_pc, offset, harm, v_pc>>
  BY <1>10 DEF EncoderHolds
<1>11. ASSUME \/ SplitterLocksParams \/ SplitterMeasures \/ SplitterLocksBoxes
              \/ SplitterWritesElements \/ SplitterWritesCount
              \/ SplitterSends \/ SplitterSent \/ SplitterEnds
       PROVE  UNCHANGED <<owner["db"], e_pc, offset, harm, v_pc>>
  <2>1. UNCHANGED <<e_pc, offset, harm, v_pc>>
    BY <1>11 DEF SplitterLocksParams, SplitterMeasures, SplitterLocksBoxes,
       SplitterWritesElements, SplitterWritesCount, SplitterSends, SplitterSent, SplitterEnds,
       encoder, viewer
  <2>2. owner' = owner \/ \E l \in Locks \ {"db"}, x \in {None, "splitter"} : owner' = [owner EXCEPT ![l] = x]
    BY <1>11 DEF SplitterLocksParams, SplitterMeasures, SplitterLocksBoxes,
       SplitterWritesElements, SplitterWritesCount, SplitterSends, SplitterSent, SplitterEnds,
       Lock, Unlock, Locks
  <2> QED
    BY <1>0, <2>1, <2>2 DEF Locks
<1>12. ASSUME NEW t \in Settings, SettingsLock(t) \/ SettingsUnlock(t)
       PROVE  UNCHANGED <<owner["db"], e_pc, offset, harm, v_pc>>
  BY <1>0, <1>12 DEF SettingsLock, SettingsUnlock, Lock, Unlock, Locks, encoder, viewer
<1>13. ASSUME UNCHANGED vars PROVE UNCHANGED <<owner["db"], e_pc, offset, harm, v_pc>>
  BY <1>13 DEF vars, encoder, viewer
<1> QED
  BY <1>1, <1>2, <1>3, <1>4, <1>5, <1>6, <1>7, <1>8, <1>9, <1>10, <1>11, <1>12, <1>13, StepCases

\* How far the frame is.
LEMMA FrameKept == ASSUME IInv, [Next]_vars PROVE FrameInv'
<1> USE Bounds, Names DEF IInv, FrameInv
<1>0. offset \in Nat /\ frame_no \in Nat
  BY DEF TypeOK
<1>1. ASSUME \/ EncoderGets \/ EncoderGetsEmpty \/ EncoderLocksDb \/ EncoderCounts
             \/ EncoderLocksBoxes \/ EncoderWritesTags \/ EncoderCopies \/ EncoderCompletes
      PROVE  FrameInv'
  <2>1. CASE EncoderGets
    BY <1>0, <2>1 DEF EncoderGets
  <2>2. CASE EncoderGetsEmpty
    BY <1>0, <2>2 DEF EncoderGetsEmpty
  <2>3. CASE EncoderLocksDb \/ EncoderCounts \/ EncoderLocksBoxes \/ EncoderWritesTags
    BY <1>0, <2>3 DEF EncoderLocksDb, EncoderCounts, EncoderLocksBoxes, EncoderWritesTags
  <2>4. CASE EncoderCopies
    BY <1>0, <2>4 DEF EncoderCopies
  <2>5. CASE EncoderCompletes
    BY <1>0, <2>5 DEF EncoderCompletes
  <2> QED
    BY <1>1, <2>1, <2>2, <2>3, <2>4, <2>5
<1>2. CASE UNCHANGED <<e_pc, offset, frame_no>>
  BY <1>2
<1>3. \/ EncoderGets \/ EncoderGetsEmpty \/ EncoderLocksDb \/ EncoderCounts
      \/ EncoderLocksBoxes \/ EncoderWritesTags \/ EncoderCopies \/ EncoderCompletes
      \/ UNCHANGED <<e_pc, offset, frame_no>>
  BY StepCases
  DEF SplitterLocksParams, SplitterMeasures, SplitterLocksBoxes, SplitterWritesElements,
      SplitterWritesCount, SplitterSends, SplitterSent, SplitterEnds, ViewerWaits,
      ViewerWakesUnsignalled, ViewerReadsSize, ViewerCopies, SettingsLock, SettingsUnlock,
      EncoderOverruns, vars, encoder
<1> QED
  BY <1>1, <1>2, <1>3

\* What the boxes are of: the encoder reads them only when the splitter is not
\* between its writes.
LEMMA BoxesKept == ASSUME IInv, [Next]_vars PROVE BoxInv'
<1> USE DEF IInv, BoxInv, BoxesOfOneImage
<1>1. CASE EncoderWritesTags
  <2>1. s_pc # "elements_count"
    BY <1>1 DEF EncoderWritesTags, LockInv
  <2>2. tags'.elements = bbox_elements /\ tags'.count = bbox_element_count
    BY <1>1 DEF EncoderWritesTags
  <2> QED
    BY <1>1, <2>1, <2>2 DEF EncoderWritesTags, splitter
<1>2. ASSUME \/ SplitterLocksParams \/ SplitterMeasures \/ SplitterLocksBoxes
             \/ SplitterWritesElements \/ SplitterWritesCount \/ SplitterSends
             \/ SplitterSent \/ SplitterEnds
      PROVE  BoxInv'
  <2>0. tags' = tags
    BY <1>2
    DEF SplitterLocksParams, SplitterMeasures, SplitterLocksBoxes, SplitterWritesElements,
        SplitterWritesCount, SplitterSends, SplitterSent, SplitterEnds, encoder
  <2>1. CASE SplitterWritesElements
    BY <2>0, <2>1 DEF SplitterWritesElements
  <2>2. CASE SplitterWritesCount
    <3>1. bbox_elements = image
      BY <2>2 DEF SplitterWritesCount
    <3> QED
      BY <2>0, <2>2, <3>1 DEF SplitterWritesCount
  <2>3. CASE \/ SplitterLocksParams \/ SplitterMeasures \/ SplitterLocksBoxes
             \/ SplitterSends \/ SplitterSent \/ SplitterEnds
    <3>1. /\ s_pc # "elements_count" /\ s_pc' # "elements_count"
          /\ UNCHANGED <<bbox_elements, bbox_element_count>>
      BY <2>3
      DEF SplitterLocksParams, SplitterMeasures, YuvPlace, AfterYuv, SplitterLocksBoxes,
          SplitterSends, SplitterSent, SplitterEnds
    <3> QED
      BY <2>0, <3>1
  <2> QED
    BY <1>2, <2>1, <2>2, <2>3
<1>3. CASE UNCHANGED <<tags, splitter>>
  BY <1>3 DEF splitter
<1>4. \/ EncoderWritesTags \/ SplitterLocksParams \/ SplitterMeasures \/ SplitterLocksBoxes
      \/ SplitterWritesElements \/ SplitterWritesCount \/ SplitterSends
      \/ SplitterSent \/ SplitterEnds \/ UNCHANGED <<tags, splitter>>
  BY StepCases
  DEF EncoderGets, EncoderGetsEmpty, EncoderLocksDb, EncoderCounts, EncoderLocksBoxes,
      EncoderCopies, EncoderOverruns, EncoderCompletes, ViewerWaits, ViewerWakesUnsignalled,
      ViewerReadsSize, ViewerCopies, SettingsLock, SettingsUnlock, vars, encoder
<1> QED
  BY <1>1, <1>2, <1>3, <1>4

\* The chunks in the buffer.
LEMMA BufferKept == ASSUME IInv, [Next]_vars PROVE BufInv'
<1> USE Bounds, Names DEF IInv, BufInv
<1>0. /\ offset \in 0 .. MaxChunks /\ size \in 0 .. MaxChunks /\ frame_no \in 0 .. MaxFrames
      /\ buf \in [1 .. MaxChunks -> Chunks] /\ MaxChunks \in Nat
  BY DEF TypeOK
<1>1. ASSUME \/ EncoderGets \/ EncoderGetsEmpty \/ EncoderLocksDb \/ EncoderCounts
             \/ EncoderLocksBoxes \/ EncoderWritesTags
      PROVE  BufInv'
  <2>1. UNCHANGED <<offset, frame_no, buf, size, latest>>
    BY <1>1
    DEF EncoderGets, EncoderGetsEmpty, EncoderLocksDb, EncoderCounts, EncoderLocksBoxes,
        EncoderWritesTags
  <2>2. EncoderHolds => EncoderHolds'
    <3>1. CASE EncoderGets
      BY <1>0, <3>1 DEF EncoderGets, EncoderHolds
    <3>2. CASE EncoderGetsEmpty \/ EncoderLocksDb
      BY <3>2 DEF EncoderGetsEmpty, EncoderLocksDb, EncoderHolds
    <3>3. CASE EncoderCounts \/ EncoderLocksBoxes \/ EncoderWritesTags
      BY <3>3 DEF EncoderCounts, EncoderLocksBoxes, EncoderWritesTags, EncoderHolds
    <3> QED
      BY <1>1, <3>1, <3>2, <3>3
  <2> QED
    BY <2>1, <2>2
<1>2. CASE EncoderCopies
  <2>1. /\ buf' = [buf EXCEPT ![offset + 1] = <<frame_no + 1, offset + 1>>]
        /\ offset' = offset + 1 /\ offset + 1 \in 1 .. MaxChunks
        /\ UNCHANGED <<latest, size, frame_no>>
    BY <1>0, <1>2 DEF EncoderCopies, TypeOK
  <2>2. EncoderHolds'
    BY <1>0, <1>2, <2>1 DEF EncoderCopies, EncoderHolds
  <2>3. \A k \in 1 .. offset + 1 : buf'[k] = <<frame_no + 1, k>>
    BY <1>0, <2>1
  <2> QED
    BY <2>1, <2>2, <2>3
<1>3. CASE EncoderCompletes
  <2>1. /\ latest' = [k \in 1 .. offset |-> <<frame_no + 1, k>>] /\ size' = offset
        /\ offset' = 0 /\ buf' = buf /\ frame_no' = frame_no + 1
    BY <1>3 DEF EncoderCompletes, Delivered
  <2>2. frame_no + 1 \in 0 .. MaxFrames /\ \A k \in 1 .. offset : k \in 0 .. MaxChunks
    BY <1>0, <1>3 DEF EncoderCompletes, FrameInv
  <2>3. \A k \in 1 .. offset : <<frame_no + 1, k>> \in Chunks
    BY <2>2 DEF Chunks
  <2>4. latest' \in Seq(Chunks) /\ Len(latest') = offset
    BY <1>0, <2>1, <2>3
  <2>5. \A k \in 1 .. size' : buf'[k] = latest'[k]
    BY <2>1
  <2>6. \A k \in 1 .. offset' : buf'[k] = <<frame_no' + 1, k>>
    BY <2>1
  <2> QED
    BY <2>1, <2>4, <2>5, <2>6
<1>4. CASE UNCHANGED <<e_pc, offset, frame_no, buf, size, latest>>
  BY <1>4 DEF EncoderHolds
<1>5. \/ EncoderGets \/ EncoderGetsEmpty \/ EncoderLocksDb \/ EncoderCounts
      \/ EncoderLocksBoxes \/ EncoderWritesTags \/ EncoderCopies \/ EncoderCompletes
      \/ UNCHANGED <<e_pc, offset, frame_no, buf, size, latest>>
  BY StepCases
  DEF SplitterLocksParams, SplitterMeasures, SplitterLocksBoxes, SplitterWritesElements,
      SplitterWritesCount, SplitterSends, SplitterSent, SplitterEnds, ViewerWaits,
      ViewerWakesUnsignalled, ViewerReadsSize, ViewerCopies, SettingsLock, SettingsUnlock,
      EncoderOverruns, vars, encoder
<1> QED
  BY <1>1, <1>2, <1>3, <1>4, <1>5

\* What the viewers wait for, and what they have read.
LEMMA ViewersKept == ASSUME IInv, [Next]_vars PROVE ViewInv'
<1> USE DEF IInv, ViewInv
<1>0. /\ frame_no \in Nat /\ offset \in Nat
      /\ v_pc \in [Viewers -> {"idle", "wait", "relock", "copy"}]
      /\ started \in [Viewers -> 0 .. MaxFrames] /\ frame_size \in [Viewers -> 0 .. MaxChunks]
      /\ unsignalled \in [Viewers -> BOOLEAN]
      /\ \A v \in Viewers : started[v] \in Nat
      /\ \A v \in Viewers : v # "encoder" /\ v # None
  BY Names DEF TypeOK, None
<1>1. CASE EncoderCompletes
  <2> SUFFICES ASSUME harm' = "none" PROVE ViewInv'
    OBVIOUS
  <2>1. /\ frame_no' = frame_no + 1 /\ v_pc' = Woken
        /\ UNCHANGED <<started, unsignalled, frame_size>>
        /\ harm = "none" /\ owner["db"] \notin Viewers
    BY <1>1 DEF EncoderCompletes
  <2>2. \A v \in Viewers : v_pc'[v] # "copy"
    <3>1. \A v \in Viewers : v_pc[v] # "copy"
      BY <2>1 DEF DbInv
    <3> QED
      BY <2>1, <3>1 DEF Woken
  <2> QED
    BY <1>0, <2>1, <2>2
<1>2. ASSUME NEW v \in Viewers, ViewerWaits(v) PROVE ViewInv'
  <2>1. harm = "none" => Begun = frame_no
    BY <1>0, <1>2 DEF ViewerWaits, Begun, DbInv, EncoderHolds, FrameInv, None, TypeOK
  <2> QED
    BY <1>0, <1>2, <2>1 DEF ViewerWaits, encoder
<1>3. ASSUME NEW v \in Viewers, ViewerWakesUnsignalled(v) PROVE ViewInv'
  BY <1>0, <1>3 DEF ViewerWakesUnsignalled, encoder
<1>4. ASSUME NEW v \in Viewers, ViewerReadsSize(v) PROVE ViewInv'
  BY <1>0, <1>4 DEF ViewerReadsSize, encoder
<1>5. ASSUME NEW v \in Viewers, ViewerCopies(v) PROVE ViewInv'
  BY <1>0, <1>5 DEF ViewerCopies, encoder
<1>6. CASE EncoderOverruns \/ UNCHANGED <<frame_no, size, harm, v_pc, frame_size, started, unsignalled>>
  BY <1>6 DEF EncoderOverruns
<1>7. \/ EncoderCompletes \/ (\E v \in Viewers : ViewerWaits(v))
      \/ (\E v \in Viewers : ViewerWakesUnsignalled(v))
      \/ (\E v \in Viewers : ViewerReadsSize(v)) \/ (\E v \in Viewers : ViewerCopies(v))
      \/ EncoderOverruns
      \/ UNCHANGED <<frame_no, size, harm, v_pc, frame_size, started, unsignalled>>
  BY StepCases
  DEF EncoderGets, EncoderGetsEmpty, EncoderLocksDb, EncoderCounts, EncoderLocksBoxes,
      EncoderWritesTags, EncoderCopies, EncoderOverruns, SplitterLocksParams, SplitterMeasures,
      SplitterLocksBoxes, SplitterWritesElements, SplitterWritesCount, SplitterSends,
      SplitterSent, SplitterEnds, SettingsLock, SettingsUnlock, vars, encoder, viewer
<1> QED
  BY <1>1, <1>2, <1>3, <1>4, <1>5, <1>6, <1>7

\* Every variable keeps its type.
LEMMA TypesKept == ASSUME IInv, [Next]_vars PROVE TypeOK'
<1> USE Bounds DEF IInv
<1>0. TypeOK
  OBVIOUS
<1> DEFINE E == /\ e_pc \in {"idle", "db", "count", "age", "bbox", "tags", "copy", "complete"}
                /\ flagged \in BOOLEAN
                /\ offset \in 0 .. MaxChunks /\ size \in 0 .. MaxChunks
                /\ frame_no \in 0 .. MaxFrames
                /\ harm \in {"none", "unlock", "overrun"}
                /\ buf \in [1 .. MaxChunks -> Chunks]
           G == tags \in [elements : Images, count : Images, yuv : Images \X Images \X Images]
           P == /\ s_pc \in {"idle", "y", "u", "v", "bbox", "elements", "elements_count",
                             "send", "sent", "unlock"}
                /\ {image, bbox_elements, bbox_element_count} \subseteq Images
                /\ yuv_meas \in Images \X Images \X Images
           V == /\ v_pc \in [Viewers -> {"idle", "wait", "relock", "copy"}]
                /\ frame_size \in [Viewers -> 0 .. MaxChunks]
                /\ \A v \in Viewers : Len(frame[v]) <= MaxChunks
                /\ started \in [Viewers -> 0 .. MaxFrames]
                /\ unsignalled \in [Viewers -> BOOLEAN]
           O == owner \in [Locks -> Threads \cup {None}]
<1>1. E /\ G /\ P /\ V /\ O
  BY <1>0 DEF TypeOK
<1>2. O'
  <2> DEFINE T == Threads \cup {None}
  <2>1. /\ "encoder" \in T /\ "splitter" \in T /\ None \in T
        /\ \A t \in Viewers \cup Settings : t \in T
    BY DEF Threads
  <2>2. \/ owner' = owner
        \/ \E l \in Locks, t \in T : owner' = [owner EXCEPT ![l] = t]
    BY <2>1, StepCases
    DEF EncoderGets, EncoderGetsEmpty, EncoderLocksDb, EncoderCounts, EncoderLocksBoxes,
        EncoderWritesTags, EncoderCopies, EncoderOverruns, EncoderCompletes, SplitterLocksParams,
        SplitterMeasures, SplitterLocksBoxes, SplitterWritesElements, SplitterWritesCount,
        SplitterSends, SplitterSent, SplitterEnds, ViewerWaits, ViewerWakesUnsignalled,
        ViewerReadsSize, ViewerCopies, SettingsLock, SettingsUnlock, Lock, Unlock, Locks, vars
  <2> HIDE DEF T
  <2>3. owner \in [Locks -> T] => owner' \in [Locks -> T]
    BY <2>2
  <2> QED
    BY <1>1, <2>3 DEF T
<1>3. E'
  <2>1. CASE EncoderGets
    BY <1>1, <2>1 DEF EncoderGets
  <2>2. CASE EncoderGetsEmpty \/ EncoderLocksDb \/ EncoderCounts \/ EncoderLocksBoxes
    BY <1>1, <2>2 DEF EncoderGetsEmpty, EncoderLocksDb, EncoderCounts, EncoderLocksBoxes
  <2>3. CASE EncoderWritesTags
    BY <1>1, <2>3 DEF EncoderWritesTags
  <2>4. CASE EncoderCopies
    <3>1. frame_no + 1 \in 0 .. MaxFrames /\ offset + 1 \in 1 .. MaxChunks
      BY <1>1, <2>4 DEF EncoderCopies, FrameInv
    <3>2. <<frame_no + 1, offset + 1>> \in Chunks
      BY <3>1 DEF Chunks
    <3>3. buf' \in [1 .. MaxChunks -> Chunks]
      BY <1>1, <2>4, <3>2 DEF EncoderCopies
    <3> QED
      BY <1>1, <2>4, <3>1, <3>3 DEF EncoderCopies
  <2>5. CASE EncoderCompletes
    <3>1. frame_no + 1 \in 0 .. MaxFrames
      BY <1>1, <2>5 DEF EncoderCompletes, FrameInv
    <3> QED
      BY <1>1, <2>5, <3>1 DEF EncoderCompletes
  <2>6. CASE EncoderOverruns
    BY <1>1, <2>6 DEF EncoderOverruns
  <2>7. CASE UNCHANGED <<e_pc, flagged, offset, frame_no, buf, size, harm>>
    BY <1>1, <2>7
  <2> QED
    BY <2>1, <2>2, <2>3, <2>4, <2>5, <2>6, <2>7, StepCases
    DEF SplitterLocksParams, SplitterMeasures, SplitterLocksBoxes, SplitterWritesElements,
        SplitterWritesCount, SplitterSends, SplitterSent, SplitterEnds, ViewerWaits,
        ViewerWakesUnsignalled, ViewerReadsSize, ViewerCopies, SettingsLock,
        SettingsUnlock, vars, encoder
<1>4. G'
  <2>1. CASE EncoderWritesTags
    BY <1>1, <2>1 DEF EncoderWritesTags
  <2>2. CASE UNCHANGED tags
    BY <1>1, <2>2
  <2> QED
    BY <2>1, <2>2, StepCases
    DEF EncoderGets, EncoderGetsEmpty, EncoderLocksDb, EncoderCounts, EncoderLocksBoxes,
        EncoderCopies, EncoderOverruns, EncoderCompletes, SplitterLocksParams, SplitterMeasures,
        SplitterLocksBoxes, SplitterWritesElements, SplitterWritesCount, SplitterSends,
        SplitterSent, SplitterEnds, ViewerWaits, ViewerWakesUnsignalled, ViewerReadsSize,
        ViewerCopies, SettingsLock, SettingsUnlock, vars, encoder
<1>5. P'
  <2>1. CASE SplitterLocksParams
    BY <1>1, <2>1 DEF SplitterLocksParams, Images
  <2>2. CASE SplitterMeasures
    <3>1. yuv_meas' \in Images \X Images \X Images
      <4>1. /\ s_pc \in {"y", "u", "v"}
            /\ yuv_meas' = [yuv_meas EXCEPT ![YuvPlace[s_pc]] = image]
        BY <2>2 DEF SplitterMeasures, YuvPlace
      <4>2. YuvPlace["y"] = 1 /\ YuvPlace["u"] = 2 /\ YuvPlace["v"] = 3
        BY DEF YuvPlace
      <4>3. yuv_meas \in Images \X Images \X Images /\ image \in Images
        BY <1>1
      <4>4. CASE yuv_meas' = [yuv_meas EXCEPT ![1] = image]
        BY <4>3, <4>4
      <4>5. CASE yuv_meas' = [yuv_meas EXCEPT ![2] = image]
        BY <4>3, <4>5
      <4>6. CASE yuv_meas' = [yuv_meas EXCEPT ![3] = image]
        BY <4>3, <4>6
      <4> QED
        BY <4>1, <4>2, <4>4, <4>5, <4>6
    <3> QED
      BY <1>1, <2>2, <3>1 DEF SplitterMeasures, YuvPlace, AfterYuv
  <2>3. CASE SplitterLocksBoxes \/ SplitterWritesElements \/ SplitterWritesCount
             \/ SplitterSends \/ SplitterSent \/ SplitterEnds
    BY <1>1, <2>3
    DEF SplitterLocksBoxes, SplitterWritesElements, SplitterWritesCount, SplitterSends,
        SplitterSent, SplitterEnds
  <2>4. CASE UNCHANGED splitter
    BY <1>1, <2>4 DEF splitter
  <2> QED
    BY <2>1, <2>2, <2>3, <2>4, StepCases
    DEF EncoderGets, EncoderGetsEmpty, EncoderLocksDb, EncoderCounts, EncoderLocksBoxes,
        EncoderWritesTags, EncoderCopies, EncoderOverruns, EncoderCompletes, ViewerWaits,
        ViewerWakesUnsignalled, ViewerReadsSize, ViewerCopies, SettingsLock,
        SettingsUnlock, vars, encoder
<1>6. V'
  <2>1. CASE EncoderCompletes
    BY <1>1, <2>1 DEF EncoderCompletes, Woken
  <2>2. ASSUME NEW v \in Viewers, ViewerWaits(v) PROVE V'
    <3>1. Begun \in 0 .. MaxFrames
      BY <1>1 DEF Begun, FrameInv
    <3> QED
      BY <1>1, <2>2, <3>1 DEF ViewerWaits
  <2>3. ASSUME NEW v \in Viewers, ViewerWakesUnsignalled(v) \/ ViewerReadsSize(v) PROVE V'
    <3>1. CASE ViewerWakesUnsignalled(v)
      BY <1>1, <3>1 DEF ViewerWakesUnsignalled
    <3>2. CASE ViewerReadsSize(v)
      <4>1. frame_size' \in [Viewers -> 0 .. MaxChunks]
        BY <1>1, <3>2 DEF ViewerReadsSize
      <4>2. v_pc' \in [Viewers -> {"idle", "wait", "relock", "copy"}]
        BY <1>1, <3>2 DEF ViewerReadsSize
      <4> QED
        BY <1>1, <3>2, <4>1, <4>2 DEF ViewerReadsSize
    <3> QED
      BY <2>3, <3>1, <3>2
  <2>4. ASSUME NEW v \in Viewers, ViewerCopies(v) PROVE V'
    <3>1. frame' = [frame EXCEPT ![v] = SubSeq(buf, 1, frame_size[v])]
      BY <2>4 DEF ViewerCopies
    <3>2. Len(SubSeq(buf, 1, frame_size[v])) <= MaxChunks
      <4>1. frame_size[v] \in 0 .. MaxChunks /\ \A k \in 1 .. frame_size[v] : buf[k] \in Chunks
        BY <1>1
      <4>2. Len(SubSeq(buf, 1, frame_size[v])) =
               IF 1 <= frame_size[v] THEN frame_size[v] - 1 + 1 ELSE 0
        BY <4>1, SubSeqProperties
      <4> QED
        BY <4>1, <4>2
    <3>3. \A w \in Viewers : Len(frame'[w]) <= MaxChunks
      BY <1>1, <3>1, <3>2
    <3> QED
      BY <1>1, <2>4, <3>3 DEF ViewerCopies
  <2>5. CASE UNCHANGED viewer
    BY <1>1, <2>5 DEF viewer
  <2> QED
    BY <2>1, <2>2, <2>3, <2>4, <2>5, StepCases
    DEF EncoderGets, EncoderGetsEmpty, EncoderLocksDb, EncoderCounts, EncoderLocksBoxes,
        EncoderWritesTags, EncoderCopies, EncoderOverruns, SplitterLocksParams, SplitterMeasures,
        SplitterLocksBoxes, SplitterWritesElements, SplitterWritesCount, SplitterSends,
        SplitterSent, SplitterEnds, SettingsLock, SettingsUnlock, vars, viewer
<1> QED
  BY <1>2, <1>3, <1>4, <1>5, <1>6 DEF TypeOK

\* The invariant holds in every behaviour.
LEMMA Invariance == Spec => []IInv
<1>1. IInv /\ [Next]_vars => IInv'
  BY TypesKept, LocksKept, DbKept, FrameKept, BoxesKept, BufferKept, ViewersKept DEF IInv
<1> QED
  BY <1>1, InitIInv, PTL DEF Spec

--------------------------------------------------------------------------------
(* The theorems *)

\* For any number of viewers: what is published, and what a viewer copies, lies
\* inside the buffer, also when the encoder's next chunk does not fit; a frame is
\* completed only after its own chunks, or without any.
THEOREM TypeCorrect == Spec => []TypeOK
<1>1. IInv => TypeOK
  BY DEF IInv
<1> QED
  BY <1>1, Invariance, PTL

\* No set of threads, of any size, waits for mutexes that are held in it: every
\* thread that wants one wants it of a thread that wants none, or of the encoder,
\* which wants bbox and lock_mutex of the splitter when the splitter wants none.
THEOREM NeverCircularWait == Spec => []NoCircularWait
<1>1. IInv => NoCircularWait
  <2> SUFFICES ASSUME IInv, NEW S \in (SUBSET Threads) \ {{}}
               PROVE  \E t \in S : Wants(t) = None \/ owner[Wants(t)] \notin S
    BY DEF NoCircularWait
  <2> SUFFICES ASSUME \A t \in S : Wants(t) # None /\ owner[Wants(t)] \in S
               PROVE  FALSE
    OBVIOUS
  <2> S \subseteq Threads /\ S # {}
    OBVIOUS
  <2> USE DEF IInv
  <2>0. \A v \in Viewers : v # "encoder" /\ v # "splitter"
    BY Names
  <2>1. "splitter" \notin S
    <3> SUFFICES ASSUME "splitter" \in S PROVE FALSE
      OBVIOUS
    <3>1. Wants("splitter") # None /\ owner[Wants("splitter")] \in S
      OBVIOUS
    <3>2. \/ s_pc = "bbox" /\ Wants("splitter") = "bbox"
          \/ s_pc = "send" /\ Wants("splitter") = "udp"
      BY <3>1, Names DEF Wants
    <3>3. CASE s_pc = "send" /\ Wants("splitter") = "udp"
      BY <3>1, <3>3, Names DEF LockInv, None, Threads, Settings
    <3>4. CASE s_pc = "bbox" /\ Wants("splitter") = "bbox"
      <4>1. owner["bbox"] = "encoder"
        BY <3>1, <3>4, Names DEF LockInv, None, Threads, Settings
      <4>2. "encoder" \in S /\ e_pc = "tags"
        BY <3>1, <3>4, <4>1 DEF LockInv
      <4>3. Wants("encoder") = None
        BY <4>2, Names DEF Wants
      <4> QED
        BY <4>2, <4>3
    <3> QED
      BY <3>2, <3>3, <3>4
  <2>2. \A v \in Viewers : v_pc[v] = "copy" => v \notin S
    BY <2>0 DEF Wants
  <2>3. "encoder" \notin S
    <3> SUFFICES ASSUME "encoder" \in S PROVE FALSE
      OBVIOUS
    <3>1. Wants("encoder") # None /\ owner[Wants("encoder")] \in S
      OBVIOUS
    <3>2. \/ e_pc = "db" /\ Wants("encoder") = "db"
          \/ e_pc \in {"count", "age"} /\ Wants("encoder") = "udp"
          \/ e_pc = "bbox" /\ Wants("encoder") = "bbox"
      BY <3>1, Names DEF Wants
    <3>3. None \notin S
      BY Names DEF Threads, Settings, None
    <3>4. owner["udp"] \notin S /\ (e_pc = "bbox" => owner["bbox"] \notin S)
      BY <2>1, <3>3 DEF LockInv
    <3>5. e_pc = "db" => owner["db"] \notin S
      BY <2>2, <3>3 DEF LockInv, EncoderHolds
    <3> QED
      BY <3>1, <3>2, <3>4, <3>5
  <2>4. \A v \in Viewers : v \notin S
    <3> SUFFICES ASSUME NEW v \in Viewers, v \in S PROVE FALSE
      OBVIOUS
    <3>1. Wants(v) = "db" /\ owner["db"] \in S
      BY <2>0 DEF Wants
    <3>2. None \notin S
      BY Names DEF Threads, Settings, None
    <3> QED
      BY <2>2, <2>3, <3>1, <3>2 DEF LockInv
  <2>5. \A t \in Settings : t \notin S
    <3>1. \A t \in Settings : t # "encoder" /\ t # "splitter" /\ t \notin Viewers
      BY Names DEF Settings
    <3> QED
      BY <3>1, Names DEF Wants
  <2> QED
    BY <2>1, <2>3, <2>4, <2>5 DEF Threads
<1> QED
  BY <1>1, Invariance, PTL

\* However the two callbacks interleave, a frame's header never has the number
\* of boxes of one image and the boxes of another.
THEOREM AlwaysBoxesOfOneImage == Spec => []BoxesOfOneImage
<1>1. IInv => BoxesOfOneImage
  BY DEF IInv, BoxInv
<1> QED
  BY <1>1, Invariance, PTL

\* For any number of viewers: as long as db was not taken from one, a viewer that
\* was woken by the broadcast copies a frame no byte of which was there when its
\* wait began.
THEOREM AlwaysFreshFrame == Spec => []FreshFrame
<1>1. IInv => FreshFrame
  BY DEF IInv, ViewInv, FreshFrame
<1> QED
  BY <1>1, Invariance, PTL

\* A buffer in which no frame is being assembled begins with the latest frame.
LEMMA CopyIsLatest ==
    ASSUME IInv, harm = "none", NEW v \in Viewers, v_pc[v] = "copy"
    PROVE  SubSeq(buf, 1, frame_size[v]) = latest
<1>1. /\ size \in 0 .. MaxChunks /\ MaxChunks \in Nat /\ frame_size[v] = size
      /\ buf \in [1 .. MaxChunks -> Chunks]
  BY Bounds DEF IInv, TypeOK, ViewInv
<1>2. ~EncoderHolds
  BY Names DEF IInv, DbInv
<1>3. latest \in Seq(Chunks) /\ Len(latest) = size /\ \A k \in 1 .. size : buf[k] = latest[k]
  BY <1>2 DEF IInv, BufInv
<1> DEFINE s == SubSeq(buf, 1, size)
<1>4. \A k \in 1 .. size : buf[k] \in Chunks
  BY <1>1
<1>5. /\ s \in Seq(Chunks) /\ Len(s) = (IF 1 <= size THEN size - 1 + 1 ELSE 0)
      /\ \A k \in 1 .. size - 1 + 1 : s[k] = buf[1 + k - 1]
  BY <1>1, <1>4, SubSeqProperties
<1> HIDE DEF s
<1>6. s \in Seq(Chunks) /\ Len(s) = Len(latest) /\ \A k \in 1 .. Len(s) : s[k] = latest[k]
  BY <1>1, <1>3, <1>5
<1>7. s = latest
  BY <1>3, <1>6, SeqEqual
<1> QED
  BY <1>1, <1>7 DEF s

\* The shared buffer implements the mailbox of whole frames, for any number of
\* viewers: completing a frame publishes it, the empty one too, a viewer's copy is
\* the latest one, and no other step shows; the mailbox breaks exactly where the
\* encoder unlocks a db that a viewer holds, or writes past the buffer.
THEOREM MailboxImplemented == Spec => ImplementsMailbox
<1>1. Init => Mailbox!Init
  BY DEF Init, Mailbox!Init
<1>2. IInv /\ [Next]_vars => [Mailbox!Next]_<<frame_no, latest, frame, (harm # "none")>>
  <2> SUFFICES ASSUME IInv, [Next]_vars
               PROVE  [Mailbox!Next]_<<frame_no, latest, frame, (harm # "none")>>
    OBVIOUS
  <2>0. CASE harm' # "none"
    BY <2>0 DEF Mailbox!Next, Mailbox!Breaks
  <2>1. ASSUME EncoderCompletes, harm' = "none" PROVE Mailbox!Next
    <3>1. offset \in Nat
      BY DEF IInv, TypeOK
    <3>2. /\ frame_no' = frame_no + 1 /\ frame' = frame /\ harm = "none"
          /\ latest' = [k \in 1 .. offset |-> <<frame_no + 1, k>>]
      BY <2>1 DEF EncoderCompletes, Delivered
    <3>3. Len(latest') = offset
      BY <3>1, <3>2
    <3>4. Mailbox!Publish
      BY <3>2, <3>3 DEF Mailbox!Publish
    <3> QED
      BY <2>1, <3>2, <3>4 DEF Mailbox!Next, Mailbox!Works
  <2>2. ASSUME NEW v \in Viewers, ViewerCopies(v), harm' = "none" PROVE Mailbox!Next
    <3>1. harm = "none"
      BY <2>2 DEF ViewerCopies, encoder
    <3>2. frame' = [frame EXCEPT ![v] = latest] /\ UNCHANGED <<frame_no, latest>>
      BY <2>2, <3>1, CopyIsLatest DEF ViewerCopies, encoder
    <3>3. Mailbox!Take(v)
      BY <3>2 DEF Mailbox!Take
    <3> QED
      BY <2>2, <3>1, <3>3 DEF Mailbox!Next, Mailbox!Works
  <2>3. \/ EncoderCompletes \/ (\E v \in Viewers : ViewerCopies(v))
        \/ EncoderOverruns \/ UNCHANGED <<frame_no, latest, frame, harm>>
    BY StepCases
    DEF EncoderGets, EncoderGetsEmpty, EncoderLocksDb, EncoderCounts, EncoderLocksBoxes,
        EncoderWritesTags, EncoderCopies, SplitterLocksParams, SplitterMeasures,
        SplitterLocksBoxes, SplitterWritesElements, SplitterWritesCount, SplitterSends,
        SplitterSent, SplitterEnds, ViewerWaits, ViewerWakesUnsignalled, ViewerReadsSize,
        SettingsLock, SettingsUnlock, vars, encoder, viewer
  <2>4. EncoderOverruns => harm' # "none"
    BY DEF EncoderOverruns
  <2> QED
    BY <2>0, <2>1, <2>2, <2>3, <2>4
<1> QED
  BY <1>1, <1>2, Invariance, PTL DEF Spec, ImplementsMailbox, Mailbox!Spec

-----------------------------------------------------------------------------
(* The folder of output_file, which saves what a viewer copies             *)

\* A name is a second and a counter.
FileNames == Nat \X Nat

\* Types; what is in the folder was saved, and only maintain_ringbuffer deletes.
FileTypes ==
    /\ ringbuffer_size \in Int /\ ringbuffer_exceed \in Nat
    /\ second \in 0 .. MaxSecond /\ counter \in Nat /\ restarts \in Nat /\ apart \in BOOLEAN
    /\ undeleted \in BOOLEAN
    /\ worker \in {"wait", "open", "write", "maintain", "unlink", "ended"}
    /\ worker # "ended" => counter <= Len(saved)
    /\ counter <= Len(saved) + 1
    /\ saved \in Seq(FileNames) /\ Len(saved) <= MaxSaves
    /\ folder \subseteq {saved[i] : i \in 1 .. Len(saved)}
    /\ doomed \subseteq folder
    /\ worker # "unlink" => doomed = {}
    /\ doomed # {} => ringbuffer_size >= 0

\* The files saved are in order, the next one will follow them, and only files
\* with ringbuffer_size later ones are to be deleted.
FilesInOrder ==
    /\ \A i, j \in 1 .. Len(saved) : i < j => Before(saved[i], saved[j])
    /\ \A i \in 1 .. Len(saved) : Before(saved[i], <<second, counter>>)
    /\ \A i \in 1 .. Len(saved) : saved[i] \in doomed => Len(saved) - i >= ringbuffer_size
    /\ \A i \in 1 .. Len(saved) :
          ringbuffer_size < 0 \/ Len(saved) - i < ringbuffer_size => saved[i] \in folder

\* Pictures since the worker last looked after the ring.
SinceDue(c) == c % (ringbuffer_exceed + 1)

\* What BoundedRing allows.
FolderLimit == ringbuffer_size + ringbuffer_exceed + 1 + restarts

\* How many files there are between two pictures of a run, and in the middle of one.
FolderHeld ==
    /\ Cardinality(folder) <= FolderLimit
    /\ worker \in {"wait", "open"} =>
          IF counter = 0 THEN Cardinality(folder) <= FolderLimit - 1
                         ELSE Cardinality(folder) <= ringbuffer_size + SinceDue(counter)
    /\ worker \in {"write", "maintain"} =>
          /\ counter >= 1
          /\ counter > 1 => Cardinality(folder) <= ringbuffer_size + SinceDue(counter - 1) + 1
    /\ worker = "unlink" =>
          counter >= 1 /\ Cardinality(folder \ doomed) <= ringbuffer_size

FileInv == FileTypes /\ (apart => FilesInOrder) /\ (ringbuffer_size >= 0 /\ ~undeleted => FolderHeld)

\* Times and bounds are whole numbers.
LEMMA FileBounds ==
    /\ MaxSize \in Nat /\ MaxExceed \in Nat
    /\ MaxSaves \in Nat /\ MaxRestarts \in Nat /\ MaxSecond \in Nat
BY FileAssumption

\* The steps, each by itself.
LEMMA FileCases ==
    ASSUME [FileNext]_fileVars
    PROVE  \/ Tick \/ Copies \/ Opens \/ Writes \/ Maintains
           \/ ScandirFails \/ Unlinks \/ UnlinkFails \/ Restarts \/ UNCHANGED fileVars
BY DEF FileNext, Worker

\* What is in the folder was saved, and what is to be deleted is in the folder.
LEMMA FileTypesKept ==
    ASSUME FileTypes, [FileNext]_fileVars
    PROVE  FileTypes'
<1>0. /\ MaxSize \in Nat /\ MaxExceed \in Nat
      /\ MaxSaves \in Nat /\ MaxRestarts \in Nat /\ MaxSecond \in Nat
  BY FileBounds
<1> USE <1>0 DEF FileTypes, Goes, options, history
<1>1. CASE Tick
  BY <1>1 DEF Tick
<1>2. CASE Copies
  BY <1>2 DEF Copies
<1>3. CASE Opens
  <2>1. CASE worker' = "write"
    <3>1. /\ saved' = Append(saved, <<second, counter>>)
          /\ folder' = folder \cup {<<second, counter>>}
          /\ counter' = counter + 1 /\ Len(saved) < MaxSaves /\ worker = "open"
          /\ UNCHANGED <<ringbuffer_size, ringbuffer_exceed, second, restarts, apart, doomed>>
          /\ UNCHANGED undeleted
      BY <1>3, <2>1 DEF Opens
    <3>2. /\ saved' \in Seq(FileNames) /\ Len(saved') = Len(saved) + 1 /\ Len(saved) \in Nat
          /\ \A i \in 1 .. Len(saved) : saved'[i] = saved[i]
          /\ saved'[Len(saved) + 1] = <<second, counter>>
      <4>1. <<second, counter>> \in FileNames /\ saved \in Seq(FileNames)
        BY DEF FileNames
      <4> QED BY <3>1, <4>1
    <3>3. folder' \subseteq {saved'[i] : i \in 1 .. Len(saved')}
      <4> SUFFICES ASSUME NEW f \in folder' PROVE \E i \in 1 .. Len(saved') : f = saved'[i]
        OBVIOUS
      <4>1. CASE f \in folder
        <5>1. PICK i \in 1 .. Len(saved) : f = saved[i]
          BY <4>1
        <5>2. i \in 1 .. Len(saved') /\ f = saved'[i]
          BY <3>2, <5>1
        <5> QED BY <5>2
      <4> QED BY <3>1, <3>2, <4>1
    <3> QED BY <2>1, <3>1, <3>2, <3>3
  <2>2. CASE worker' # "write"
    BY <1>3, <2>2 DEF Opens
  <2> QED BY <2>1, <2>2
<1>4. CASE Writes
  BY <1>4 DEF Writes
<1>5. CASE Maintains \/ ScandirFails
  BY <1>5 DEF Maintains, ScandirFails, Doomed
<1>6. CASE Unlinks \/ UnlinkFails
  BY <1>6 DEF Unlinks, UnlinkFails
<1>7. CASE Restarts
  BY <1>7 DEF Restarts
<1>8. CASE UNCHANGED fileVars
  BY <1>8 DEF fileVars
<1> QED
  BY <1>1, <1>2, <1>3, <1>4, <1>5, <1>6, <1>7, <1>8, FileCases

\* alphasort's order is strict, and total.
LEMMA FileOrder ==
    /\ \A f \in FileNames : ~Before(f, f)
    /\ \A f, g \in FileNames : f = g \/ Before(f, g) \/ Before(g, f)
    /\ \A f, g \in FileNames : ~(Before(f, g) /\ Before(g, f))
    /\ \A f, g, h \in FileNames : Before(f, g) /\ Before(g, h) => Before(f, h)
BY DEF FileNames, Before

\* Files are counted by their places among those saved.
LEMMA SavedCounts ==
    ASSUME FileTypes, NEW i \in 1 .. Len(saved) + 1
    PROVE  LET rest == {saved[k] : k \in i .. Len(saved)}
           IN  IsFiniteSet(rest) /\ Cardinality(rest) <= Len(saved) - i + 1
<1> DEFINE rest == {saved[k] : k \in i .. Len(saved)}
           name == [k \in i .. Len(saved) |-> saved[k]]
<1>1. Len(saved) \in Nat /\ i \in Nat /\ i <= Len(saved) + 1
  BY DEF FileTypes
<1>2. IsFiniteSet(i .. Len(saved)) /\ Cardinality(i .. Len(saved)) = Len(saved) - i + 1
  <2> DEFINE n == Len(saved)
  <2> HIDE DEF n
  <2>1. i \in Int /\ n \in Int /\ i <= n + 1
    BY <1>1 DEF n
  <2>2. /\ IsFiniteSet(i .. n)
        /\ Cardinality(i .. n) = IF i > n THEN 0 ELSE n - i + 1
    BY <2>1, FS_Interval
  <2>3. Cardinality(i .. n) = n - i + 1
    BY <2>1, <2>2
  <2> QED BY <2>2, <2>3 DEF n
<1>3. name \in Surjection(i .. Len(saved), rest)
  BY DEF Surjection
<1> HIDE DEF rest, name
<1>4. IsFiniteSet(rest) /\ Cardinality(rest) <= Cardinality(i .. Len(saved))
  BY <1>2, <1>3, FS_Surjection
<1> QED BY <1>2, <1>4 DEF rest

\* There are finitely many files.
LEMMA FolderIsFinite ==
    ASSUME FileTypes
    PROVE  IsFiniteSet(folder) /\ Cardinality(folder) \in Nat /\ folder \subseteq FileNames
<1>1. Len(saved) \in Nat /\ \A i \in 1 .. Len(saved) : saved[i] \in FileNames
  BY DEF FileTypes
<1>3. IsFiniteSet({saved[i] : i \in 1 .. Len(saved)})
  <2>1. 1 \in 1 .. Len(saved) + 1
    BY <1>1
  <2> QED BY <2>1, SavedCounts
<1>4. IsFiniteSet(folder)
  BY <1>3, FS_Subset DEF FileTypes
<1> QED BY <1>1, <1>4, FS_CardinalityType DEF FileTypes

\* The files of a folder that come after a given one.
Later(f) == {g \in folder : Before(f, g)}

\* They can be counted, and the earlier of two files has more of them.
LEMMA LaterCounts ==
    ASSUME FileTypes
    PROVE  /\ \A f \in folder : IsFiniteSet(Later(f)) /\ Cardinality(Later(f)) \in Nat
           /\ \A f, g \in folder :
                 Before(f, g) => Cardinality(Later(g)) < Cardinality(Later(f))
<1>1. \A f \in folder : IsFiniteSet(Later(f)) /\ Cardinality(Later(f)) \in Nat
  BY FolderIsFinite, FS_Subset, FS_CardinalityType DEF Later
<1>2. ASSUME NEW f \in folder, NEW g \in folder, Before(f, g)
      PROVE  Cardinality(Later(g)) < Cardinality(Later(f))
  <2>1. Later(g) \subseteq Later(f)
    BY <1>2, FileOrder, FolderIsFinite DEF Later
  <2>2. g \in Later(f) /\ g \notin Later(g)
    BY <1>2, FileOrder, FolderIsFinite DEF Later
  <2>3. /\ Cardinality(Later(g)) <= Cardinality(Later(f))
        /\ Cardinality(Later(f)) # Cardinality(Later(g))
    BY <1>1, <2>1, <2>2, FS_Subset
  <2> QED BY <1>1, <2>3
<1> QED BY <1>1, <1>2

\* maintain_ringbuffer leaves no more than ringbuffer_size files: the numbers of
\* files after each of them are different, and less than that.
LEMMA LeftOver ==
    ASSUME FileTypes, ringbuffer_size >= 0
    PROVE  Cardinality(folder \ Doomed) <= ringbuffer_size
<1> DEFINE left == folder \ Doomed
           places == 0 .. ringbuffer_size - 1
           after == [f \in left |-> Cardinality(Later(f))]
<1>1. \A f \in left : f \in folder /\ ~(Cardinality(Later(f)) >= ringbuffer_size)
  BY DEF Doomed, Later
<1>2. \A f \in left : Cardinality(Later(f)) \in places
  BY <1>1, LaterCounts DEF FileTypes
<1>3. \A f, g \in left : Cardinality(Later(f)) = Cardinality(Later(g)) => f = g
  <2> SUFFICES ASSUME NEW f \in left, NEW g \in left, f # g
               PROVE  Cardinality(Later(f)) # Cardinality(Later(g))
    OBVIOUS
  <2>1. Before(f, g) \/ Before(g, f)
    BY <1>1, FileOrder, FolderIsFinite
  <2>2. \/ Cardinality(Later(f)) < Cardinality(Later(g))
        \/ Cardinality(Later(g)) < Cardinality(Later(f))
    BY <1>1, <2>1, LaterCounts
  <2>3. Cardinality(Later(f)) \in Nat /\ Cardinality(Later(g)) \in Nat
    BY <1>1, LaterCounts
  <2> QED BY <2>2, <2>3
<1>4. after \in Injection(left, places)
  BY <1>2, <1>3 DEF Injection, IsInjective
<1>5. IsFiniteSet(places) /\ Cardinality(places) = ringbuffer_size
  <2>1. 0 \in Int /\ ringbuffer_size - 1 \in Int /\ ringbuffer_size \in Int
    BY DEF FileTypes
  <2> QED BY <2>1, FS_Interval
<1> QED BY <1>4, <1>5, FS_Injection

\* If the files saved are in order, each has at most as many after it in the
\* folder as were saved after it.
LEMMA LaterSaved ==
    ASSUME FileTypes, FilesInOrder, NEW i \in 1 .. Len(saved), saved[i] \in folder
    PROVE  Cardinality(Later(saved[i])) <= Len(saved) - i
<1>1. Len(saved) \in Nat /\ \A k \in 1 .. Len(saved) : saved[k] \in FileNames
  BY DEF FileTypes
<1>2. Later(saved[i]) \subseteq {saved[k] : k \in i + 1 .. Len(saved)}
  <2> SUFFICES ASSUME NEW g \in Later(saved[i])
               PROVE  \E k \in i + 1 .. Len(saved) : g = saved[k]
    OBVIOUS
  <2>1. PICK k \in 1 .. Len(saved) : g = saved[k]
    BY DEF Later, FileTypes
  <2>2. Before(saved[i], saved[k])
    BY <2>1 DEF Later
  <2>3. ~(k = i) /\ ~(k < i)
    BY <1>1, <2>2, FileOrder DEF FilesInOrder
  <2> QED BY <1>1, <2>1, <2>3
<1> DEFINE rest == {saved[k] : k \in i + 1 .. Len(saved)}
<1>4. IsFiniteSet(rest) /\ Cardinality(rest) <= Len(saved) - (i + 1) + 1
  <2>1. i + 1 \in 1 .. Len(saved) + 1
    BY <1>1
  <2> QED BY <2>1, SavedCounts
<1>5. Cardinality(Later(saved[i])) <= Cardinality(rest)
  BY <1>2, <1>4, FS_Subset
<1>6. Cardinality(rest) \in Nat /\ Cardinality(Later(saved[i])) \in Nat
  BY <1>4, LaterCounts, FS_CardinalityType
<1> QED BY <1>1, <1>4, <1>5, <1>6

\* A file that is opened is the last in order.
LEMMA OpensInOrder ==
    ASSUME FileTypes, FilesInOrder, Opens PROVE FilesInOrder'
<1>1. CASE worker' = "write"
  <2>1. /\ saved' = Append(saved, <<second, counter>>)
        /\ folder' = folder \cup {<<second, counter>>}
        /\ counter' = counter + 1 /\ worker = "open" /\ doomed = {}
        /\ UNCHANGED <<ringbuffer_size, second, doomed>>
    BY <1>1 DEF Opens, Goes, options, FileTypes
  <2>2. /\ Len(saved') = Len(saved) + 1 /\ Len(saved) \in Nat
        /\ \A i \in 1 .. Len(saved) : saved'[i] = saved[i]
        /\ saved'[Len(saved) + 1] = <<second, counter>>
        /\ \A i \in 1 .. Len(saved') : i \in 1 .. Len(saved) \/ i = Len(saved) + 1
    BY <2>1 DEF FileTypes
  <2>3. counter \in Nat /\ second \in Int /\ ringbuffer_size \in Int
    BY DEF FileTypes
  <2>4. \A i, j \in 1 .. Len(saved') : i < j => Before(saved'[i], saved'[j])
    <3> SUFFICES ASSUME NEW i \in 1 .. Len(saved'), NEW j \in 1 .. Len(saved'), i < j
                 PROVE  Before(saved'[i], saved'[j])
      OBVIOUS
    <3>1. i \in 1 .. Len(saved)
      BY <2>2
    <3> QED BY <2>2, <3>1 DEF FilesInOrder
  <2>5. \A i \in 1 .. Len(saved') : Before(saved'[i], <<second', counter'>>)
    <3>1. Before(<<second, counter>>, <<second, counter + 1>>)
      BY <2>3 DEF Before
    <3>2. \A i \in 1 .. Len(saved) : Before(saved[i], <<second, counter + 1>>)
      <4>1. \A i \in 1 .. Len(saved) :
              saved[i] \in FileNames /\ Before(saved[i], <<second, counter>>)
        BY DEF FileTypes, FilesInOrder
      <4> QED BY <2>3, <4>1 DEF Before, FileNames
    <3> QED BY <2>1, <2>2, <3>1, <3>2
  <2>6. \A i \in 1 .. Len(saved') :
           ringbuffer_size' < 0 \/ Len(saved') - i < ringbuffer_size' => saved'[i] \in folder'
    <3> SUFFICES ASSUME NEW i \in 1 .. Len(saved'),
                        ringbuffer_size < 0 \/ Len(saved') - i < ringbuffer_size
                 PROVE  saved'[i] \in folder'
      BY <2>1
    <3>1. CASE i \in 1 .. Len(saved)
      <4>1. ringbuffer_size < 0 \/ Len(saved) - i < ringbuffer_size
        BY <2>2, <2>3, <3>1
      <4> QED BY <2>1, <2>2, <3>1, <4>1 DEF FilesInOrder
    <3> QED BY <2>1, <2>2, <3>1
  <2> QED BY <2>1, <2>4, <2>5, <2>6 DEF FilesInOrder
<1>2. CASE worker' # "write"
  <2>1. /\ UNCHANGED <<ringbuffer_size, second, folder, doomed, saved>>
        /\ counter' = counter + 1 /\ counter \in Nat /\ second \in Int
    BY <1>2 DEF Opens, Goes, options, FileTypes
  <2>2. \A i \in 1 .. Len(saved) :
              saved[i] \in FileNames /\ Before(saved[i], <<second, counter>>)
    BY DEF FileTypes, FilesInOrder
  <2>3. \A i \in 1 .. Len(saved) : Before(saved[i], <<second, counter + 1>>)
    BY <2>1, <2>2 DEF Before, FileNames
  <2> QED BY <2>1, <2>3 DEF FilesInOrder
<1> QED BY <1>1, <1>2

\* As long as each run begins in a later second than the last one saved, the
\* files stay in order and the newest ones where they are.
LEMMA OrderKept ==
    ASSUME FileTypes, apart => FilesInOrder, [FileNext]_fileVars, apart'
    PROVE  FilesInOrder'
<1>1. apart
  <2>1. CASE Tick
    BY <2>1 DEF Tick, history
  <2>2. CASE Copies \/ Opens \/ Writes
    BY <2>2 DEF Copies, Opens, Writes, Goes
  <2>3. CASE Maintains \/ ScandirFails \/ Unlinks \/ UnlinkFails
    BY <2>3 DEF Maintains, ScandirFails, Unlinks, UnlinkFails, Goes
  <2>4. CASE Restarts
    BY <2>4 DEF Restarts
  <2>5. CASE UNCHANGED fileVars
    BY <2>5 DEF fileVars, history
  <2> QED BY <2>1, <2>2, <2>3, <2>4, <2>5, FileCases
<1>2. FilesInOrder
  BY <1>1
<1>3. Len(saved) \in Nat /\ \A i \in 1 .. Len(saved) : saved[i] \in FileNames
  BY DEF FileTypes
<1>4. /\ second \in Nat /\ counter \in Nat /\ ringbuffer_size \in Int
      /\ \A i \in 1 .. Len(saved) : Before(saved[i], <<second, counter>>)
  <2>1. MaxSecond \in Nat /\ second \in 0 .. MaxSecond /\ counter \in Nat /\ ringbuffer_size \in Int
    BY FileBounds DEF FileTypes
  <2>2. \A i \in 1 .. Len(saved) : Before(saved[i], <<second, counter>>)
    BY <1>2 DEF FilesInOrder
  <2> QED BY <2>1, <2>2
<1>5. CASE Tick
  <2>1. \A i \in 1 .. Len(saved) : Before(saved[i], <<second + 1, counter>>)
    BY <1>3, <1>4 DEF Before, FileNames
  <2> QED BY <1>2, <1>5, <2>1 DEF Tick, FilesInOrder, options, history
<1>6. CASE Copies \/ Writes \/ ScandirFails
  <2>1. UNCHANGED <<ringbuffer_size, second, folder, counter, saved, doomed>>
    <3>1. CASE Copies
      BY <3>1 DEF Copies, Goes, options
    <3>2. CASE Writes
      BY <3>2 DEF Writes, Goes, options
    <3>3. CASE ScandirFails
      BY <3>3 DEF ScandirFails, Goes, options
    <3> QED BY <1>6, <3>1, <3>2, <3>3
  <2> QED BY <1>2, <2>1 DEF FilesInOrder
<1>7. CASE Opens
  BY <1>2, <1>7, OpensInOrder
<1>8. CASE Maintains
  <2>1. UNCHANGED <<ringbuffer_size, second, folder, counter, saved>>
    BY <1>8 DEF Maintains, Goes, options
  <2>2. ASSUME NEW i \in 1 .. Len(saved), saved[i] \in doomed'
        PROVE  Len(saved) - i >= ringbuffer_size
    <3>1. CASE doomed' = doomed
      BY <1>2, <2>2, <3>1 DEF FilesInOrder
    <3>2. CASE doomed' = Doomed
      <4>1. saved[i] \in folder /\ Cardinality(Later(saved[i])) >= ringbuffer_size
        BY <2>2, <3>2 DEF Doomed, Later
      <4>2. Cardinality(Later(saved[i])) <= Len(saved) - i /\ Cardinality(Later(saved[i])) \in Nat
        BY <1>2, <4>1, LaterSaved, LaterCounts
      <4> QED BY <1>3, <1>4, <4>1, <4>2
    <3> QED BY <1>8, <3>1, <3>2 DEF Maintains
  <2> QED BY <1>2, <2>1, <2>2 DEF FilesInOrder
<1>9. CASE Unlinks \/ UnlinkFails
  <2>1. /\ UNCHANGED <<ringbuffer_size, second, counter, saved>>
        /\ doomed' \subseteq doomed /\ \A f \in folder : f \in folder' \/ f \in doomed
        /\ doomed # {} => ringbuffer_size >= 0
    BY <1>9 DEF Unlinks, UnlinkFails, Goes, options, FileTypes
  <2>2. ASSUME NEW i \in 1 .. Len(saved),
               ringbuffer_size < 0 \/ Len(saved) - i < ringbuffer_size
        PROVE  saved[i] \in folder'
    <3>1. saved[i] \in folder
      BY <1>2, <2>2 DEF FilesInOrder
    <3>2. saved[i] \notin doomed
      BY <1>2, <1>3, <1>4, <2>1, <2>2 DEF FilesInOrder
    <3> QED BY <2>1, <3>1, <3>2
  <2> QED BY <1>2, <2>1, <2>2 DEF FilesInOrder
<1>10. CASE Restarts
  <2>1. /\ UNCHANGED <<ringbuffer_size, second, folder, saved>> /\ doomed' = {} /\ counter' = 0
        /\ saved = <<>> \/ saved[Len(saved)][1] < second
    BY <1>10 DEF Restarts, options
  <2>2. ASSUME NEW i \in 1 .. Len(saved) PROVE Before(saved[i], <<second, 0>>)
    <3>1. Len(saved) \in 1 .. Len(saved) /\ saved[Len(saved)][1] < second
      BY <1>3, <2>1
    <3>2. i = Len(saved) \/ Before(saved[i], saved[Len(saved)])
      BY <1>2, <1>3, <3>1 DEF FilesInOrder
    <3>3. saved[i] \in FileNames /\ saved[Len(saved)] \in FileNames
      BY <1>3, <3>1
    <3> QED BY <1>4, <3>1, <3>2, <3>3 DEF Before, FileNames
  <2> QED BY <1>2, <2>1, <2>2 DEF FilesInOrder
<1>11. CASE UNCHANGED fileVars
  BY <1>2, <1>11 DEF fileVars, options, history, FilesInOrder
<1> QED
  BY <1>5, <1>6, <1>7, <1>8, <1>9, <1>10, <1>11, FileCases

\* The remainder of a counter grows by one until it begins again.
LEMMA NextRemainder ==
    ASSUME NEW n \in Nat, n > 0, NEW c \in Nat
    PROVE  /\ c % n \in 0 .. n - 1
           /\ (c + 1) % n # 0 => (c + 1) % n = (c % n) + 1
<1>1. c % n \in 0 .. n - 1
  OBVIOUS
<1>2. (c + 1) % n # 0 => (c + 1) % n = (c % n) + 1
  <2> DEFINE d == c \div n
             r == c % n
  <2>1. d \in Nat /\ r \in 0 .. n - 1 /\ c = n * d + r
    OBVIOUS
  <2> HIDE DEF d, r
  <2>2. CASE r = n - 1
    <3>1. c + 1 = n * (d + 1) + 0
      BY <2>1, <2>2
    <3>2. (n * (d + 1) + 0) % n = 0
      <4> DEFINE e == d + 1
      <4>1. e \in Nat
        BY <2>1
      <4> HIDE DEF e
      <4>2. (n * e + 0) % n = 0
        BY <4>1
      <4> QED BY <4>2 DEF e
    <3> QED BY <3>1, <3>2
  <2>3. CASE r # n - 1
    <3> DEFINE s == r + 1
    <3>1. s \in 0 .. n - 1 /\ c + 1 = n * d + s
      BY <2>1, <2>3
    <3> HIDE DEF s
    <3>2. (n * d + s) % n = s
      BY <2>1, <3>1
    <3>3. (c + 1) % n = s
      BY <3>1, <3>2
    <3> QED BY <3>3 DEF s, r
  <2> QED BY <2>2, <2>3
<1> QED BY <1>1, <1>2

\* The number of files only grows by the one that is opened.
LEMMA FolderGrowth ==
    ASSUME FileTypes, [FileNext]_fileVars, FileTypes'
    PROVE  /\ Cardinality(folder) \in Nat /\ Cardinality(folder') \in Nat
           /\ ~Opens => Cardinality(folder') <= Cardinality(folder)
           /\ Opens => Cardinality(folder') <= Cardinality(folder) + 1
<1>1. IsFiniteSet(folder) /\ Cardinality(folder) \in Nat
  BY FolderIsFinite
<1>2. CASE Opens
  <2>1. folder' = folder \/ folder' = folder \cup {<<second, counter>>}
    BY <1>2 DEF Opens
  <2>2. Cardinality(folder') \in {Cardinality(folder), Cardinality(folder) + 1}
    BY <1>1, <2>1, FS_AddElement
  <2> QED BY <1>1, <1>2, <2>2
<1>3. CASE ~Opens
  <2>1. folder' \subseteq folder
    BY <1>3, FileCases DEF Tick, Copies, Writes, Maintains, ScandirFails,
       Unlinks, UnlinkFails, Restarts, fileVars
  <2>2. IsFiniteSet(folder') /\ Cardinality(folder') <= Cardinality(folder)
    BY <1>1, <2>1, FS_Subset
  <2> QED BY <1>1, <1>3, <2>2, FS_CardinalityType
<1> QED BY <1>2, <1>3

\* The number of files stays within what the ring allows.
LEMMA HeldKept ==
    ASSUME FileTypes, ringbuffer_size >= 0, FolderHeld, [FileNext]_fileVars, FileTypes',
           ~undeleted'
    PROVE  FolderHeld'
<1> DEFINE n == Cardinality(folder)
           m == Cardinality(folder')
<1>1. /\ ringbuffer_size \in Nat /\ ringbuffer_exceed \in Nat /\ restarts \in Nat
      /\ counter \in Nat /\ n \in Nat /\ m \in Nat /\ FolderLimit \in Nat
  BY FolderGrowth DEF FileTypes, FolderLimit
<1>2. /\ SinceDue(counter) \in 0 .. ringbuffer_exceed
      /\ counter > 0 => SinceDue(counter - 1) \in 0 .. ringbuffer_exceed
      /\ counter > 0 /\ SinceDue(counter) # 0 => SinceDue(counter) = SinceDue(counter - 1) + 1
  <2>2. \A c \in Nat : /\ SinceDue(c) \in 0 .. ringbuffer_exceed
                       /\ SinceDue(c + 1) # 0 => SinceDue(c + 1) = SinceDue(c) + 1
    <3> DEFINE k == ringbuffer_exceed + 1
    <3>1. k \in Nat /\ k > 0 /\ k - 1 = ringbuffer_exceed /\ \A c : SinceDue(c) = c % k
      BY <1>1 DEF SinceDue
    <3> HIDE DEF k
    <3>2. \A c \in Nat : c % k \in 0 .. k - 1 /\ ((c + 1) % k # 0 => (c + 1) % k = (c % k) + 1)
      BY <3>1, NextRemainder
    <3> QED BY <3>1, <3>2
  <2>3. counter > 0 => counter - 1 \in Nat /\ counter - 1 + 1 = counter
    BY <1>1
  <2> QED BY <1>1, <2>2, <2>3
<1>3. /\ n <= FolderLimit
      /\ worker \in {"wait", "open"} =>
            IF counter = 0 THEN n <= FolderLimit - 1 ELSE n <= ringbuffer_size + SinceDue(counter)
      /\ worker \in {"write", "maintain"} =>
            /\ counter >= 1
            /\ counter > 1 => n <= ringbuffer_size + SinceDue(counter - 1) + 1
      /\ worker = "unlink" =>
            counter >= 1 /\ Cardinality(folder \ doomed) <= ringbuffer_size
  BY DEF FolderHeld
<1> HIDE DEF n, m
<1>4. CASE UNCHANGED <<ringbuffer_size, ringbuffer_exceed, folder, counter, worker, doomed,
                       restarts>>
  BY <1>3, <1>4 DEF FolderHeld, FolderLimit, SinceDue
<1>5. CASE Copies \/ Writes
  <2>1. /\ UNCHANGED <<ringbuffer_size, ringbuffer_exceed, folder, counter, doomed, restarts>>
        /\ \/ worker = "wait" /\ worker' \in {"open", "ended"}
           \/ worker = "write" /\ worker' \in {"maintain", "ended"}
    BY <1>5 DEF Copies, Writes, Goes, options
  <2> QED BY <1>3, <2>1 DEF FolderHeld, FolderLimit, SinceDue
<1>6. CASE Opens
  <2>1. /\ UNCHANGED <<ringbuffer_size, ringbuffer_exceed, restarts>>
        /\ counter' = counter + 1 /\ worker = "open" /\ worker' \in {"write", "ended"}
    BY <1>6 DEF Opens, Goes, options
  <2>2. m <= n + 1 /\ FolderLimit' = FolderLimit
    BY <1>6, <2>1, FolderGrowth DEF FolderLimit, m, n
  <2>3. counter' >= 1 /\ \A c : SinceDue(c)' = SinceDue(c)
    BY <1>1, <2>1 DEF SinceDue
  <2>4. m <= FolderLimit
    <3>1. counter = 0 => n + 1 <= FolderLimit
      BY <1>1, <1>3, <2>1
    <3>2. counter # 0 => n + 1 <= FolderLimit
      BY <1>1, <1>2, <1>3, <2>1 DEF FolderLimit
    <3> QED BY <1>1, <2>2, <3>1, <3>2
  <2>5. counter' > 1 => m <= ringbuffer_size + SinceDue(counter - 1)' + 1
    <3>1. counter' - 1 = counter /\ (counter' > 1 => counter # 0)
      BY <1>1, <2>1
    <3>2. counter' > 1 => m <= ringbuffer_size + SinceDue(counter) + 1
      BY <1>1, <1>2, <1>3, <2>1, <2>2, <3>1
    <3> QED BY <2>3, <3>1, <3>2 DEF SinceDue
  <2> QED BY <2>1, <2>2, <2>4, <2>5, <2>3 DEF FolderHeld, m
<1>7. CASE Maintains
  <2>1. /\ UNCHANGED <<ringbuffer_size, ringbuffer_exceed, folder, counter, restarts>>
        /\ worker = "maintain" /\ FolderLimit' = FolderLimit /\ \A c : SinceDue(c)' = SinceDue(c)
    BY <1>7 DEF Maintains, Goes, options, FolderLimit, SinceDue
  <2>2. CASE Due
    <3>1. doomed' = Doomed /\ worker' = "unlink"
      BY <1>1, <1>7, <2>2 DEF Maintains, Goes
    <3>2. Cardinality(folder' \ doomed') <= ringbuffer_size
      BY <2>1, <3>1, LeftOver
    <3> QED BY <1>3, <2>1, <3>1, <3>2 DEF FolderHeld
  <2>3. CASE ~Due
    <3>1. worker' = "wait"
      BY <1>7, <2>3 DEF Maintains, Goes
    <3>2. counter # 1 /\ SinceDue(counter) # 0
      BY <1>1, <2>3 DEF Due, SinceDue
    <3>3. n <= ringbuffer_size + SinceDue(counter) /\ counter # 0
      BY <1>1, <1>2, <1>3, <2>1, <3>2
    <3> QED BY <1>3, <2>1, <3>1, <3>3 DEF FolderHeld, n, m
  <2> QED BY <2>2, <2>3
<1>8. CASE Unlinks
  <2>1. /\ UNCHANGED <<ringbuffer_size, ringbuffer_exceed, counter, restarts>>
        /\ worker = "unlink" /\ FolderLimit' = FolderLimit /\ m <= n
        /\ \A c : SinceDue(c)' = SinceDue(c)
    BY <1>8, FolderGrowth DEF Unlinks, Opens, Goes, options,
       FolderLimit, SinceDue, m, n
  <2>2. CASE doomed = {}
    <3>1. worker' = "wait" /\ folder' = folder \ doomed
      BY <1>8, <2>2 DEF Unlinks, Goes
    <3>2. m <= ringbuffer_size
      BY <1>3, <2>1, <3>1 DEF m
    <3>3. m <= ringbuffer_size + SinceDue(counter) /\ counter # 0 /\ m <= FolderLimit
      BY <1>1, <1>2, <1>3, <2>1, <3>2
    <3> QED BY <2>1, <3>1, <3>3 DEF FolderHeld, m
  <2>3. CASE doomed # {}
    <3>1. worker' = "unlink" /\ folder' \ doomed' = folder \ doomed
      BY <1>8, <2>3 DEF Unlinks, Goes, FileTypes
    <3>2. m <= FolderLimit
      BY <1>1, <1>3, <2>1
    <3> QED BY <1>3, <2>1, <3>1, <3>2 DEF FolderHeld, m
  <2> QED BY <2>2, <2>3
<1>9. CASE Restarts
  <2>1. /\ UNCHANGED <<ringbuffer_size, ringbuffer_exceed, folder>>
        /\ counter' = 0 /\ worker' = "wait" /\ restarts' = restarts + 1
    BY <1>9 DEF Restarts, options
  <2>2. FolderLimit' - 1 = FolderLimit /\ FolderLimit' = FolderLimit + 1
    BY <1>1, <2>1 DEF FolderLimit
  <2>3. m <= FolderLimit' - 1 /\ m <= FolderLimit'
    BY <1>1, <1>3, <2>1, <2>2 DEF n, m
  <2> QED BY <2>1, <2>3 DEF FolderHeld, m
<1> QED
  BY <1>4, <1>5, <1>6, <1>7, <1>8, <1>9, FileCases
  DEF Tick, ScandirFails, UnlinkFails, fileVars, options, history

\* The folder begins empty.
LEMMA FilesFirst == ASSUME FileInit PROVE FileInv
<1>1. /\ MaxSize \in Nat /\ MaxExceed \in Nat
      /\ MaxSaves \in Nat /\ MaxRestarts \in Nat /\ MaxSecond \in Nat
  BY FileBounds
<1>2. /\ ringbuffer_size \in Int /\ ringbuffer_exceed \in Nat
      /\ second = 0 /\ folder = {} /\ counter = 0 /\ worker = "wait" /\ doomed = {}
      /\ saved = <<>> /\ restarts = 0 /\ apart = TRUE /\ undeleted = FALSE
  BY <1>1 DEF FileInit
<1>3. FileTypes
  <2>1. saved \in Seq(FileNames) /\ Len(saved) = 0
    BY <1>2
  <2>2. apart \in BOOLEAN /\ undeleted \in BOOLEAN
    BY <1>2
  <2>3. /\ counter <= Len(saved) /\ Len(saved) <= MaxSaves /\ second \in 0 .. MaxSecond
        /\ counter \in Nat /\ restarts \in Nat
    BY <1>1, <1>2, <2>1
  <2>4. folder \subseteq {saved[i] : i \in 1 .. Len(saved)} /\ doomed \subseteq folder
    BY <1>2
  <2>5. counter <= Len(saved) + 1
    BY <1>2, <2>1
  <2> QED BY <1>2, <2>1, <2>2, <2>3, <2>4, <2>5 DEF FileTypes
<1>4. FilesInOrder
  BY <1>2 DEF FilesInOrder
<1>5. ringbuffer_size >= 0 => FolderHeld
  <2>1. Cardinality(folder) = 0
    BY <1>2, FS_EmptySet
  <2> QED BY <1>2, <2>1 DEF FolderHeld, FolderLimit
<1> QED BY <1>3, <1>4, <1>5 DEF FileInv

\* Each step keeps the invariant.
LEMMA FilesKept ==
    ASSUME FileInv, [FileNext]_fileVars PROVE FileInv'
<1>1. FileTypes'
  BY FileTypesKept DEF FileInv
<1>2. apart' => FilesInOrder'
  BY OrderKept DEF FileInv
<1>3. ringbuffer_size' = ringbuffer_size /\ (~undeleted' => ~undeleted)
  <2>1. CASE Tick \/ Restarts \/ UNCHANGED fileVars
    BY <2>1 DEF Tick, Restarts, fileVars, options, history
  <2>2. CASE Copies \/ Opens \/ Writes \/ Maintains
    BY <2>2 DEF Copies, Opens, Writes, Maintains, options, Goes
  <2>3. CASE ScandirFails \/ Unlinks \/ UnlinkFails
    BY <2>3 DEF ScandirFails, Unlinks, UnlinkFails, options, Goes
  <2> QED BY <2>1, <2>2, <2>3, FileCases
<1>4. ringbuffer_size' >= 0 /\ ~undeleted' => FolderHeld'
  BY <1>1, <1>3, HeldKept DEF FileInv
<1> QED BY <1>1, <1>2, <1>4 DEF FileInv

\* The invariant holds for any size of the ring, any number of files and runs.
LEMMA FilesInvariance == FileSpec => []FileInv
<1>1. FileInit => FileInv
  BY FilesFirst
<1>2. FileInv /\ [FileNext]_fileVars => FileInv'
  BY FilesKept
<1> QED BY <1>1, <1>2, PTL DEF FileSpec

\* output_file: whatever the size of the ring, and wherever runs end, the
\* pictures saved last are in the folder, as long as each run begins in a later
\* second than the one in which the run before it saved its last file.
THEOREM NewestAlwaysKept == FileSpec => []NewestKept
<1>1. FileInv => NewestKept
  <2> SUFFICES ASSUME FileInv, apart, NEW i \in DOMAIN saved,
                      ringbuffer_size < 0 \/ Len(saved) - i < ringbuffer_size
               PROVE  saved[i] \in folder
    BY DEF NewestKept
  <2>1. i \in 1 .. Len(saved)
    BY DEF FileInv, FileTypes
  <2> QED BY <2>1 DEF FileInv, FilesInOrder
<1> QED BY <1>1, FilesInvariance, PTL

\* output_file: however often the program is started again and wherever its runs
\* end, as long as scandir and unlink succeed the folder has no more files than the ring, its excess, one more, and one
\* for each run that ended.
THEOREM RingAlwaysBounded == FileSpec => []BoundedRing
<1>1. FileInv => BoundedRing
  <2> SUFFICES ASSUME FileInv, ringbuffer_size >= 0, ~undeleted
               PROVE  Cardinality(folder) <=
                         ringbuffer_size + (IF ringbuffer_exceed > 0 THEN ringbuffer_exceed ELSE 0)
                            + 1 + restarts
    BY DEF BoundedRing
  <2>1. ringbuffer_exceed \in Nat
    BY DEF FileInv, FileTypes
  <2> QED BY <2>1 DEF FileInv, FolderHeld, FolderLimit
<1> QED BY <1>1, FilesInvariance, PTL

\* Types of the worker, the folder and its history.
THEOREM FilesTyped == FileSpec => []FileTypeOK
<1>1. FileInv => FileTypeOK
  <2> SUFFICES ASSUME FileInv PROVE FileTypeOK
    OBVIOUS
  <2>1. MaxSaves \in Nat /\ DOMAIN saved = 1 .. Len(saved)
    BY FileBounds DEF FileInv, FileTypes
  <2> QED BY <2>1 DEF FileInv, FileTypes, FileTypeOK
<1> QED BY <1>1, FilesInvariance, PTL
================================================================================
