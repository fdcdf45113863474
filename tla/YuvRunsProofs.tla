---------------------------- MODULE YuvRunsProofs ----------------------------
(***************************************************************************)
(* For every width that is a multiple of 4, run detection stays inside the *)
(* two arrays its caller allocates and yields separated runs that cover    *)
(* what they should.  ArraysFit is not inductive: it holds because finished*)
(* runs and open runs occupy columns, which is what IInv counts.  What the *)
(* runs cover is followed column by column, in UvPixels and YuvPixels.     *)
(***************************************************************************)
EXTENDS YuvRuns, SequenceTheorems, TLAPS

\* Chroma phase: the finished Uv_Runs end before jj, in order.
UvOrder ==
    /\ jj % 2 = 0
    /\ \A i \in 1 .. Len(uv_run) :
          uv_run[i].run_low < uv_run[i].run_high /\ uv_run[i].run_high < jj
    /\ \A i, j \in 1 .. Len(uv_run) : i < j => uv_run[i].run_high < uv_run[j].run_low
    /\ phase = "uv_run" =>
          /\ low + 2 <= jj
          /\ \A i \in 1 .. Len(uv_run) : uv_run[i].run_high < low

\* Each finished Uv_Run took 2 columns and is followed by a sample of 2 more.
UvCount ==
    /\ phase = "uv_run" => 4 * Len(uv_run) + 2 <= jj
    /\ phase = "uv_search" => \/ 4 * Len(uv_run) <= jj
                              \/ 4 * Len(uv_run) - 2 <= jj /\ ~UvGoesOn
    /\ 4 * Len(uv_run) <= RowCols + 2

\* Luma phase: yi is inside, or one past, the current Uv_Run.
InUvRun ==
    /\ phase \in {"uv_search", "uv_run"} => yuv_run = <<>> /\ yi = 0 /\ uvi = 1
    /\ phase \in {"y_search", "y_run"} =>
          /\ uvi \in 1 .. Len(uv_run)
          /\ uv_run[uvi].run_low <= yi /\ yi <= uv_run[uvi].run_high

\* The finished Yuv_Runs end before yi, or at a yi where no run can start.
YuvOrder ==
    /\ \A i \in 1 .. Len(yuv_run) : yuv_run[i].run_low < yuv_run[i].run_high
    /\ \A i, j \in 1 .. Len(yuv_run) : i < j => yuv_run[i].run_high < yuv_run[j].run_low
    /\ phase = "y_search" =>
          \A i \in 1 .. Len(yuv_run) :
             \/ yuv_run[i].run_high < yi
             \/ yuv_run[i].run_high = yi /\ ~YGoesOn
    /\ phase = "y_run" =>
          /\ low < yi
          /\ \A i \in 1 .. Len(yuv_run) : yuv_run[i].run_high < low

\* Each finished Yuv_Run took a column and is followed by another.
YuvCount ==
    /\ phase = "y_run" => 2 * Len(yuv_run) + 1 <= yi
    /\ phase = "y_search" => \/ 2 * Len(yuv_run) <= yi
                             \/ 2 * Len(yuv_run) - 1 <= yi /\ ~YGoesOn
    /\ 2 * Len(yuv_run) <= RowCols + 1

IInv == RunsTypeOK /\ UvOrder /\ UvCount /\ InUvRun /\ YuvOrder /\ YuvCount

-----------------------------------------------------------------------------

\* Appending one run to a list of runs: its length, its old and its new entry.
LEMMA AppendRun ==
    ASSUME NEW s \in RunSeq, NEW l \in Columns, NEW h \in 0 .. RowCols
    PROVE  /\ Append(s, Run(l, h)) \in RunSeq
           /\ Len(Append(s, Run(l, h))) = Len(s) + 1
           /\ \A i \in 1 .. Len(s) : Append(s, Run(l, h))[i] = s[i]
           /\ Append(s, Run(l, h))[Len(s) + 1].run_low = l
           /\ Append(s, Run(l, h))[Len(s) + 1].run_high = h
<1>1. Run(l, h) \in [run_low : Columns, run_high : 0 .. RowCols]
  BY DEF Run
<1> QED BY <1>1 DEF RunSeq, Run

\* The entries of a list of runs are runs.
LEMMA RunTypes ==
    ASSUME NEW s \in RunSeq
    PROVE  /\ Len(s) \in Nat
           /\ \A i \in 1 .. Len(s) : /\ s[i].run_low \in Columns
                                   /\ s[i].run_high \in 0 .. RowCols
<1>1. s \in Seq([run_low : Columns, run_high : 0 .. RowCols])
  BY DEF RunSeq
<1>2. Len(s) \in Nat
  BY <1>1
<1>3. ASSUME NEW i \in 1 .. Len(s)
      PROVE  s[i].run_low \in Columns /\ s[i].run_high \in 0 .. RowCols
  <2>1. s[i] \in [run_low : Columns, run_high : 0 .. RowCols]
    BY <1>1, ElementOfSeq
  <2> QED BY <2>1
<1> QED BY <1>2, <1>3

\* An even column before the end is followed by a whole sample.
LEMMA EvenStep ==
    ASSUME NEW n \in Nat, n % 2 = 0, n < RowCols
    PROVE  n + 2 <= RowCols /\ (n + 2) % 2 = 0 /\ n \in Columns
<1>1. RowCols \in Nat /\ RowCols % 2 = 0
  BY RowColsAssumption
<1> QED BY <1>1 DEF Columns

\* The invariant holds before the first column is read.
LEMMA InitInv == RunsInit => IInv
<1> SUFFICES ASSUME RunsInit PROVE IInv
  OBVIOUS
<1>1. RowCols \in Nat /\ RowCols > 0
  BY RowColsAssumption
<1>2. /\ uv_run = <<>> /\ yuv_run = <<>> /\ Len(uv_run) = 0 /\ Len(yuv_run) = 0
      /\ jj = 0 /\ low = 0 /\ yi = 0 /\ uvi = 1 /\ phase = "uv_search"
  BY DEF RunsInit
<1>3. RunsTypeOK
  BY <1>1, <1>2 DEF RunsInit, RunsTypeOK, RunSeq, Columns
<1> QED
  BY <1>1, <1>2, <1>3 DEF IInv, UvOrder, UvCount, InUvRun, YuvOrder, YuvCount

\* The tail of detect_yuv_runs_in_row's loop leaves yi where it is inside the
\* current Uv_Run, ends the row, or moves on past the gap to the next Uv_Run.
LEMMA NextUv ==
    ASSUME IInv, phase \in {"y_search", "y_run"}, NextUvOrLoop
    PROVE  \/ yi < UvHigh /\ phase' = "y_search" /\ uvi' = uvi /\ yi' = yi
           \/ yi = UvHigh /\ phase' = "done" /\ uvi' = uvi + 1 /\ yi' = yi /\ uvi = Len(uv_run)
           \/ /\ yi = UvHigh /\ phase' = "y_search" /\ uvi' = uvi + 1
              /\ uvi + 1 \in 1 .. Len(uv_run) /\ yi < yi' /\ yi' \in Columns
              /\ uv_run[uvi + 1].run_low = yi' /\ yi' <= uv_run[uvi + 1].run_high
<1>1. /\ RunsTypeOK /\ RowCols \in Nat /\ uv_run \in RunSeq
      /\ uvi \in 1 .. Len(uv_run) /\ yi <= UvHigh /\ yi \in Nat
  BY RowColsAssumption DEF IInv, RunsTypeOK, InUvRun, UvHigh
<1>2. /\ Len(uv_run) \in Nat
      /\ \A i \in 1 .. Len(uv_run) : /\ uv_run[i].run_low \in Columns
                                   /\ uv_run[i].run_high \in 0 .. RowCols
  BY <1>1, RunTypes
<1>3. CASE yi < UvHigh
  BY <1>1, <1>2, <1>3 DEF NextUvOrLoop, UvHigh
<1>4. CASE yi = UvHigh /\ uvi = Len(uv_run)
  BY <1>1, <1>2, <1>4 DEF NextUvOrLoop, UvHigh
<1>5. CASE yi = UvHigh /\ uvi < Len(uv_run)
  <2>1. /\ uvi' = uvi + 1 /\ uvi + 1 \in 1 .. Len(uv_run) /\ phase' = "y_search"
        /\ yi' = uv_run[uvi + 1].run_low
    BY <1>1, <1>2, <1>5 DEF NextUvOrLoop
  <2>2. uv_run[uvi].run_high < uv_run[uvi + 1].run_low
    BY <1>1, <1>2, <2>1 DEF IInv, UvOrder
  <2>3. uv_run[uvi + 1].run_low < uv_run[uvi + 1].run_high
    BY <1>1, <1>2, <2>1 DEF IInv, UvOrder
  <2> QED BY <1>1, <1>2, <1>5, <2>1, <2>2, <2>3 DEF UvHigh, Columns
<1> QED BY <1>1, <1>2, <1>3, <1>4, <1>5 DEF UvHigh

\* Every turn of a loop keeps it.
LEMMA NextInv == IInv /\ [RunsNext]_runVars => IInv'
<1> SUFFICES ASSUME IInv, [RunsNext]_runVars PROVE IInv'
  OBVIOUS
<1>0. RunsTypeOK /\ RowCols \in Nat /\ RowCols > 0
  BY RowColsAssumption DEF IInv
<1>t. /\ Len(uv_run) \in Nat /\ Len(yuv_run) \in Nat
      /\ \A i \in 1 .. Len(uv_run) : /\ uv_run[i].run_low \in Columns
                                   /\ uv_run[i].run_high \in 0 .. RowCols
      /\ \A i \in 1 .. Len(yuv_run) : /\ yuv_run[i].run_low \in Columns
                                    /\ yuv_run[i].run_high \in 0 .. RowCols
  BY <1>0, RunTypes DEF RunsTypeOK
<1>1. CASE SearchUv
  <2> USE <1>0, <1>1 DEF SearchUv
  <2>1. jj \in Nat /\ jj + 2 <= RowCols /\ (jj + 2) % 2 = 0 /\ jj \in Columns
    BY EvenStep DEF IInv, RunsTypeOK, UvOrder
  <2>2. RunsTypeOK'
    BY <2>1 DEF RunsTypeOK
  <2>a. \A i \in 1 .. Len(uv_run) : uv_run[i].run_high < jj
    BY DEF IInv, UvOrder
  <2>3. UvOrder'
    <3>1. \A i \in 1 .. Len(uv_run) : uv_run[i].run_high < jj + 2
      BY <1>t, <2>1, <2>a
    <3> QED BY <1>t, <2>1, <2>a, <3>1 DEF IInv, UvOrder
  <2>4. UvCount'
    BY <2>1 DEF IInv, RunsTypeOK, UvCount, UvGoesOn
  <2>5. InUvRun' /\ YuvOrder' /\ YuvCount'
    BY DEF IInv, RunsTypeOK, InUvRun, YuvOrder, YuvCount
  <2> QED BY <2>2, <2>3, <2>4, <2>5 DEF IInv
<1>2. CASE ExtendUv
  <2> USE <1>0, <1>2 DEF ExtendUv
  <2>1. jj \in Nat /\ jj + 2 <= RowCols /\ (jj + 2) % 2 = 0
    BY EvenStep DEF IInv, RunsTypeOK, UvOrder, UvGoesOn
  <2>2. RunsTypeOK'
    BY <2>1 DEF RunsTypeOK
  <2>3. UvOrder'
    BY <1>t, <2>1 DEF IInv, RunsTypeOK, UvOrder, Columns
  <2>4. UvCount'
    BY <2>1 DEF IInv, RunsTypeOK, UvCount, UvGoesOn
  <2>5. InUvRun' /\ YuvOrder' /\ YuvCount'
    BY DEF IInv, RunsTypeOK, InUvRun, YuvOrder, YuvCount
  <2> QED BY <2>2, <2>3, <2>4, <2>5 DEF IInv
<1>3. CASE StopUv
  <2> USE <1>0, <1>3 DEF StopUv
  <2>1. /\ low + 2 <= jj /\ low \in Columns /\ jj \in 0 .. RowCols
        /\ jj - 1 \in 0 .. RowCols /\ uv_run \in RunSeq
    BY DEF IInv, RunsTypeOK, UvOrder, Columns
  <2>2. /\ uv_run' \in RunSeq
        /\ Len(uv_run') = Len(uv_run) + 1
        /\ \A i \in 1 .. Len(uv_run) : uv_run'[i] = uv_run[i]
        /\ uv_run'[Len(uv_run) + 1].run_low = low
        /\ uv_run'[Len(uv_run) + 1].run_high = jj - 1
    BY <2>1, AppendRun
  <2>3. RunsTypeOK'
    BY <2>2 DEF IInv, RunsTypeOK, InUvRun
  <2>4. UvOrder'
    <3>1. \A i \in 1 .. Len(uv_run') : /\ uv_run'[i].run_low < uv_run'[i].run_high
                                     /\ uv_run'[i].run_high < jj
      <4> SUFFICES ASSUME NEW i \in 1 .. Len(uv_run')
                   PROVE  /\ uv_run'[i].run_low < uv_run'[i].run_high
                          /\ uv_run'[i].run_high < jj
        OBVIOUS
      <4>1. CASE i = Len(uv_run) + 1
        BY <2>1, <2>2, <4>1 DEF Columns
      <4>2. CASE i \in 1 .. Len(uv_run)
        BY <2>2, <4>2 DEF IInv, UvOrder
      <4> QED BY <1>t, <2>2, <4>1, <4>2
    <3>2. \A i, j \in 1 .. Len(uv_run') :
             i < j => uv_run'[i].run_high < uv_run'[j].run_low
      <4> SUFFICES ASSUME NEW i \in 1 .. Len(uv_run'), NEW j \in 1 .. Len(uv_run'),
                          i < j
                   PROVE  uv_run'[i].run_high < uv_run'[j].run_low
        OBVIOUS
      <4>1. i \in 1 .. Len(uv_run) /\ uv_run'[i] = uv_run[i]
        BY <1>t, <2>2
      <4>2. CASE j = Len(uv_run) + 1
        BY <2>2, <4>1, <4>2 DEF IInv, UvOrder
      <4>3. CASE j \in 1 .. Len(uv_run)
        BY <2>2, <4>1, <4>3 DEF IInv, UvOrder
      <4>4. Len(uv_run') = Len(uv_run) + 1 /\ Len(uv_run) \in Nat
        BY <1>t, <2>2
      <4>5. j = Len(uv_run) + 1 \/ j \in 1 .. Len(uv_run)
        BY <4>4
      <4> QED BY <4>2, <4>3, <4>5
    <3> QED BY <3>1, <3>2 DEF IInv, UvOrder
  <2>5. UvCount'
    BY <2>2 DEF IInv, RunsTypeOK, UvCount, UvGoesOn
  <2>6. InUvRun' /\ YuvOrder' /\ YuvCount'
    BY DEF IInv, RunsTypeOK, InUvRun, YuvOrder, YuvCount
  <2> QED BY <2>3, <2>4, <2>5, <2>6 DEF IInv
<1>4. CASE StartY
  <2> USE <1>0, <1>4 DEF StartY
  <2>1. uv_run \in RunSeq /\ Len(uv_run) \in Nat /\ (uv_run # <<>> => Len(uv_run) >= 1)
    BY DEF RunsTypeOK, RunSeq
  <2>2. uv_run # <<>> => uv_run[1].run_low \in Columns /\ uv_run[1].run_high \in 0 .. RowCols
    BY <1>t, <2>1
  <2>3. RunsTypeOK'
    BY <2>1, <2>2 DEF IInv, RunsTypeOK, Columns
  <2>4. UvOrder' /\ UvCount'
    BY <2>1 DEF IInv, RunsTypeOK, UvOrder, UvCount
  <2>5. yuv_run = <<>> /\ Len(yuv_run) = 0 /\ uvi = 1
    BY DEF IInv, InUvRun
  <2>6. InUvRun'
    BY <2>1, <2>2, <2>5 DEF IInv, RunsTypeOK, UvOrder, InUvRun, Columns
  <2>7. YuvOrder'
    BY <2>5 DEF YuvOrder
  <2>8. YuvCount'
    BY <2>5, <2>2, <2>3 DEF YuvCount, RunsTypeOK
  <2> QED BY <2>3, <2>4, <2>6, <2>7, <2>8 DEF IInv
<1>5. CASE SkipY
  <2> USE <1>0, <1>5 DEF SkipY
  <2>1. /\ uvi \in 1 .. Len(uv_run) /\ yi <= UvHigh /\ yi \in Nat
        /\ uv_run[uvi].run_low \in Columns /\ UvHigh \in 0 .. RowCols
    BY <1>t DEF IInv, RunsTypeOK, InUvRun, UvHigh
  <2>2. RunsTypeOK'
    BY <2>1 DEF RunsTypeOK, UvHigh
  <2>3. UvOrder' /\ UvCount'
    BY DEF IInv, RunsTypeOK, UvOrder, UvCount
  <2>4. InUvRun'
    BY <2>1 DEF IInv, RunsTypeOK, InUvRun, UvHigh, Columns
  <2>5. YuvOrder'
    BY <1>t, <2>1 DEF IInv, RunsTypeOK, YuvOrder, YGoesOn
  <2>6. YuvCount'
    BY <1>t, <2>1 DEF IInv, RunsTypeOK, YuvCount, YGoesOn
  <2> QED BY <2>2, <2>3, <2>4, <2>5, <2>6 DEF IInv
<1>6. CASE OpenYuv
  <2> USE <1>0, <1>6 DEF OpenYuv, YGoesOn, UvHigh
  <2>1. /\ uvi \in 1 .. Len(uv_run) /\ yi <= UvHigh /\ yi \in Nat
        /\ uv_run[uvi].run_low \in Columns /\ UvHigh \in 0 .. RowCols
    BY <1>t DEF IInv, RunsTypeOK, InUvRun, UvHigh
  <2>2. RunsTypeOK'
    BY <2>1 DEF RunsTypeOK, Columns
  <2>3. UvOrder' /\ UvCount'
    BY DEF IInv, RunsTypeOK, UvOrder, UvCount
  <2>4. InUvRun'
    BY <2>1 DEF IInv, RunsTypeOK, InUvRun, Columns
  <2>5. YuvOrder'
    BY <1>t, <2>1 DEF IInv, RunsTypeOK, YuvOrder
  <2>6. YuvCount'
    BY <2>1 DEF IInv, RunsTypeOK, YuvCount
  <2> QED BY <2>2, <2>3, <2>4, <2>5, <2>6 DEF IInv
<1>7. CASE ExtendYuv
  <2> USE <1>0, <1>7 DEF ExtendYuv, YGoesOn, UvHigh
  <2>1. /\ uvi \in 1 .. Len(uv_run) /\ yi <= UvHigh /\ yi \in Nat
        /\ uv_run[uvi].run_low \in Columns /\ UvHigh \in 0 .. RowCols
    BY <1>t DEF IInv, RunsTypeOK, InUvRun, UvHigh
  <2>2. RunsTypeOK'
    BY <2>1 DEF RunsTypeOK
  <2>3. UvOrder' /\ UvCount'
    BY DEF IInv, RunsTypeOK, UvOrder, UvCount
  <2>4. InUvRun'
    BY <2>1 DEF IInv, RunsTypeOK, InUvRun, Columns
  <2>5. YuvOrder'
    BY <1>t, <2>1 DEF IInv, RunsTypeOK, YuvOrder, Columns
  <2>6. YuvCount'
    BY <1>t, <2>1 DEF IInv, RunsTypeOK, YuvCount
  <2> QED BY <2>2, <2>3, <2>4, <2>5, <2>6 DEF IInv
<1>8. CASE CloseYuv
  <2> USE <1>0, <1>8 DEF CloseYuv
  <2>1. /\ uvi \in 1 .. Len(uv_run) /\ yi <= UvHigh /\ UvHigh \in 0 .. RowCols
        /\ low < yi /\ low \in Columns /\ yi \in 0 .. RowCols /\ yuv_run \in RunSeq
    BY <1>t DEF IInv, RunsTypeOK, InUvRun, UvHigh, YuvOrder
  <2>2. /\ yuv_run' \in RunSeq
        /\ Len(yuv_run') = Len(yuv_run) + 1
        /\ \A i \in 1 .. Len(yuv_run) : yuv_run'[i] = yuv_run[i]
        /\ yuv_run'[Len(yuv_run) + 1].run_low = low
        /\ yuv_run'[Len(yuv_run) + 1].run_high = yi
    BY <2>1, AppendRun
  <2>3. UvOrder' /\ UvCount'
    BY DEF IInv, RunsTypeOK, UvOrder, UvCount, NextUvOrLoop
  <2>4. \/ yi < UvHigh /\ phase' = "y_search" /\ uvi' = uvi /\ yi' = yi
        \/ yi = UvHigh /\ phase' = "done" /\ uvi' = uvi + 1 /\ yi' = yi
        \/ /\ yi = UvHigh /\ phase' = "y_search" /\ uvi' = uvi + 1
           /\ uvi + 1 \in 1 .. Len(uv_run) /\ yi < yi' /\ yi' \in Columns
           /\ uv_run[uvi + 1].run_low = yi' /\ yi' <= uv_run[uvi + 1].run_high
    BY NextUv
  <2>5. RunsTypeOK'
    BY <1>t, <2>1, <2>2, <2>4 DEF RunsTypeOK, Columns
  <2>6. InUvRun'
    <3>1. uv_run[uvi].run_low <= yi /\ uv_run' = uv_run /\ phase' \notin {"uv_search", "uv_run"}
      BY <2>4 DEF IInv, InUvRun
    <3>2. CASE yi < UvHigh
      BY <2>1, <2>4, <3>1, <3>2 DEF InUvRun, UvHigh
    <3>3. CASE ~(yi < UvHigh)
      BY <2>1, <2>4, <3>1, <3>3 DEF InUvRun, Columns
    <3> QED BY <3>2, <3>3
  <2>7. /\ ~YGoesOn /\ yi' \in Nat
        /\ \/ yi < yi'
           \/ yi' = yi /\ (phase' = "y_search" => ~YGoesOn')
    <3>1. ~YGoesOn
      OBVIOUS
    <3>2. CASE uvi' = uvi /\ yi' = yi
      BY <2>1, <3>1, <3>2 DEF YGoesOn, UvHigh
    <3>3. CASE phase' = "done" /\ yi' = yi
      BY <2>1, <3>1, <3>3
    <3>4. CASE yi < yi' /\ yi' \in Columns
      <4>1. yi' \in Nat
        BY <3>4 DEF Columns
      <4> QED BY <3>1, <3>4, <4>1
    <3> QED BY <2>4, <3>2, <3>3, <3>4
  <2>8. YuvOrder'
    <3>1. \A i \in 1 .. Len(yuv_run') : /\ yuv_run'[i].run_low < yuv_run'[i].run_high
                                      /\ yuv_run'[i].run_high <= yi
      BY <1>t, <2>1, <2>2 DEF IInv, YuvOrder, Columns
    <3>2. \A i, j \in 1 .. Len(yuv_run') :
             i < j => yuv_run'[i].run_high < yuv_run'[j].run_low
      <4> SUFFICES ASSUME NEW i \in 1 .. Len(yuv_run'), NEW j \in 1 .. Len(yuv_run'),
                          i < j
                   PROVE  yuv_run'[i].run_high < yuv_run'[j].run_low
        OBVIOUS
      <4>1. i \in 1 .. Len(yuv_run) /\ yuv_run'[i] = yuv_run[i]
        BY <1>t, <2>2
      <4>2. CASE j = Len(yuv_run) + 1
        BY <2>2, <4>1, <4>2 DEF IInv, YuvOrder
      <4>3. CASE j \in 1 .. Len(yuv_run)
        BY <2>2, <4>1, <4>3 DEF IInv, YuvOrder
      <4> QED BY <1>t, <2>2, <4>2, <4>3
    <3>3. \A i \in 1 .. Len(yuv_run') : yuv_run'[i].run_high \in 0 .. RowCols
      BY <1>t, <2>1, <2>2
    <3>4. phase' # "y_run"
      BY <2>4
    <3> QED BY <2>1, <2>7, <3>1, <3>2, <3>3, <3>4 DEF YuvOrder
  <2>9. YuvCount'
    <3>1. 2 * Len(yuv_run) + 1 <= yi
      BY DEF IInv, YuvCount
    <3> QED BY <1>t, <2>1, <2>2, <2>4, <2>7, <3>1 DEF YuvCount
  <2> QED BY <2>3, <2>5, <2>6, <2>8, <2>9 DEF IInv
<1>9. CASE LeaveUv
  <2> USE <1>0, <1>9 DEF LeaveUv
  <2>1. /\ uvi \in 1 .. Len(uv_run) /\ yi = UvHigh /\ UvHigh \in 0 .. RowCols
        /\ yi \in 0 .. RowCols
    BY <1>t DEF IInv, RunsTypeOK, InUvRun, UvHigh
  <2>2. UvOrder' /\ UvCount'
    BY DEF IInv, RunsTypeOK, UvOrder, UvCount, NextUvOrLoop
  <2>3. \/ phase' = "done" /\ uvi' = uvi + 1 /\ yi' = yi
        \/ /\ phase' = "y_search" /\ uvi' = uvi + 1
           /\ uvi + 1 \in 1 .. Len(uv_run) /\ yi < yi' /\ yi' \in Columns
           /\ uv_run[uvi + 1].run_low = yi' /\ yi' <= uv_run[uvi + 1].run_high
    BY <2>1, NextUv
  <2>4. RunsTypeOK'
    BY <1>t, <2>1, <2>3 DEF IInv, RunsTypeOK, InUvRun, Columns
  <2>5. InUvRun'
    <3>1. uv_run' = uv_run /\ phase' \notin {"uv_search", "uv_run"}
      BY <2>3
    <3> QED BY <2>3, <3>1 DEF InUvRun, Columns
  <2>6. YuvOrder'
    BY <1>t, <2>1, <2>3 DEF IInv, YuvOrder, Columns
  <2>7. YuvCount'
    BY <1>t, <2>1, <2>3 DEF IInv, YuvCount, Columns
  <2> QED BY <2>2, <2>4, <2>5, <2>6, <2>7 DEF IInv
<1>10. CASE UNCHANGED runVars
  BY <1>10 DEF runVars, IInv, RunsTypeOK, UvOrder, UvCount, InUvRun, YuvOrder, YuvCount,
               UvGoesOn, YGoesOn, UvHigh
<1> QED
  BY <1>1, <1>2, <1>3, <1>4, <1>5, <1>6, <1>7, <1>8, <1>9, <1>10 DEF RunsNext

\* IInv holds throughout, whatever the row holds.
THEOREM Inductive == RunsSpec => []IInv
<1>1. RunsInit => IInv
  BY InitInv
<1>2. IInv /\ [RunsNext]_runVars => IInv'
  BY NextInv
<1> QED BY <1>1, <1>2, PTL DEF RunsSpec

\* create_uv_run_sequence and detect_yuv_runs_in_row keep every variable in its
\* type: no column outside the row is ever read.
THEOREM TypeCorrect == RunsSpec => []RunsTypeOK
<1>1. IInv => RunsTypeOK
  BY DEF IInv
<1> QED BY <1>1, Inductive, PTL

\* For every width that is a multiple of 4 the arrays of cols / 4 Uv_Runs and
\* cols / 2 Yuv_Runs that detect_color_blobs allocates are never overrun.
THEOREM NoOverrun == RunsSpec => []ArraysFit
<1>1. IInv => ArraysFit
  <2> SUFFICES ASSUME IInv PROVE ArraysFit
    OBVIOUS
  <2>1. Len(uv_run) \in Nat /\ Len(yuv_run) \in Nat
    BY RunTypes DEF IInv, RunsTypeOK
  <2>2. /\ 4 * Len(uv_run) <= RowCols + 2
        /\ phase = "uv_run" => 4 * Len(uv_run) + 2 <= RowCols
    BY <2>1, RowColsAssumption DEF IInv, RunsTypeOK, UvCount
  <2>3. /\ 2 * Len(yuv_run) <= RowCols + 1
        /\ phase = "y_run" => 2 * Len(yuv_run) + 1 <= RowCols
    BY <2>1, RowColsAssumption DEF IInv, RunsTypeOK, YuvCount
  <2> QED BY <2>1, <2>2, <2>3, RowColsAssumption DEF ArraysFit, MaxUvRuns, MaxYuvRuns
<1> QED BY <1>1, Inductive, PTL

\* The runs of a row are non-empty, in order and never touch, at any width.
THEOREM AlwaysSeparated == RunsSpec => []RunsSeparated
<1>1. IInv => RunsSeparated
  <2>1. ASSUME NEW s \in RunSeq PROVE DOMAIN s = 1 .. Len(s)
    BY DEF RunSeq
  <2> QED BY <2>1 DEF IInv, RunsTypeOK, UvOrder, YuvOrder, RunsSeparated, Separated
<1> QED BY <1>1, Inductive, PTL

-----------------------------------------------------------------------------
(* What the runs cover *)

InRuns(x, runs) == \E i \in 1 .. Len(runs) : runs[i].run_low <= x /\ x < runs[i].run_high

\* A column whose chroma is in threshold and which is not the last of a stretch.
Kept(x) == uvIn[x \div 2] /\ (x % 2 = 1 => x + 1 < RowCols /\ uvIn[(x + 1) \div 2])

\* The Uv_Runs are the kept columns before the last sample that was read, of
\* which the second column is known only with the next sample.
UvPixels ==
    /\ phase = "uv_search" => \A x \in Columns : x < jj => (InRuns(x, uv_run) <=> Kept(x))
    /\ phase = "uv_run" =>
          /\ uvIn[(jj - 1) \div 2]
          /\ \A x \in Columns : x < jj - 1 => ((InRuns(x, uv_run) \/ low <= x) <=> Kept(x))
    /\ phase \notin {"uv_search", "uv_run"} => \A x \in Columns : InRuns(x, uv_run) <=> Kept(x)

Wanted(x) == InRuns(x, uv_run) /\ yIn[x]

\* The Yuv_Runs are the columns of the Uv_Runs before yi whose y is in threshold.
YuvPixels ==
    /\ phase = "y_search" => \A x \in Columns : x < yi => (InRuns(x, yuv_run) <=> Wanted(x))
    /\ phase = "y_run" => \A x \in Columns : x < yi => ((InRuns(x, yuv_run) \/ low <= x) <=> Wanted(x))
    /\ phase = "done" => \A x \in Columns : InRuns(x, yuv_run) <=> Wanted(x)

\* A run that is appended adds its columns.
LEMMA InAppend ==
    ASSUME NEW s \in RunSeq, NEW l \in Columns, NEW h \in 0 .. RowCols, NEW x
    PROVE  InRuns(x, Append(s, Run(l, h))) <=> InRuns(x, s) \/ (l <= x /\ x < h)
<1> DEFINE t == Append(s, Run(l, h))
<1>1. /\ Len(t) = Len(s) + 1 /\ Len(s) \in Nat
      /\ \A i \in 1 .. Len(s) : t[i] = s[i]
      /\ t[Len(s) + 1].run_low = l /\ t[Len(s) + 1].run_high = h
  BY AppendRun, RunTypes
<1> HIDE DEF t
<1>2. 1 .. Len(t) = (1 .. Len(s)) \cup {Len(s) + 1}
  BY <1>1
<1>3. InRuns(x, t) <=> InRuns(x, s) \/ (l <= x /\ x < h)
  BY <1>1, <1>2 DEF InRuns
<1> QED BY <1>3 DEF t

\* The two columns of a sample: the first is kept with it, the second with the
\* next sample.
LEMMA KeptPair ==
    ASSUME NEW j \in Nat, j % 2 = 0
    PROVE  /\ (j + 1) \div 2 = j \div 2
           /\ Kept(j) <=> uvIn[j \div 2]
           /\ Kept(j + 1) <=> (uvIn[j \div 2] /\ j + 2 < RowCols /\ uvIn[(j + 2) \div 2])
<1>1. (j + 1) \div 2 = j \div 2 /\ (j + 1) % 2 = 1 /\ (j + 1) + 1 = j + 2 /\ j % 2 # 1
  OBVIOUS
<1> QED BY <1>1 DEF Kept

\* create_uv_run_sequence finds the kept columns.
LEMMA NextUvPixels ==
    ASSUME IInv, UvPixels, [RunsNext]_runVars
    PROVE  UvPixels'
<1>1. /\ RunsTypeOK /\ RowCols \in Nat /\ RowCols % 2 = 0 /\ jj \in 0 .. RowCols /\ jj % 2 = 0 /\ uv_run \in RunSeq
      /\ \A x \in Columns : x \in Nat /\ x < RowCols
  <2>1. RowCols \in Nat /\ RowCols % 2 = 0
    BY RowColsAssumption
  <2>2. \A x \in Columns : x \in Nat /\ x < RowCols
    BY <2>1 DEF Columns
  <2> QED BY <2>1, <2>2 DEF IInv, RunsTypeOK, UvOrder
<1>2. /\ Len(uv_run) \in Nat
      /\ \A i \in 1 .. Len(uv_run) : /\ uv_run[i].run_low \in Columns
                                   /\ uv_run[i].run_high \in 0 .. RowCols
                                   /\ uv_run[i].run_high < jj
  BY <1>1, RunTypes DEF IInv, UvOrder
<1>3. \A x \in Nat : x >= jj => ~InRuns(x, uv_run)
  <2> SUFFICES ASSUME NEW x \in Nat, NEW i \in 1 .. Len(uv_run), x < uv_run[i].run_high PROVE x < jj
    BY <1>1 DEF InRuns
  <2>1. uv_run[i].run_high \in 0 .. RowCols /\ uv_run[i].run_high < jj
    BY <1>2
  <2> QED BY <1>1, <2>1
<1>4. /\ (jj + 1) \div 2 = jj \div 2
      /\ Kept(jj) <=> uvIn[jj \div 2]
      /\ Kept(jj + 1) <=> (uvIn[jj \div 2] /\ jj + 2 < RowCols /\ uvIn[(jj + 2) \div 2])
  BY <1>1, KeptPair
<1>5. jj > 0 => (Kept(jj - 1) <=> (uvIn[(jj - 1) \div 2] /\ jj < RowCols /\ uvIn[jj \div 2]))
  <2> SUFFICES ASSUME jj > 0
               PROVE  Kept(jj - 1) <=> (uvIn[(jj - 1) \div 2] /\ jj < RowCols /\ uvIn[jj \div 2])
    OBVIOUS
  <2> DEFINE j == jj - 2
  <2>1. j \in Nat /\ j % 2 = 0 /\ j + 1 = jj - 1 /\ j + 2 = jj
    BY <1>1
  <2> HIDE DEF j
  <2> QED BY <2>1, KeptPair
<1>6. CASE SearchUv
  <2>1. phase = "uv_search" /\ jj < RowCols /\ jj' = jj + 2 /\ UNCHANGED <<uvIn, uv_run>>
    BY <1>6 DEF SearchUv
  <2>2. \A x \in Columns : x < jj => (InRuns(x, uv_run) <=> Kept(x))
    BY <2>1 DEF UvPixels
  <2>3. \A x : InRuns(x, uv_run)' = InRuns(x, uv_run) /\ Kept(x)' = Kept(x)
    BY <2>1 DEF InRuns, Kept
  <2>4. CASE uvIn[jj \div 2]
    <3>1. phase' = "uv_run" /\ low' = jj
      BY <1>6, <2>4 DEF SearchUv
    <3>2. uvIn'[(jj' - 1) \div 2]
      BY <1>1, <1>4, <2>1, <2>4
    <3>3. \A x \in Columns : x < jj + 1 => (InRuns(x, uv_run) \/ jj <= x <=> Kept(x))
      <4> SUFFICES ASSUME NEW x \in Columns, x < jj + 1
                   PROVE  InRuns(x, uv_run) \/ jj <= x <=> Kept(x)
        OBVIOUS
      <4>1. x < jj \/ x = jj
        BY <1>1
      <4> QED BY <1>1, <1>4, <2>2, <2>4, <4>1
    <3> QED BY <1>1, <2>1, <2>3, <3>1, <3>2, <3>3 DEF UvPixels
  <2>5. CASE ~uvIn[jj \div 2]
    <3>1. phase' = "uv_search"
      BY <1>6, <2>1, <2>5 DEF SearchUv
    <3>2. \A x \in Columns : x < jj + 2 => (InRuns(x, uv_run) <=> Kept(x))
      <4> SUFFICES ASSUME NEW x \in Columns, x < jj + 2
                   PROVE  InRuns(x, uv_run) <=> Kept(x)
        OBVIOUS
      <4>1. x < jj \/ x = jj \/ x = jj + 1
        BY <1>1
      <4> QED BY <1>1, <1>3, <1>4, <2>2, <2>5, <4>1
    <3> QED BY <1>1, <2>1, <2>3, <3>1, <3>2 DEF UvPixels
  <2> QED BY <2>4, <2>5
<1>7. CASE ExtendUv
  <2>1. /\ phase = "uv_run" /\ jj < RowCols /\ uvIn[jj \div 2] /\ jj' = jj + 2
        /\ UNCHANGED <<phase, low, uvIn, uv_run>>
    BY <1>7 DEF ExtendUv, UvGoesOn
  <2>2. /\ uvIn[(jj - 1) \div 2] /\ low + 2 <= jj /\ low \in Nat
        /\ \A x \in Columns : x < jj - 1 => ((InRuns(x, uv_run) \/ low <= x) <=> Kept(x))
    BY <1>1, <2>1 DEF UvPixels, IInv, UvOrder, RunsTypeOK
  <2>3. \A x : InRuns(x, uv_run)' = InRuns(x, uv_run) /\ Kept(x)' = Kept(x)
    BY <2>1 DEF InRuns, Kept
  <2>4. \A x \in Columns : x < jj + 1 => (InRuns(x, uv_run) \/ low <= x <=> Kept(x))
    <3> SUFFICES ASSUME NEW x \in Columns, x < jj + 1
                 PROVE  InRuns(x, uv_run) \/ low <= x <=> Kept(x)
      OBVIOUS
    <3>1. x < jj - 1 \/ x = jj - 1 \/ x = jj
      BY <1>1
    <3> QED BY <1>1, <1>4, <1>5, <2>1, <2>2, <3>1
  <2>5. uvIn'[(jj' - 1) \div 2]
    BY <1>1, <1>4, <2>1
  <2> QED BY <1>1, <2>1, <2>3, <2>4, <2>5 DEF UvPixels
<1>8. CASE StopUv
  <2>1. /\ phase = "uv_run" /\ phase' = "uv_search" /\ UNCHANGED <<uvIn, jj>>
        /\ uv_run' = Append(uv_run, Run(low, jj - 1)) /\ ~(jj < RowCols /\ uvIn[jj \div 2])
    BY <1>8 DEF StopUv, UvGoesOn
  <2>2. /\ low + 2 <= jj /\ low \in Columns /\ jj - 1 \in 0 .. RowCols
        /\ \A x \in Columns : x < jj - 1 => ((InRuns(x, uv_run) \/ low <= x) <=> Kept(x))
        /\ \A i \in 1 .. Len(uv_run) : uv_run[i].run_high < low
    <3>1. low + 2 <= jj /\ low \in Columns /\ \A i \in 1 .. Len(uv_run) : uv_run[i].run_high < low
      BY <2>1 DEF IInv, UvOrder, RunsTypeOK
    <3>2. jj - 1 \in 0 .. RowCols
      BY <1>1, <3>1
    <3> QED BY <2>1, <3>1, <3>2 DEF UvPixels
  <2>3. \A x : Kept(x)' = Kept(x)
    BY <2>1 DEF Kept
  <2>4. \A x : InRuns(x, uv_run)' <=> InRuns(x, uv_run) \/ (low <= x /\ x < jj - 1)
    BY <1>1, <2>1, <2>2, InAppend
  <2>5. \A x \in Columns : x < jj => (InRuns(x, uv_run) \/ (low <= x /\ x < jj - 1) <=> Kept(x))
    <3> SUFFICES ASSUME NEW x \in Columns, x < jj
                 PROVE  InRuns(x, uv_run) \/ (low <= x /\ x < jj - 1) <=> Kept(x)
      OBVIOUS
    <3>1. CASE x < jj - 1
      BY <2>2, <3>1
    <3>2. CASE x = jj - 1
      <4>1. ~InRuns(x, uv_run)
        BY <1>1, <1>2, <2>2, <3>2 DEF InRuns
      <4> QED BY <1>1, <1>5, <2>1, <2>2, <3>2, <4>1
    <3> QED BY <1>1, <3>1, <3>2
  <2> QED BY <1>1, <2>1, <2>3, <2>4, <2>5 DEF UvPixels
<1>9. CASE StartY
  <2>1. phase = "uv_search" /\ jj >= RowCols /\ phase' \in {"y_search", "done"} /\ UNCHANGED <<uvIn, uv_run>>
    BY <1>9 DEF StartY
  <2>2. \A x \in Columns : InRuns(x, uv_run) <=> Kept(x)
    BY <1>1, <2>1 DEF UvPixels
  <2> QED BY <2>1, <2>2 DEF UvPixels, InRuns, Kept
<1>10. CASE SkipY \/ OpenYuv \/ ExtendYuv \/ CloseYuv \/ LeaveUv
  <2>1. phase \in {"y_search", "y_run"} /\ phase' \in {"y_search", "y_run", "done"} /\ UNCHANGED <<uvIn, uv_run>>
    BY <1>10 DEF SkipY, OpenYuv, ExtendYuv, CloseYuv, LeaveUv, NextUvOrLoop
  <2> QED BY <2>1 DEF UvPixels, InRuns, Kept
<1>11. CASE UNCHANGED runVars
  BY <1>11 DEF runVars, UvPixels, InRuns, Kept
<1> QED BY <1>6, <1>7, <1>8, <1>9, <1>10, <1>11 DEF RunsNext

\* Between two Uv_Runs, and after the last one, there is nothing to find.
LEMMA UvGap ==
    ASSUME IInv, phase \in {"y_search", "y_run"}, yi = UvHigh, NEW x \in Columns, yi <= x,
           \/ uvi = Len(uv_run)
           \/ uvi + 1 \in 1 .. Len(uv_run) /\ x < uv_run[uvi + 1].run_low
    PROVE  ~InRuns(x, uv_run)
<1> SUFFICES ASSUME NEW i \in 1 .. Len(uv_run), uv_run[i].run_low <= x, x < uv_run[i].run_high
             PROVE  FALSE
  BY DEF InRuns
<1>1. /\ Len(uv_run) \in Nat /\ uvi \in 1 .. Len(uv_run) /\ x \in Nat /\ yi = uv_run[uvi].run_high
      /\ \A k \in 1 .. Len(uv_run) : uv_run[k].run_low \in Nat /\ uv_run[k].run_high \in Nat
      /\ \A k, j \in 1 .. Len(uv_run) : k < j => uv_run[k].run_high < uv_run[j].run_low
      /\ \A k \in 1 .. Len(uv_run) : uv_run[k].run_low < uv_run[k].run_high
  BY RunTypes DEF IInv, RunsTypeOK, InUvRun, UvOrder, UvHigh, Columns
<1>2. CASE i < uvi
  BY <1>1, <1>2
<1>3. CASE i = uvi
  BY <1>1, <1>3
<1>4. CASE uvi < i
  <2>1. uvi + 1 \in 1 .. Len(uv_run) /\ x < uv_run[uvi + 1].run_low
    BY <1>1, <1>4
  <2>2. uv_run[uvi + 1].run_low <= uv_run[i].run_low
    BY <1>1, <1>4, <2>1
  <2> QED BY <1>1, <2>1, <2>2
<1> QED BY <1>1, <1>2, <1>3, <1>4

\* The finished Yuv_Runs are all before yi.
LEMMA YuvBefore ==
    ASSUME IInv, phase \in {"y_search", "y_run"}, NEW x \in Columns, yi <= x
    PROVE  ~InRuns(x, yuv_run)
<1>1. /\ x \in Nat /\ yi \in Nat /\ low \in Nat
      /\ \A i \in 1 .. Len(yuv_run) : yuv_run[i].run_high \in Nat /\ yuv_run[i].run_high <= yi
  BY RunTypes DEF IInv, RunsTypeOK, YuvOrder, Columns
<1> QED BY <1>1 DEF InRuns

\* The turn that ends at column yi: if what is found before yi is right, so is
\* what is found before the place where the search goes on.
LEMMA GoesOnPixels ==
    ASSUME IInv, phase \in {"y_search", "y_run"}, NextUvOrLoop, UNCHANGED <<uv_run, yIn>>,
           \A x \in Columns : yi <= x => ~InRuns(x, yuv_run)',
           \A x \in Columns : x < yi => (InRuns(x, yuv_run)' <=> Wanted(x))
    PROVE  YuvPixels'
<1>1. \A x : Wanted(x)' <=> Wanted(x)
  BY DEF Wanted, InRuns
<1>2. yi \in Nat /\ \A x \in Columns : x \in Nat
  BY DEF IInv, RunsTypeOK, Columns
<1>3. CASE yi < UvHigh /\ phase' = "y_search" /\ uvi' = uvi /\ yi' = yi
  BY <1>1, <1>3 DEF YuvPixels
<1>4. CASE yi = UvHigh /\ phase' = "done" /\ uvi' = uvi + 1 /\ yi' = yi /\ uvi = Len(uv_run)
  <2>1. \A x \in Columns : yi <= x => ~Wanted(x)
    BY <1>4, UvGap DEF Wanted
  <2>2. \A x \in Columns : InRuns(x, yuv_run)' <=> Wanted(x)
    BY <1>2, <2>1
  <2> QED BY <1>1, <1>4, <2>2 DEF YuvPixels
<1>5. CASE /\ yi = UvHigh /\ phase' = "y_search" /\ uvi' = uvi + 1
           /\ uvi + 1 \in 1 .. Len(uv_run) /\ yi < yi' /\ yi' \in Columns
           /\ uv_run[uvi + 1].run_low = yi' /\ yi' <= uv_run[uvi + 1].run_high
  <2>1. \A x \in Columns : yi <= x /\ x < yi' => ~Wanted(x)
    BY <1>5, UvGap DEF Wanted
  <2>2. \A x \in Columns : x < yi' => (InRuns(x, yuv_run)' <=> Wanted(x))
    BY <1>2, <2>1
  <2> QED BY <1>1, <1>5, <2>2 DEF YuvPixels
<1> QED BY <1>3, <1>4, <1>5, NextUv

\* detect_yuv_runs_in_row finds the columns of the Uv_Runs whose y is in
\* threshold.
LEMMA NextYuvPixels ==
    ASSUME IInv, YuvPixels, [RunsNext]_runVars
    PROVE  YuvPixels'
<1>1. /\ RunsTypeOK /\ RowCols \in Nat /\ yi \in 0 .. RowCols /\ yi \in Nat /\ yuv_run \in RunSeq
      /\ \A x \in Columns : x \in Nat /\ x < RowCols
  BY RowColsAssumption DEF IInv, RunsTypeOK, Columns
<1>2. phase \in {"y_search", "y_run"} => \A x \in Columns : yi <= x => ~InRuns(x, yuv_run)
  BY YuvBefore
<1>3. phase \in {"y_search", "y_run"} /\ yi < UvHigh =>
         yi \in Columns /\ InRuns(yi, uv_run)
  <2> SUFFICES ASSUME phase \in {"y_search", "y_run"}, yi < UvHigh
               PROVE  yi \in Columns /\ InRuns(yi, uv_run)
    OBVIOUS
  <2>1. /\ uvi \in 1 .. Len(uv_run) /\ uv_run[uvi].run_low <= yi /\ yi < uv_run[uvi].run_high
        /\ uv_run[uvi].run_high \in 0 .. RowCols
    BY <1>1, RunTypes DEF IInv, InUvRun, UvHigh, RunsTypeOK
  <2>2. yi \in Columns
    BY <1>1, <2>1 DEF Columns
  <2> QED BY <2>1, <2>2 DEF InRuns
<1>4. CASE SearchUv \/ ExtendUv \/ StopUv
  BY <1>4 DEF SearchUv, ExtendUv, StopUv, YuvPixels
<1>5. CASE StartY
  <2>1. yuv_run = <<>> /\ uvi = 1 /\ UNCHANGED <<yuv_run, uv_run, uvi, yIn>>
    BY <1>5 DEF StartY, IInv, InUvRun
  <2>2. \A x : ~InRuns(x, yuv_run)'
    BY <2>1 DEF InRuns
  <2>3. \A x : Wanted(x)' <=> Wanted(x)
    BY <2>1 DEF Wanted, InRuns
  <2>4. CASE uv_run = <<>>
    <3>1. phase' = "done"
      BY <1>5, <2>4 DEF StartY
    <3>2. \A x : ~Wanted(x)
      BY <2>4 DEF Wanted, InRuns
    <3> QED BY <2>2, <2>3, <3>1, <3>2 DEF YuvPixels
  <2>5. CASE uv_run # <<>>
    <3>1. phase' = "y_search" /\ yi' = uv_run[1].run_low
      BY <1>5, <2>5 DEF StartY
    <3>2. /\ Len(uv_run) \in Nat /\ 1 \in 1 .. Len(uv_run)
          /\ \A i \in 1 .. Len(uv_run) : uv_run[i].run_low \in Nat /\ uv_run[i].run_high \in Nat
      <4>1. uv_run \in RunSeq
        BY <1>1 DEF RunsTypeOK
      <4>2. Len(uv_run) \in Nat /\ Len(uv_run) # 0
        BY <2>5, <4>1 DEF RunSeq
      <4>3. \A i \in 1 .. Len(uv_run) : uv_run[i].run_low \in Columns /\ uv_run[i].run_high \in 0 .. RowCols
        BY <4>1, RunTypes
      <4> QED BY <1>1, <4>2, <4>3
    <3>3. \A i \in 1 .. Len(uv_run) : uv_run[1].run_low <= uv_run[i].run_low
      <4>1. \A i \in 1 .. Len(uv_run) : 1 < i => uv_run[1].run_high < uv_run[i].run_low
        BY <3>2 DEF IInv, UvOrder
      <4>2. uv_run[1].run_low < uv_run[1].run_high
        BY <3>2 DEF IInv, UvOrder
      <4> QED BY <3>2, <4>1, <4>2
    <3>4. \A x \in Columns : x < uv_run[1].run_low => ~Wanted(x)
      BY <1>1, <3>2, <3>3 DEF Wanted, InRuns
    <3> QED BY <2>2, <2>3, <3>1, <3>4 DEF YuvPixels
  <2> QED BY <2>4, <2>5
<1>6. CASE SkipY \/ OpenYuv \/ ExtendYuv
  <2>1. /\ UNCHANGED <<yuv_run, uv_run, yIn>> /\ yi' = yi + 1 /\ yi < UvHigh
        /\ phase \in {"y_search", "y_run"}
        /\ \/ phase = "y_search" /\ phase' = "y_search" /\ ~yIn[yi]
           \/ phase = "y_search" /\ phase' = "y_run" /\ low' = yi /\ yIn[yi]
           \/ phase = "y_run" /\ phase' = "y_run" /\ low' = low /\ yIn[yi] /\ low < yi /\ low \in Nat
    BY <1>6 DEF SkipY, OpenYuv, ExtendYuv, YGoesOn, IInv, RunsTypeOK, YuvOrder, Columns
  <2>2. /\ \A x : Wanted(x)' <=> Wanted(x)
        /\ \A x : InRuns(x, yuv_run)' <=> InRuns(x, yuv_run)
    BY <2>1 DEF Wanted, InRuns
  <2>3. yi \in Columns /\ (Wanted(yi) <=> yIn[yi]) /\ ~InRuns(yi, yuv_run)
    BY <1>1, <1>2, <1>3, <2>1 DEF Wanted
  <2>4. \A x \in Columns : x < yi + 1 <=> (x < yi \/ x = yi)
    BY <1>1
  <2>5. CASE phase' = "y_search"
    <3>1. \A x \in Columns : x < yi => (InRuns(x, yuv_run) <=> Wanted(x))
      BY <2>1, <2>5 DEF YuvPixels
    <3>2. \A x \in Columns : x < yi' => (InRuns(x, yuv_run) <=> Wanted(x))
      BY <2>1, <2>3, <2>4, <2>5, <3>1
    <3> QED BY <2>2, <2>5, <3>2 DEF YuvPixels
  <2>6. CASE phase = "y_search" /\ phase' = "y_run"
    <3>1. \A x \in Columns : x < yi => (InRuns(x, yuv_run) <=> Wanted(x))
      BY <2>6 DEF YuvPixels
    <3>2. \A x \in Columns : x < yi' => ((InRuns(x, yuv_run) \/ low' <= x) <=> Wanted(x))
      BY <1>1, <2>1, <2>3, <2>4, <2>6, <3>1
    <3> QED BY <2>2, <2>6, <3>2 DEF YuvPixels
  <2>7. CASE phase = "y_run" /\ phase' = "y_run"
    <3>1. \A x \in Columns : x < yi => ((InRuns(x, yuv_run) \/ low <= x) <=> Wanted(x))
      BY <2>7 DEF YuvPixels
    <3>2. \A x \in Columns : x < yi' => ((InRuns(x, yuv_run) \/ low' <= x) <=> Wanted(x))
      BY <1>1, <2>1, <2>3, <2>4, <2>7, <3>1
    <3> QED BY <2>2, <2>7, <3>2 DEF YuvPixels
  <2> QED BY <2>1, <2>5, <2>6, <2>7
<1>7. CASE CloseYuv
  <2>1. /\ phase = "y_run" /\ NextUvOrLoop /\ UNCHANGED <<uv_run, yIn>>
        /\ yuv_run' = Append(yuv_run, Run(low, yi)) /\ low \in Columns
    BY <1>1, <1>7 DEF CloseYuv, RunsTypeOK
  <2>2. \A x : InRuns(x, yuv_run)' <=> InRuns(x, yuv_run) \/ (low <= x /\ x < yi)
    BY <1>1, <2>1, InAppend
  <2>3. \A x \in Columns : yi <= x => ~InRuns(x, yuv_run)'
    BY <1>1, <1>2, <2>1, <2>2
  <2>4. \A x \in Columns : x < yi => ((InRuns(x, yuv_run) \/ low <= x) <=> Wanted(x))
    BY <2>1 DEF YuvPixels
  <2>5. \A x \in Columns : x < yi => (InRuns(x, yuv_run)' <=> Wanted(x))
    BY <2>2, <2>4
  <2> QED BY <2>1, <2>3, <2>5, GoesOnPixels
<1>8. CASE LeaveUv
  <2>1. phase = "y_search" /\ NextUvOrLoop /\ UNCHANGED <<uv_run, yIn, yuv_run>>
    BY <1>8 DEF LeaveUv
  <2>2. \A x : InRuns(x, yuv_run)' <=> InRuns(x, yuv_run)
    BY <2>1 DEF InRuns
  <2>3. \A x \in Columns : x < yi => (InRuns(x, yuv_run) <=> Wanted(x))
    BY <2>1 DEF YuvPixels
  <2> QED BY <1>2, <2>1, <2>2, <2>3, GoesOnPixels
<1>9. CASE UNCHANGED runVars
  BY <1>9 DEF runVars, YuvPixels, Wanted, InRuns
<1> QED BY <1>4, <1>5, <1>6, <1>7, <1>8, <1>9 DEF RunsNext

\* When a row is done its Yuv_Runs are exactly the pixels in threshold, but for
\* the last column of each stretch of chroma, for every row of every width.
THEOREM ExactlyThePixels == RunsSpec => []OnlyTrailingMissing
<1>1. RunsInit => UvPixels /\ YuvPixels
  <2> SUFFICES ASSUME RunsInit PROVE UvPixels /\ YuvPixels
    OBVIOUS
  <2>1. \A x \in Columns : x \in Nat
    BY RowColsAssumption DEF Columns
  <2> QED BY <2>1 DEF RunsInit, UvPixels, YuvPixels
<1>2. IInv /\ UvPixels /\ YuvPixels /\ [RunsNext]_runVars => UvPixels' /\ YuvPixels'
  BY NextUvPixels, NextYuvPixels
<1>3. IInv /\ UvPixels /\ YuvPixels => OnlyTrailingMissing
  <2> SUFFICES ASSUME IInv, UvPixels, YuvPixels, phase = "done"
               PROVE  Covered(yuv_run) = InThreshold \ TrailingColumns
    BY DEF OnlyTrailingMissing
  <2>1. RowCols \in Nat /\ RowCols % 2 = 0 /\ yuv_run \in RunSeq
    BY RowColsAssumption DEF IInv, RunsTypeOK
  <2>2. \A x \in Columns : (x \in TrailingColumns <=> uvIn[x \div 2] /\ ~Kept(x))
    <3> SUFFICES ASSUME NEW x \in Columns
                 PROVE  x \in TrailingColumns <=> uvIn[x \div 2] /\ ~Kept(x)
      OBVIOUS
    <3>1. x \in Nat /\ x < RowCols /\ x \div 2 \in Samples
      BY <2>1 DEF Columns, Samples
    <3>2. \A k \in Samples : 2 * k + 1 = x <=> x % 2 = 1 /\ k = x \div 2
      BY <2>1, <3>1 DEF Samples
    <3>3. x % 2 = 1 => /\ (x + 1) \div 2 = (x \div 2) + 1
                       /\ x + 1 < RowCols <=> (x \div 2) + 1 \in Samples
      BY <2>1, <3>1 DEF Samples
    <3>4. x \in TrailingColumns <=>
            x % 2 = 1 /\ uvIn[x \div 2] /\ ((x \div 2) + 1 \in Samples => ~uvIn[(x \div 2) + 1])
      BY <3>1, <3>2 DEF TrailingColumns
    <3> QED BY <3>3, <3>4 DEF Kept
  <2>3. \A x \in Columns : InRuns(x, yuv_run) <=> Kept(x) /\ yIn[x]
    BY DEF UvPixels, YuvPixels, Wanted
  <2>4. \A x : x \in Covered(yuv_run) <=> x \in Columns /\ InRuns(x, yuv_run)
    <3>1. DOMAIN yuv_run = 1 .. Len(yuv_run)
      BY <2>1 DEF RunSeq
    <3>2. \A i \in 1 .. Len(yuv_run) : yuv_run[i].run_low \in 0 .. RowCols - 1 /\ yuv_run[i].run_high \in 0 .. RowCols
      BY <2>1, RunTypes DEF Columns
    <3>3. \A i \in 1 .. Len(yuv_run) : \A x :
            x \in yuv_run[i].run_low .. yuv_run[i].run_high - 1 <=>
               x \in Columns /\ yuv_run[i].run_low <= x /\ x < yuv_run[i].run_high
      BY <2>1, <3>2 DEF Columns
    <3> QED BY <3>1, <3>3 DEF Covered, InRuns
  <2>5. \A x \in Columns : x \in InThreshold <=> uvIn[x \div 2] /\ yIn[x]
    BY DEF InThreshold
  <2>6. InThreshold \subseteq Columns /\ \A x : Kept(x) => uvIn[x \div 2]
    BY DEF InThreshold, Kept
  <2> QED BY <2>2, <2>3, <2>4, <2>5, <2>6
<1> QED BY <1>1, <1>2, <1>3, Inductive, PTL DEF RunsSpec
=============================================================================
