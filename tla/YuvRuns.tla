------------------------------- MODULE YuvRuns -------------------------------
(***************************************************************************)
(* Run detection in one image row, detect_color_blobs.c:                   *)
(* create_uv_run_sequence (the SIMPLE2 version, the one compiled) followed *)
(* by detect_yuv_runs_in_row.  One action per turn of a loop of the code.  *)
(*                                                                         *)
(* A pixel value is abstracted to the outcome of its threshold test:       *)
(* uvIn[k] is uv_is_in() of the chroma sample shared by columns 2k and     *)
(* 2k+1, and yIn[x] is  y_row[x] >= y_low.  The two malloc'ed arrays of    *)
(* the caller, uv_run and yuv_run, are sequences; their capacities are     *)
(* MaxUvRuns and MaxYuvRuns.                                               *)
(***************************************************************************)
EXTENDS Integers, Sequences

CONSTANT RowCols   \* cols: the width of the image in luma pixels

\* Widths handed to the detector are port widths, VCOS_ALIGN_UP(width, 32)
\* (input_raspicam_696.c:1507): multiples of 4 are all the proofs need.
ASSUME RowColsAssumption == RowCols \in Nat \ {0} /\ RowCols % 4 = 0

Columns == 0 .. RowCols - 1
Samples == 0 .. (RowCols \div 2) - 1

MaxUvRuns  == RowCols \div 4    \* max_uv_runs_in_row
\* Mutant of MaxYuvRuns: both arrays sized alike.
MaxYuvRunsAsUv == RowCols \div 4

MaxYuvRuns == RowCols \div 2    \* max_yuv_runs_in_row

VARIABLES
    uvIn, yIn,    \* the thresholded row, chosen once
    phase,        \* the loop the code is in
    jj,           \* column reached by create_uv_run_sequence
    low,          \* run_low of the run that is open, if one is
    uv_run,       \* completed Uv_Runs
    uvi, yi,      \* position of detect_yuv_runs_in_row
    yuv_run       \* completed Yuv_Runs

runVars == <<uvIn, yIn, phase, jj, low, uv_run, uvi, yi, yuv_run>>

-----------------------------------------------------------------------------

RunsInit ==
    /\ uvIn \in [Samples -> BOOLEAN]
    /\ yIn \in [Columns -> BOOLEAN]
    /\ phase = "uv_search"
    /\ jj = 0 /\ low = 0
    /\ uv_run = <<>> /\ yuv_run = <<>>
    /\ uvi = 1 /\ yi = 0

\* A Uv_Run or Yuv_Run: columns run_low up to, not including, run_high.
Run(l, h) == [run_low |-> l, run_high |-> h]

\* The condition of create_uv_run_sequence's inner while.
UvGoesOn == jj < RowCols /\ uvIn[jj \div 2]

(* create_uv_run_sequence: the outer while, no run open. *)
SearchUv ==
    /\ phase = "uv_search" /\ jj < RowCols
    /\ jj' = jj + 2
    /\ IF uvIn[jj \div 2] THEN phase' = "uv_run" /\ low' = jj
                          ELSE UNCHANGED <<phase, low>>
    /\ UNCHANGED <<uvIn, yIn, uv_run, uvi, yi, yuv_run>>

(* The inner while: the open run goes on. *)
ExtendUv ==
    /\ phase = "uv_run" /\ UvGoesOn
    /\ jj' = jj + 2
    /\ UNCHANGED <<uvIn, yIn, phase, low, uv_run, uvi, yi, yuv_run>>

(* "Stop the run": jj is already one past the run, run_high is jj - 1. *)
StopUv ==
    /\ phase = "uv_run" /\ ~UvGoesOn
    /\ uv_run' = Append(uv_run, Run(low, jj - 1))
    /\ phase' = "uv_search"
    /\ UNCHANGED <<uvIn, yIn, jj, low, uvi, yi, yuv_run>>

(* create_uv_run_sequence returns; detect_yuv_runs_in_row starts at the    *)
(* first run, or returns at once when there is none.                       *)
StartY ==
    /\ phase = "uv_search" /\ jj >= RowCols
    /\ IF uv_run = <<>> THEN phase' = "done" /\ yi' = yi
                        ELSE phase' = "y_search" /\ yi' = uv_run[1].run_low
    /\ UNCHANGED <<uvIn, yIn, jj, low, uv_run, uvi, yuv_run>>

UvHigh == uv_run[uvi].run_high

\* The condition of detect_yuv_runs_in_row's second inner while.
YGoesOn == yi < UvHigh /\ yIn[yi]

(* Skip the columns of the current Uv_Run whose y is below threshold. *)
SkipY ==
    /\ phase = "y_search" /\ yi < UvHigh /\ ~yIn[yi]
    /\ yi' = yi + 1
    /\ UNCHANGED <<uvIn, yIn, phase, jj, low, uv_run, uvi, yuv_run>>

(* A y above threshold inside the Uv_Run starts a Yuv_Run. *)
OpenYuv ==
    /\ phase = "y_search" /\ YGoesOn
    /\ low' = yi /\ yi' = yi + 1 /\ phase' = "y_run"
    /\ UNCHANGED <<uvIn, yIn, jj, uv_run, uvi, yuv_run>>

ExtendYuv ==
    /\ phase = "y_run" /\ YGoesOn
    /\ yi' = yi + 1
    /\ UNCHANGED <<uvIn, yIn, phase, jj, low, uv_run, uvi, yuv_run>>

\* Mutant of NextUvOrLoop: yi is not moved to the start of the next Uv_Run.
NextUvKeepsColumn ==
    IF yi < UvHigh
    THEN phase' = "y_search" /\ UNCHANGED <<uvi, yi>>
    ELSE /\ uvi' = uvi + 1 /\ yi' = yi
         /\ phase' = IF uvi' > Len(uv_run) THEN "done" ELSE "y_search"

\* The tail of the loop body, "We are done with this uv_run entry", and the
\* test of the outer while.
NextUvOrLoop ==
    IF yi < UvHigh
    THEN phase' = (IF yi < RowCols THEN "y_search" ELSE "done") /\ UNCHANGED <<uvi, yi>>
    ELSE /\ uvi' = uvi + 1
         /\ IF uvi' > Len(uv_run) THEN phase' = "done" /\ yi' = yi
                                  ELSE phase' = "y_search" /\ yi' = uv_run[uvi'].run_low

\* Mutant of CloseYuv: run_high is taken after one more increment.
CloseYuvLate ==
    /\ phase = "y_run" /\ ~YGoesOn
    /\ yuv_run' = Append(yuv_run, Run(low, yi + 1))
    /\ NextUvOrLoop
    /\ UNCHANGED <<uvIn, yIn, jj, low, uv_run>>

(* The Yuv_Run ends where the Uv_Run does, or where y drops. *)
CloseYuv ==
    /\ phase = "y_run" /\ ~YGoesOn
    /\ yuv_run' = Append(yuv_run, Run(low, yi))
    /\ NextUvOrLoop
    /\ UNCHANGED <<uvIn, yIn, jj, low, uv_run>>

(* No y above threshold was left in the Uv_Run. *)
LeaveUv ==
    /\ phase = "y_search" /\ yi >= UvHigh
    /\ NextUvOrLoop
    /\ UNCHANGED <<uvIn, yIn, jj, low, uv_run, yuv_run>>

RunsNext == SearchUv \/ ExtendUv \/ StopUv \/ StartY
        \/ SkipY \/ OpenYuv \/ ExtendYuv \/ CloseYuv \/ LeaveUv

RunsSpec == RunsInit /\ [][RunsNext]_runVars /\ WF_runVars(RunsNext)

-----------------------------------------------------------------------------

RunSeq == Seq([run_low : Columns, run_high : 0 .. RowCols])

RunsTypeOK ==
    /\ uvIn \in [Samples -> BOOLEAN] /\ yIn \in [Columns -> BOOLEAN]
    /\ phase \in {"uv_search", "uv_run", "y_search", "y_run", "done"}
    /\ jj \in 0 .. RowCols /\ low \in Columns
    /\ uv_run \in RunSeq /\ yuv_run \in RunSeq
    /\ uvi \in 1 .. Len(uv_run) + 1 /\ yi \in 0 .. RowCols

\* No entry is ever written behind the end of an array: the caller sizes
\* uv_run by cols / 4 and yuv_run by cols / 2, and an open run is the entry
\* [Len + 1] that the code writes run_low into.
ArraysFit ==
    /\ Len(uv_run)  + (IF phase = "uv_run" THEN 1 ELSE 0) <= MaxUvRuns
    /\ Len(yuv_run) + (IF phase = "y_run"  THEN 1 ELSE 0) <= MaxYuvRuns

Covered(runs) ==
    UNION {runs[i].run_low .. runs[i].run_high - 1 : i \in DOMAIN runs}

\* Runs are non-empty, in column order and never touch: what the two-pointer
\* walk of yuv_run_row_union relies on to visit every overlap once.
Separated(runs) ==
    /\ \A i \in DOMAIN runs : runs[i].run_low < runs[i].run_high
    /\ \A i, j \in DOMAIN runs : i < j => runs[i].run_high < runs[j].run_low

RunsSeparated == Separated(uv_run) /\ Separated(yuv_run)

InThreshold == {x \in Columns : uvIn[x \div 2] /\ yIn[x]}

\* What the comments promise: run_high is "one past" (detect_color_blobs.c:122)
\* and "any pixel that is within threshold" gets into a run (145-146, 554-556).
\* run_high = jj - 1 leaves out the last column of a chroma run, so that this
\* does not hold: an isolated sample loses one of its two pixels.
RunsAreThePixels == phase = "done" => Covered(yuv_run) = InThreshold

\* The last column of every maximal stretch of in-threshold chroma samples.
TrailingColumns ==
    {2 * k + 1 : k \in {s \in Samples : /\ uvIn[s]
                                        /\ s + 1 \in Samples => ~uvIn[s + 1]}}

\* That column is all that is missing: two chroma samples in a row, threshold
\* changes of luma inside or across a sample, and the walk from one Uv_Run to
\* the next lose no other pixel and add none.
OnlyTrailingMissing ==
    phase = "done" => Covered(yuv_run) = InThreshold \ TrailingColumns
=============================================================================
