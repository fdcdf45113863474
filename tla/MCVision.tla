------------------------------- MODULE MCVision -------------------------------
(***************************************************************************)
(* The detector for TLC.  A behaviour looks at one part: the runs of one   *)
(* row (YuvRuns), all images of 5 columns and 3 rows up to the report      *)
(* (Detector), or the scan of wider images on which deep trees grow.       *)
(***************************************************************************)
EXTENDS Detector, MCBlobList, YuvRuns

VARIABLE part    \* "runs", "report" or "trees"

\* The rows of the scans: 3 rows of 5 columns and then nothing, or TreeRows.
SmallRows == RowsOf(5)
RowsToScan == SmallRows \cup TreeRows

RowFits ==
    LET read == image'[Len(image')] IN
    image' # image => read \in CASE part = "trees" -> TreeRows
                                 [] part = "report" /\ Len(image') <= 3 -> SmallRows
                                 [] OTHER -> {<<>>}

VisionInit ==
    /\ part \in {"runs", "report", "trees"}
    /\ RunsInit /\ DetectorInit
    /\ part # "runs" => uvIn = [k \in Samples |-> FALSE] /\ yIn = [x \in Columns |-> FALSE]

Detects == part = "runs" /\ RunsNext /\ UNCHANGED <<part, vars, report>>
Reports == part = "report" /\ DetectorNext /\ RowFits /\ UNCHANGED <<part, runVars>>
Scans == part = "trees" /\ Next /\ RowFits /\ UNCHANGED <<part, report, runVars>>

VisionSpec == VisionInit /\ [][Detects \/ Reports \/ Scans]_<<part, vars, report, runVars>>
=============================================================================
