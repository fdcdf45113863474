-------------------------------- MODULE Detector --------------------------------
(***************************************************************************)
(* From the rows of one image to what is drawn and sent: the scan of       *)
(* BlobList, and then the tail of splitter_buffer_callback                 *)
(* (input_raspicam_696.c:637-653) on the same list.                        *)
(* blob_list_purge_small_bboxes compacts root_info in place,               *)
(* copy_best_bounding_boxes sorts it and fills bbox_element, and           *)
(* copy_best_bboxes_to_blob_stats_array fills the message for the UDP      *)
(* clients.  A box is one entry here and four elements in the code.        *)
(***************************************************************************)
EXTENDS BlobComponents

CONSTANTS
    MinPixels,       \* MIN_PIXELS_PER_BLOB
    MaxBoxes,        \* MAX_BBOXES: bbox_element_count / 4
    MaxUdpBlobs      \* MAX_UDP_BLOBS: length of the blob array of the message

ASSUME DetectorAssumption ==
    MinPixels \in Nat /\ MaxBoxes \in Nat \ {0} /\ MaxUdpBlobs \in Nat \ {0}

VARIABLES
    step,            \* "scan", "count", "compact", "sort", "boxes", "stats" or "sent"
    ok_count, at,    \* the two positions of the purge; the second is rx there
    bbox,            \* bbox_element
    blob,            \* the entries of udp_blob_list.blob that were written
    blob_count       \* udp_blob_list.blob_count

report == <<step, ok_count, at, bbox, blob, blob_count>>
unchangedByReport == <<used_blob_set_count, rowVars, ai, bi, pc, findVars>>

DetectorInit ==
    /\ Init
    /\ step = "scan" /\ ok_count = 0 /\ at = 0
    /\ bbox = <<>> /\ blob = <<>> /\ blob_count = 0

\* detect_color_blobs returns.
EndScan ==
    /\ step = "scan" /\ pc = "done" /\ step' = "count"
    /\ UNCHANGED <<vars, ok_count, at, bbox, blob, blob_count>>

Large(rx) == root_info[rx].stats.count >= MinPixels

(* blob_list_purge_small_bboxes: count the large blobs at the front ...    *)
CountLarge ==
    /\ step = "count"
    /\ IF ok_count < used_root_list_count /\ Large(ok_count)
       THEN ok_count' = ok_count + 1 /\ UNCHANGED <<step, at>>
       ELSE step' = "compact" /\ at' = ok_count /\ UNCHANGED ok_count
    /\ UNCHANGED <<vars, bbox, blob, blob_count>>

\* Mutant of Compact: the entry at ok_count is skipped, not overwritten.
CompactOnePast ==
    /\ step = "compact" /\ at < used_root_list_count
    /\ IF Large(at) /\ ok_count + 1 < used_root_list_count
       THEN /\ root_info' = [root_info EXCEPT ![ok_count + 1] = root_info[at]]
            /\ ok_count' = ok_count + 1
       ELSE UNCHANGED <<root_info, ok_count>>
    /\ at' = at + 1
    /\ UNCHANGED <<blob_set, used_root_list_count, unchangedByReport, step, bbox, blob, blob_count>>

(* ... move each later large one to the end of those kept, with            *)
(* set_root_list_entry telling its set, ...                                *)
Compact ==
    /\ step = "compact" /\ at < used_root_list_count
    /\ IF Large(at)
       THEN /\ root_info' = [root_info EXCEPT ![ok_count] = root_info[at]]
            /\ blob_set' = [blob_set EXCEPT ![root_info[at].set_index].root_list_index = ok_count]
            /\ ok_count' = ok_count + 1
       ELSE UNCHANGED <<root_info, blob_set, ok_count>>
    /\ at' = at + 1
    /\ UNCHANGED <<used_root_list_count, unchangedByReport, step, bbox, blob, blob_count>>

(* ... and cut the list there.                                             *)
EndPurge ==
    /\ step = "compact" /\ at = used_root_list_count
    /\ used_root_list_count' = ok_count /\ step' = "sort"
    /\ UNCHANGED <<blob_set, root_info, unchangedByReport, ok_count, at, bbox, blob, blob_count>>

(* sort_blobs_by_pixel_count: qsort_r is not stable, any order of equal    *)
(* counts may come out.                                                    *)
SortBlobs ==
    /\ step = "sort"
    /\ LET places == 0 .. used_root_list_count - 1 IN
       \E f \in [places -> places] :
          /\ \A i, j \in places : i # j => f[i] # f[j]
          /\ root_info' = [rx \in DOMAIN root_info |->
                              root_info[IF rx \in places THEN f[rx] ELSE rx]]
          /\ \A i, j \in places : i < j => root_info'[i].stats.count >= root_info'[j].stats.count
    /\ step' = "boxes"
    /\ UNCHANGED <<blob_set, used_root_list_count, unchangedByReport, ok_count, at, bbox, blob, blob_count>>

Box(s) == [min_x |-> s.min_x, min_y |-> s.min_y, max_x |-> s.max_x, max_y |-> s.max_y]

\* The loop of copy_best_bounding_boxes, broken off when bbox is full.
MoreBoxes == Len(bbox) < used_root_list_count /\ Len(bbox) < MaxBoxes

CopyBox ==
    /\ step = "boxes"
    /\ IF MoreBoxes THEN bbox' = Append(bbox, Box(root_info[Len(bbox)].stats)) /\ UNCHANGED step
                    ELSE step' = "stats" /\ UNCHANGED bbox
    /\ UNCHANGED <<vars, ok_count, at, blob, blob_count>>

\* Mutant of CopyStats: the count returned is one past the break.
CopyStatsCountsBreak ==
    /\ step = "stats"
    /\ IF blob_count < used_root_list_count
       THEN /\ blob' = Append(blob, root_info[blob_count].stats)
            /\ blob_count' = blob_count + 1
            /\ step' = IF blob_count >= MaxUdpBlobs THEN "sent" ELSE "stats"
       ELSE step' = "sent" /\ UNCHANGED <<blob, blob_count>>
    /\ UNCHANGED <<vars, ok_count, at, bbox>>

(* The loop of copy_best_bboxes_to_blob_stats_array: stats[i] is written   *)
(* first, i is compared with the length of the array afterwards.           *)
CopyStats ==
    /\ step = "stats"
    /\ IF blob_count < used_root_list_count
       THEN /\ blob' = Append(blob, root_info[blob_count].stats)
            /\ IF blob_count >= MaxUdpBlobs
               THEN step' = "sent" /\ UNCHANGED blob_count
               ELSE blob_count' = blob_count + 1 /\ UNCHANGED step
       ELSE step' = "sent" /\ UNCHANGED <<blob, blob_count>>
    /\ UNCHANGED <<vars, ok_count, at, bbox>>

Report == EndScan \/ CountLarge \/ Compact \/ EndPurge \/ SortBlobs \/ CopyBox \/ CopyStats

DetectorNext == (Next /\ UNCHANGED report) \/ Report

DetectorSpec == DetectorInit /\ [][DetectorNext]_<<vars, report>>

-----------------------------------------------------------------------------

\* With room for every set, the message announces the components of the image
\* of at least MinPixels pixels, or the largest of them when they are too many
\* for its array, and the boxes drawn are those of the blobs announced: nothing
\* is overwritten before it was looked at, announced twice, or left out for a
\* smaller one.
ReportIsBest ==
    step = "sent" /\ NeverFull =>
      LET large == {c \in Components : StatsOfComponent(c).count >= MinPixels}
          n == Cardinality(large)
          sent == 1 .. blob_count
      IN  /\ blob_count = Lower(n, MaxUdpBlobs) /\ Len(bbox) = Lower(n, MaxBoxes)
          /\ \A i \in 1 .. Len(bbox) : i <= blob_count => bbox[i] = Box(blob[i])
          /\ \E of \in [sent -> large] :
                /\ \A i, j \in sent : of[i] = of[j] => i = j
                /\ \A i \in sent : NoBottom(blob[i]) = NoBottom(StatsOfComponent(of[i]))
                /\ \A c \in large : (\E i \in sent : of[i] = c)
                      \/ \A i \in sent : blob[i].count >= StatsOfComponent(c).count
=============================================================================
