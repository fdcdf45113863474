-------------------------------- MODULE Blobs --------------------------------
(***************************************************************************)
(* What the disjoint-set forest of detect_color_blobs.h stands for: a set  *)
(* of blobs, each a set of entries with the number of its pixels.  While   *)
(* an image is scanned a blob is begun, grows, or two of them become one   *)
(* whose count is the sum of theirs; nothing else ever happens to a blob.  *)
(* At the end of the image the blobs are handed over to the report.        *)
(***************************************************************************)
EXTENDS Naturals

VARIABLES
    blobs,    \* a set of [members, count]
    open      \* is the image still being scanned?

Init == blobs = {} /\ open = TRUE

Begin ==
    \E b \in blobs' :
        /\ b.count > 0
        /\ \A c \in blobs : b.members \cap c.members = {}
        /\ blobs' = blobs \cup {b}

Grow ==
    \E b \in blobs, g \in blobs' :
        /\ g.members = b.members /\ g.count > b.count
        /\ blobs' = (blobs \ {b}) \cup {g}

Merge ==
    \E b, c \in blobs :
        /\ b # c
        /\ blobs' = (blobs \ {b, c}) \cup
               {[members |-> b.members \cup c.members, count |-> b.count + c.count]}

HandOver == open /\ open' = FALSE /\ blobs' = {}

Next == (open /\ UNCHANGED open /\ (Begin \/ Grow \/ Merge)) \/ HandOver

Spec == Init /\ [][Next]_<<blobs, open>>
=============================================================================
