---------------------------- MODULE BlobComponents ----------------------------
(***************************************************************************)
(* What the blobs of an image should be: the components of its runs, two   *)
(* runs of neighbouring rows being connected when they share a column.     *)
(* Computed directly, and compared with the list of blobs of BlobList.     *)
(***************************************************************************)
EXTENDS BlobList, FiniteSets, FiniteSetsExt

Node == UNION {{<<r, i>> : i \in 1 .. Len(image[r])} : r \in 1 .. Len(image)}

RunAt(n) == image[n[1]][n[2]]

Touches(m, n) ==
    /\ n[1] = m[1] + 1
    /\ RunAt(m).run_low < RunAt(n).run_high /\ RunAt(n).run_low < RunAt(m).run_high

Contacts == {e \in Node \X Node : Touches(e[1], e[2])}

MergeBlocks(e, blocks) ==
    LET hit == {b \in blocks : e[1] \in b \/ e[2] \in b}
    IN  (blocks \ hit) \cup {UNION hit}

\* Components of at least two runs, hence of at least two rows: a blob that is
\* one pixel high is never represented.
Components ==
    {c \in FoldSet(MergeBlocks, {{n} : n \in Node}, Contacts) : Cardinality(c) > 1}

RunStats(n) == StatsOf(n[1] - 1, RunAt(n))

StatsOfComponent(c) ==
    LET n0 == CHOOSE n \in c : TRUE
    IN  FoldSet(LAMBDA n, s : StatsAdd(s, RunStats(n)), RunStats(n0), c \ {n0})

\* The statistics of the blobs, without max_y: stats_add_singleton moves it up
\* when the last run added lies above the lowest one.
NoBottom(s) == [s EXCEPT !.max_y = 0]
Listed == [rx \in 0 .. used_root_list_count - 1 |-> root_info[rx].stats]

\* No make_set of this image has met a full blob_set or a full root_info: the
\* first count only grows in an image, and no list of roots is longer.
NeverFull == used_blob_set_count <= MaxRuns /\ used_blob_set_count <= MaxBlobs

\* With room for every set, the blobs found are the components of the rows
\* read so far, one root_info entry each, and the pixel count, the coordinate
\* sums and the top, left and right of the box are those of the component.
BlobsAreComponents ==
    pc = "row" /\ NeverFull =>
      /\ Cardinality(Components) = used_root_list_count
      /\ {NoBottom(Listed[rx]) : rx \in DOMAIN Listed}
            = {NoBottom(StatsOfComponent(c)) : c \in Components}

\* When blob_set or root_info is full, pixels are lost, but no pixel counts
\* twice and no blob reaches beyond one component.
FullListSound ==
    pc = "row" =>
      /\ MapThenSumSet(LAMBDA rx : Listed[rx].count, DOMAIN Listed)
            <= MapThenSumSet(LAMBDA c : StatsOfComponent(c).count, Components)
      /\ \A rx \in DOMAIN Listed : \E c \in Components :
            LET whole == StatsOfComponent(c)
            IN  /\ Listed[rx].count <= whole.count
                /\ whole.min_x <= Listed[rx].min_x /\ Listed[rx].max_x <= whole.max_x
                /\ whole.min_y <= Listed[rx].min_y /\ Listed[rx].max_y <= whole.max_y
=============================================================================
