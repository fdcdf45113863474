---------------------------- MODULE BlobListProofs ----------------------------
(***************************************************************************)
(* The disjoint-set forest of detect_color_blobs keeps its invariants for  *)
(* every image size, every row and every capacity: root_info and blob_set  *)
(* agree, ranks grow towards the roots, and the asserts of the code hold.  *)
(*                                                                         *)
(* ForestInv is what every operation on the forest keeps.  The operations  *)
(* are treated one by one (make_set, set_parent of a root, link, path      *)
(* compression, adding a run); the scan then only adds where it is.        *)
(* Then the forest is shown to implement the set of blobs of module Blobs, *)
(* with a map from each entry to its root as the link between them, and at *)
(* the end the blobs are shown to be the components of the image: a second *)
(* map, from each run to the entry it was put into, says which runs a blob *)
(* is made of, and folds over finite sets, written with functions, say     *)
(* what the components and their statistics are.                           *)
(***************************************************************************)
EXTENDS Detector, FiniteSetTheorems, SequenceTheorems, TLAPS

EntryType == [parent_index : Entry \cup {0}, rank : Nat, root_list_index : 0 .. NOT_A_ROOT_LIST_INDEX]

\* A used entry's parent is a used entry: find_root never comes to entry 0.
ParentsInUse == \A bx \in Entry : blob_set[bx].parent_index \in Entry

ForestType ==
    /\ used_blob_set_count \in 1 .. MaxRuns + 1
    /\ used_root_list_count \in 0 .. MaxBlobs
    /\ blob_set \in [0 .. MaxRuns -> EntryType]
    /\ root_info \in [0 .. MaxBlobs - 1 -> [stats : Stats, set_index : Entry \cup {0}]]

ForestInv == ForestType /\ RootsListed /\ ParentsInUse /\ RanksIncrease

\* A used root: it knows its place in root_info.
UsedRoot(bx) ==
    /\ bx \in Entry /\ IsRoot(bx)
    /\ blob_set[bx].root_list_index \in 0 .. used_root_list_count - 1

-----------------------------------------------------------------------------
(* Arithmetic of the sizes *)

\* The sizes are numbers, and USHRT_MAX is above both.
LEMMA Sizes ==
    /\ Cols \in Nat /\ Cols > 0 /\ Rows \in Nat /\ Rows > 0
    /\ MaxRuns \in Nat /\ MaxRuns > 0 /\ MaxRuns < NOT_A_ROOT_LIST_INDEX
    /\ MaxBlobs \in Nat /\ MaxBlobs > 0 /\ MaxBlobs <= NOT_A_ROOT_LIST_INDEX
    /\ NOT_A_ROOT_LIST_INDEX \in Nat
<1>1. NOT_A_ROOT_LIST_INDEX \in Nat
  BY DEF NOT_A_ROOT_LIST_INDEX
<1> QED BY <1>1, SizeAssumption

\* More entries in use, more entries to point to.
LEMMA EntriesGrow ==
    ASSUME NEW S, NEW T, S \subseteq T
    PROVE  [parent_index : S \cup {0}, rank : Nat, root_list_index : 0 .. NOT_A_ROOT_LIST_INDEX]
           \subseteq [parent_index : T \cup {0}, rank : Nat, root_list_index : 0 .. NOT_A_ROOT_LIST_INDEX]
OBVIOUS

\* Where a root stands in the list.
LEMMA RootPlace ==
    ASSUME ForestInv, NEW bx \in Entry, IsRoot(bx)
    PROVE  /\ UsedRoot(bx)
           /\ root_info[blob_set[bx].root_list_index].set_index = bx
           /\ blob_set[bx].root_list_index # NOT_A_ROOT_LIST_INDEX
<1>1. /\ blob_set[bx].root_list_index \in 0 .. used_root_list_count - 1
      /\ root_info[blob_set[bx].root_list_index].set_index = bx
  BY DEF ForestInv, RootsListed
<1>2. used_root_list_count \in Nat /\ used_root_list_count <= NOT_A_ROOT_LIST_INDEX
  BY Sizes DEF ForestInv, ForestType
<1> QED BY <1>1, <1>2, Sizes DEF UsedRoot

-----------------------------------------------------------------------------
(* make_set *)

\* make_set adds a root and its place in the list.
LEMMA MakeSetKeeps ==
    ASSUME ForestInv, HasRoom, NEW s \in Stats, MakeSet(s)
    PROVE  /\ ForestInv'
           /\ used_blob_set_count \in Entry'
           /\ Entry \subseteq Entry'
<1> DEFINE n == used_blob_set_count
           m == used_root_list_count
<1>1. n \in 1 .. MaxRuns /\ m \in 0 .. MaxBlobs - 1 /\ n \in Nat /\ m \in Nat
  BY Sizes DEF ForestInv, ForestType, HasRoom
<1>2. Entry = 1 .. n - 1 /\ Entry' = 1 .. n /\ Entry' = Entry \cup {n} /\ n \notin Entry
  BY <1>1 DEF Entry, MakeSet
<1>3. /\ blob_set \in [0 .. MaxRuns -> EntryType]
      /\ root_info \in [0 .. MaxBlobs - 1 -> [stats : Stats, set_index : Entry \cup {0}]]
  BY DEF ForestInv, ForestType
<1>4. /\ blob_set'[n].parent_index = n /\ blob_set'[n].root_list_index = m
      /\ blob_set'[n].rank = 0
      /\ \A bx \in Entry : blob_set'[bx] = blob_set[bx]
  BY <1>1, <1>2, <1>3 DEF MakeSet
<1>5. /\ root_info'[m].set_index = n
      /\ \A rx \in 0 .. m - 1 : root_info'[rx] = root_info[rx]
  BY <1>1, <1>3 DEF MakeSet
<1>6. ForestType'
  <2>1. used_blob_set_count' \in 1 .. MaxRuns + 1 /\ used_root_list_count' \in 0 .. MaxBlobs
    BY <1>1, Sizes DEF MakeSet
  <2>2. blob_set' \in [0 .. MaxRuns -> EntryType']
    <3>1. [parent_index |-> n, root_list_index |-> m, rank |-> 0] \in EntryType'
      BY <1>1, <1>2, Sizes DEF EntryType
    <3>2. EntryType \subseteq EntryType'
      <4> SUFFICES ASSUME NEW e \in EntryType PROVE e \in EntryType'
        OBVIOUS
      <4> QED BY <1>2, EntriesGrow DEF EntryType
    <3> QED BY <1>1, <1>3, <3>1, <3>2 DEF MakeSet
  <2>3. root_info' \in [0 .. MaxBlobs - 1 -> [stats : Stats, set_index : Entry' \cup {0}]]
    <3>1. [stats |-> s, set_index |-> n] \in [stats : Stats, set_index : Entry' \cup {0}]
      BY <1>2
    <3>2. [stats : Stats, set_index : Entry \cup {0}]
             \subseteq [stats : Stats, set_index : Entry' \cup {0}]
      BY <1>2
    <3> QED BY <1>1, <1>3, <3>1, <3>2 DEF MakeSet
  <2> QED BY <2>1, <2>2, <2>3 DEF ForestType
<1>7. RootsListed'
  <2>1. \A rx \in 0 .. m - 1 : root_info[rx].set_index \in Entry
    BY DEF ForestInv, RootsListed
  <2>2. used_root_list_count' = m + 1
    BY DEF MakeSet
  <2>3. ASSUME NEW rx \in 0 .. used_root_list_count' - 1
        PROVE  /\ root_info'[rx].set_index \in Entry'
               /\ IsRoot(root_info[rx].set_index)'
               /\ blob_set'[root_info'[rx].set_index].root_list_index = rx
    <3>1. CASE rx = m
      BY <1>2, <1>4, <1>5, <3>1 DEF IsRoot
    <3>2. CASE rx \in 0 .. m - 1
      BY <1>2, <1>4, <1>5, <2>1, <3>2 DEF IsRoot, ForestInv, RootsListed
    <3> QED BY <1>1, <2>2, <3>1, <3>2
  <2>4. ASSUME NEW bx \in Entry'
        PROVE  IF IsRoot(bx)'
               THEN /\ blob_set'[bx].root_list_index \in 0 .. used_root_list_count' - 1
                    /\ root_info'[blob_set'[bx].root_list_index].set_index = bx
               ELSE blob_set'[bx].root_list_index = NOT_A_ROOT_LIST_INDEX
    <3>1. CASE bx = n
      BY <1>1, <1>4, <1>5, <2>2, <3>1 DEF IsRoot
    <3>2. CASE bx \in Entry
      BY <1>1, <1>4, <1>5, <2>2, <3>2 DEF IsRoot, ForestInv, RootsListed
    <3> QED BY <1>2, <3>1, <3>2
  <2> QED BY <2>3, <2>4 DEF RootsListed
<1>8. ParentsInUse' /\ RanksIncrease'
  BY <1>2, <1>4 DEF ForestInv, ParentsInUse, RanksIncrease, IsRoot
<1> QED BY <1>2, <1>6, <1>7, <1>8 DEF ForestInv

-----------------------------------------------------------------------------
(* Path compression: a node that is no root is hung below its root *)

\* set_parent of a node that is no root, below a root of higher rank.
LEMMA CompressKeeps ==
    ASSUME ForestInv, NEW child \in Entry, NEW root \in Entry,
           IsRoot(root), ~IsRoot(child), blob_set[child].rank < blob_set[root].rank,
           blob_set' = [blob_set EXCEPT ![child].parent_index = root],
           UNCHANGED <<used_blob_set_count, root_info, used_root_list_count>>
    PROVE  /\ ForestInv' /\ Entry' = Entry
           /\ \A bx \in Entry : /\ IsRoot(bx)' <=> IsRoot(bx)
                                /\ blob_set'[bx].rank = blob_set[bx].rank
                                /\ blob_set'[bx].root_list_index = blob_set[bx].root_list_index
<1>1. Entry' = Entry /\ Entry \subseteq 0 .. MaxRuns
  BY Sizes DEF Entry, ForestInv, ForestType
<1>2. blob_set \in [0 .. MaxRuns -> EntryType]
  BY DEF ForestInv, ForestType
<1>3. /\ blob_set' \in [0 .. MaxRuns -> EntryType]
      /\ \A bx \in Entry :
            /\ blob_set'[bx].rank = blob_set[bx].rank
            /\ blob_set'[bx].root_list_index = blob_set[bx].root_list_index
            /\ blob_set'[bx].parent_index = IF bx = child THEN root
                                            ELSE blob_set[bx].parent_index
  <2> DEFINE hung == [blob_set[child] EXCEPT !.parent_index = root]
  <2>1. blob_set[child] \in EntryType
    BY <1>1, <1>2
  <2>2. /\ hung \in EntryType /\ hung.parent_index = root
        /\ hung.rank = blob_set[child].rank
        /\ hung.root_list_index = blob_set[child].root_list_index
    BY <2>1 DEF EntryType
  <2>3. blob_set' = [blob_set EXCEPT ![child] = hung]
    OBVIOUS
  <2> HIDE DEF hung
  <2>4. \A bx \in Entry : blob_set'[bx] = IF bx = child THEN hung ELSE blob_set[bx]
    BY <1>1, <1>2, <2>3
  <2>5. blob_set' \in [0 .. MaxRuns -> EntryType]
    BY <1>1, <1>2, <2>2, <2>3
  <2> QED BY <2>2, <2>4, <2>5
<1>4. child # root
  OBVIOUS
<1>5. \A bx \in Entry : IsRoot(bx)' <=> IsRoot(bx)
  BY <1>3, <1>4 DEF IsRoot
<1>6. ForestType'
  <2>1. EntryType' = EntryType
    BY <1>1 DEF EntryType
  <2> QED BY <1>1, <1>3, <2>1 DEF ForestInv, ForestType
<1>7. RootsListed'
  BY <1>1, <1>3, <1>5 DEF ForestInv, RootsListed
<1>8. ParentsInUse'
  BY <1>1, <1>3 DEF ForestInv, ParentsInUse
<1>9. RanksIncrease'
  BY <1>1, <1>3, <1>5 DEF ForestInv, RanksIncrease, ParentsInUse
<1> QED BY <1>1, <1>3, <1>5, <1>6, <1>7, <1>8, <1>9 DEF ForestInv
-----------------------------------------------------------------------------
(* Statistics *)

\* stats_add stays inside the image.
LEMMA StatsAddType ==
    ASSUME NEW a \in Stats, NEW b \in Stats
    PROVE  StatsAdd(a, b) \in Stats
<1>1. /\ \A m, n \in 0 .. Cols - 1 : Lower(m, n) \in 0 .. Cols - 1 /\ Higher(m, n) \in 0 .. Cols - 1
      /\ \A m, n \in 0 .. Rows - 1 : Lower(m, n) \in 0 .. Rows - 1 /\ Higher(m, n) \in 0 .. Rows - 1
  BY DEF Lower, Higher
<1>2. /\ a.sum_x + b.sum_x \in Nat /\ a.sum_y + b.sum_y \in Nat /\ a.count + b.count \in Nat
  BY DEF Stats
<1> QED BY <1>1, <1>2 DEF Stats, StatsAdd

-----------------------------------------------------------------------------
(* set_parent of a root: its root_info entry goes, the last one takes its place *)

\* The child hangs below the parent, whose statistics are the sum of both; the
\* other roots keep theirs, wherever delete_root_list_entry has put them.
Absorbed(child, parent) ==
    /\ UNCHANGED used_blob_set_count
    /\ \A bx \in Entry :
          blob_set'[bx].parent_index = IF bx = child THEN parent
                                       ELSE blob_set[bx].parent_index
    /\ \A bx \in Entry :
          IsRoot(bx) /\ bx # child =>
             RootStats(bx)' = IF bx = parent THEN StatsAdd(RootStats(parent), RootStats(child))
                              ELSE RootStats(bx)

\* set_parent of a root keeps the forest and the list.
LEMMA AbsorbKeeps ==
    ASSUME ForestInv, NEW child \in Entry, NEW parent \in Entry, child # parent,
           IsRoot(child), IsRoot(parent),
           NEW ranked \in [0 .. MaxRuns -> EntryType],
           \A bx \in Entry : /\ ranked[bx].parent_index = blob_set[bx].parent_index
                             /\ ranked[bx].root_list_index = blob_set[bx].root_list_index
                             /\ ranked[bx].rank >= blob_set[bx].rank
                             /\ bx # parent => ranked[bx].rank = blob_set[bx].rank,
           ranked[child].rank < ranked[parent].rank,
           AbsorbRoot(ranked, child, parent)
    PROVE  ForestInv' /\ Entry' = Entry /\ Absorbed(child, parent)
<1> DEFINE crx == blob_set[child].root_list_index
           prx == blob_set[parent].root_list_index
           last == used_root_list_count - 1
           Info == [stats : Stats, set_index : Entry \cup {0}]
           sum == StatsAdd(root_info[prx].stats, root_info[crx].stats)
           added == [root_info EXCEPT ![prx].stats = sum]
           moved == root_info[last].set_index
<1>1. Entry' = Entry /\ Entry \subseteq 0 .. MaxRuns
  <2>1. used_blob_set_count' = used_blob_set_count
    BY Zenon DEF AbsorbRoot
  <2> QED BY <2>1, Sizes DEF Entry, ForestInv, ForestType
<1>2. /\ blob_set \in [0 .. MaxRuns -> EntryType]
      /\ root_info \in [0 .. MaxBlobs - 1 -> Info]
      /\ used_root_list_count \in 0 .. MaxBlobs
  BY DEF ForestInv, ForestType
<1>3. /\ crx \in 0 .. last /\ root_info[crx].set_index = child
      /\ prx \in 0 .. last /\ root_info[prx].set_index = parent
      /\ crx # prx
  BY RootPlace DEF UsedRoot
<1>4. /\ last \in Nat /\ last <= MaxBlobs - 1 /\ used_root_list_count = last + 1
      /\ last \in 0 .. MaxBlobs - 1 /\ crx \in 0 .. MaxBlobs - 1 /\ prx \in 0 .. MaxBlobs - 1
  BY <1>2, <1>3, Sizes
<1>5. moved \in Entry /\ IsRoot(moved) /\ blob_set[moved].root_list_index = last
  BY <1>4 DEF ForestInv, RootsListed
<1>6. /\ added \in [0 .. MaxBlobs - 1 -> Info]
      /\ \A rx \in 0 .. MaxBlobs - 1 : added[rx].set_index = root_info[rx].set_index
  <2>1. root_info[prx] \in Info /\ root_info[crx] \in Info
    BY <1>2, <1>4
  <2>2. sum \in Stats
    BY <2>1, StatsAddType
  <2> DEFINE kept == [root_info[prx] EXCEPT !.stats = sum]
  <2> HIDE DEF sum
  <2>3. kept \in Info /\ kept.set_index = root_info[prx].set_index
    BY <2>1, <2>2
  <2>4. added = [root_info EXCEPT ![prx] = kept]
    OBVIOUS
  <2> HIDE DEF kept, Info, added
  <2>5. added \in [0 .. MaxBlobs - 1 -> Info]
    BY <1>2, <2>3, <2>4
  <2>6. \A rx \in 0 .. MaxBlobs - 1 : added[rx] = IF rx = prx THEN kept ELSE root_info[rx]
    BY <1>2, <1>4, <2>4
  <2> QED BY <2>3, <2>5, <2>6
<1> HIDE DEF sum, Info, added
<1>7. added[last].set_index = moved
  BY <1>4, <1>6
<1>8. /\ root_info' = [added EXCEPT ![crx] = added[last]]
      /\ used_root_list_count' = last /\ used_blob_set_count' = used_blob_set_count
      /\ blob_set' = [[ranked EXCEPT ![moved].root_list_index = crx]
                         EXCEPT ![child].root_list_index = NOT_A_ROOT_LIST_INDEX,
                                ![child].parent_index = parent]
  BY <1>7 DEF AbsorbRoot, added, sum
<1> HIDE DEF moved, last
<1>9. /\ root_info' \in [0 .. MaxBlobs - 1 -> Info]
      /\ \A rx \in 0 .. MaxBlobs - 1 :
            root_info'[rx].set_index = IF rx = crx THEN moved ELSE root_info[rx].set_index
  BY <1>4, <1>6, <1>7, <1>8
<1>10. /\ blob_set' \in [0 .. MaxRuns -> EntryType]
       /\ \A bx \in Entry :
            /\ blob_set'[bx].parent_index = IF bx = child THEN parent
                                            ELSE blob_set[bx].parent_index
            /\ blob_set'[bx].root_list_index =
                  IF bx = child THEN NOT_A_ROOT_LIST_INDEX
                  ELSE IF bx = moved THEN crx ELSE blob_set[bx].root_list_index
            /\ blob_set'[bx].rank = ranked[bx].rank
  <2> DEFINE told == [ranked[moved] EXCEPT !.root_list_index = crx]
             first == [ranked EXCEPT ![moved] = told]
             off == [first[child] EXCEPT !.root_list_index = NOT_A_ROOT_LIST_INDEX,
                                         !.parent_index = parent]
  <2>1. ranked[moved] \in EntryType /\ ranked[child] \in EntryType /\ crx \in 0 .. NOT_A_ROOT_LIST_INDEX
    BY <1>1, <1>2, <1>5 DEF EntryType
  <2>2. /\ told \in EntryType /\ told.rank = ranked[moved].rank
        /\ told.parent_index = ranked[moved].parent_index /\ told.root_list_index = crx
    BY <2>1 DEF EntryType
  <2> HIDE DEF told
  <2>3. /\ first \in [0 .. MaxRuns -> EntryType]
        /\ \A bx \in Entry : first[bx] = IF bx = moved THEN told ELSE ranked[bx]
    BY <1>1, <1>5, <2>2
  <2>4. first[child] \in EntryType /\ first[child].rank = ranked[child].rank
    BY <1>1, <2>2, <2>3
  <2>5. blob_set' = [first EXCEPT ![child] = off]
    BY <1>8 DEF told
  <2> HIDE DEF first
  <2>6. /\ off \in EntryType /\ off.rank = ranked[child].rank /\ off.parent_index = parent
        /\ off.root_list_index = NOT_A_ROOT_LIST_INDEX
    <3>1. NOT_A_ROOT_LIST_INDEX \in 0 .. NOT_A_ROOT_LIST_INDEX
      BY Sizes
    <3> QED BY <2>4, <3>1 DEF EntryType
  <2> HIDE DEF off
  <2>7. /\ blob_set' \in [0 .. MaxRuns -> EntryType]
        /\ \A bx \in Entry : blob_set'[bx] = IF bx = child THEN off ELSE first[bx]
    BY <1>1, <2>3, <2>5, <2>6
  <2> QED BY <2>2, <2>3, <2>6, <2>7
<1>11. \A bx \in Entry : IsRoot(bx)' <=> IsRoot(bx) /\ bx # child
  BY <1>10 DEF IsRoot
<1>12. ForestType'
  <2>1. EntryType' = EntryType
    BY <1>1 DEF EntryType
  <2>2. used_root_list_count' \in 0 .. MaxBlobs
    BY <1>4, <1>8, Sizes
  <2>3. root_info' \in [0 .. MaxBlobs - 1 -> [stats : Stats, set_index : Entry' \cup {0}]]
    BY <1>1, <1>9 DEF Info
  <2>4. used_blob_set_count' \in 1 .. MaxRuns + 1
    BY <1>8 DEF ForestInv, ForestType
  <2> QED BY <1>10, <2>1, <2>2, <2>3, <2>4 DEF ForestType
<1>13. RootsListed'
  <2>1. ASSUME NEW rx \in 0 .. last - 1
        PROVE  /\ root_info'[rx].set_index \in Entry
               /\ IsRoot(root_info[rx].set_index)'
               /\ blob_set'[root_info'[rx].set_index].root_list_index = rx
    <3>1. rx \in 0 .. MaxBlobs - 1 /\ rx \in 0 .. used_root_list_count - 1 /\ rx # last
      BY <1>4, Sizes
    <3>2. CASE rx = crx
      <4>1. moved # child
        BY <1>5, <3>1, <3>2
      <4> QED BY <1>5, <1>9, <1>10, <1>11, <3>1, <3>2, <4>1 DEF IsRoot
    <3>3. CASE rx # crx
      <4> DEFINE bx == root_info[rx].set_index
      <4>1. bx \in Entry /\ IsRoot(bx) /\ blob_set[bx].root_list_index = rx
        BY <3>1 DEF ForestInv, RootsListed
      <4>2. bx # child /\ bx # moved
        BY <1>5, <3>1, <3>3, <4>1
      <4>3. root_info'[rx].set_index = bx
        BY <1>9, <3>1, <3>3
      <4> HIDE DEF bx
      <4> QED BY <1>10, <1>11, <4>1, <4>2, <4>3 DEF IsRoot
    <3> QED BY <3>2, <3>3
  <2>2. ASSUME NEW bx \in Entry
        PROVE  IF IsRoot(bx)'
               THEN /\ blob_set'[bx].root_list_index \in 0 .. last - 1
                    /\ root_info'[blob_set'[bx].root_list_index].set_index = bx
               ELSE blob_set'[bx].root_list_index = NOT_A_ROOT_LIST_INDEX
    <3>1. CASE bx = child
      BY <1>10, <1>11, <3>1
    <3>2. CASE bx # child /\ IsRoot(bx) /\ bx = moved
      <4>1. crx # last
        BY <1>3, <3>2 DEF moved
      <4>2. crx \in 0 .. last - 1
        BY <1>3, <1>4, <4>1
      <4> QED BY <1>4, <1>9, <1>10, <1>11, <3>2, <4>2
    <3>3. CASE bx # child /\ IsRoot(bx) /\ bx # moved
      <4> DEFINE rx == blob_set[bx].root_list_index
      <4>1. rx \in 0 .. last /\ root_info[rx].set_index = bx
        BY <1>4, <3>3, RootPlace DEF UsedRoot
      <4>2. rx # last /\ rx # crx
        BY <1>3, <3>3, <4>1 DEF moved
      <4>3. rx \in 0 .. last - 1 /\ rx \in 0 .. MaxBlobs - 1
        BY <1>4, <4>1, <4>2, Sizes
      <4> QED BY <1>9, <1>10, <1>11, <3>3, <4>1, <4>2, <4>3
    <3>4. CASE bx # child /\ ~IsRoot(bx)
      <4>1. blob_set[bx].root_list_index = NOT_A_ROOT_LIST_INDEX /\ bx # moved
        BY <1>5, <3>4 DEF ForestInv, RootsListed
      <4> QED BY <1>10, <1>11, <3>4, <4>1
    <3> QED BY <3>1, <3>2, <3>3, <3>4
  <2>3. used_root_list_count' = last
    BY <1>8
  <2> QED BY <1>1, <2>1, <2>2, <2>3 DEF RootsListed, IsRoot
<1>14. ParentsInUse'
  BY <1>1, <1>10 DEF ForestInv, ParentsInUse
<1>15. RanksIncrease'
  <2>1. ASSUME NEW bx \in Entry, ~IsRoot(bx)'
        PROVE  blob_set'[bx].rank < blob_set'[blob_set'[bx].parent_index].rank
    <3>1. CASE bx = child
      BY <1>10, <3>1
    <3>2. CASE bx # child
      <4>1. ~IsRoot(bx) /\ bx # parent
        BY <1>11, <2>1, <3>2
      <4>2. PICK up \in Entry : up = blob_set[bx].parent_index
        BY DEF ForestInv, ParentsInUse
      <4>3. /\ blob_set[bx].rank < blob_set[up].rank
            /\ ranked[bx].rank = blob_set[bx].rank /\ ranked[up].rank >= blob_set[up].rank
        BY <4>1, <4>2 DEF ForestInv, RanksIncrease
      <4>4. blob_set[bx].rank \in Nat /\ blob_set[up].rank \in Nat /\ ranked[up].rank \in Nat
        BY <1>1, <1>2 DEF EntryType
      <4>5. ranked[bx].rank < ranked[up].rank
        BY <4>3, <4>4
      <4> QED BY <1>10, <3>2, <4>2, <4>5
    <3> QED BY <3>1, <3>2
  <2> QED BY <1>1, <2>1 DEF RanksIncrease
<1>16. ASSUME NEW bx \in Entry, IsRoot(bx), bx # child
       PROVE  RootStats(bx)' = IF bx = parent THEN StatsAdd(RootStats(parent), RootStats(child))
                               ELSE RootStats(bx)
  <2> DEFINE rx == blob_set[bx].root_list_index
             rxNow == blob_set'[bx].root_list_index
  <2>1. rx \in 0 .. last /\ root_info[rx].set_index = bx /\ rx \in 0 .. MaxBlobs - 1
    <3>1. rx \in 0 .. last /\ root_info[rx].set_index = bx
      BY <1>4, <1>16, RootPlace DEF UsedRoot
    <3> HIDE DEF rx
    <3> QED BY <1>4, <3>1, Sizes
  <2>2. rx # crx
    BY <1>3, <1>16, <2>1
  <2>3. root_info'[rxNow] = added[rx]
    <3>1. CASE bx = moved
      <4>1. rx = last /\ rxNow = crx
        BY <1>5, <1>10, <1>16, <3>1
      <4> HIDE DEF rx, rxNow
      <4> QED BY <1>4, <1>6, <1>8, <4>1
    <3>2. CASE bx # moved
      <4>1. rxNow = rx
        BY <1>10, <1>16, <3>2
      <4> HIDE DEF rx, rxNow
      <4> QED BY <1>4, <1>6, <1>8, <2>1, <2>2, <4>1
    <3> QED BY <3>1, <3>2
  <2>4. added[rx].stats = IF rx = prx THEN sum ELSE root_info[rx].stats
    <3>1. root_info[rx] \in [stats : Stats, set_index : Entry \cup {0}]
      BY <1>2, <2>1 DEF Info
    <3> HIDE DEF rx, prx
    <3> QED BY <1>2, <1>4, <2>1, <3>1 DEF added, Info
  <2>5. rx = prx <=> bx = parent
    BY <1>3, <2>1
  <2> QED BY <2>3, <2>4, <2>5 DEF RootStats, sum
<1>17. Absorbed(child, parent)
  BY <1>8, <1>10, <1>16 DEF Absorbed
<1> QED BY <1>1, <1>12, <1>13, <1>14, <1>15, <1>17 DEF ForestInv
-----------------------------------------------------------------------------
(* link *)

\* link absorbs one of the two roots.
LEMMA LinkKeeps ==
    ASSUME ForestInv, NEW s \in Entry, NEW t \in Entry, s # t,
           IsRoot(s), IsRoot(t), Link(s, t)
    PROVE  /\ ForestInv' /\ Entry' = Entry /\ LinkRoot(s, t) \in Entry
           /\ Absorbed(s, t) \/ Absorbed(t, s)
<1>1. /\ Entry \subseteq 0 .. MaxRuns
      /\ blob_set \in [0 .. MaxRuns -> EntryType]
  BY Sizes DEF Entry, ForestInv, ForestType
<1>2. \A bx \in Entry : blob_set[bx] \in EntryType /\ blob_set[bx].rank \in Nat
  BY <1>1 DEF EntryType
<1>3. CASE blob_set[s].rank > blob_set[t].rank
  <2>1. AbsorbRoot(blob_set, t, s)
    BY <1>3 DEF Link
  <2>2. \A bx \in Entry : blob_set[bx].rank >= blob_set[bx].rank
    BY <1>2
  <2>3. blob_set[t].rank < blob_set[s].rank
    BY <1>2, <1>3
  <2> QED BY <1>1, <2>1, <2>2, <2>3, AbsorbKeeps DEF LinkRoot
<1>4. CASE ~(blob_set[s].rank > blob_set[t].rank) /\ blob_set[s].rank # blob_set[t].rank
  <2>1. AbsorbRoot(blob_set, s, t)
    BY <1>4 DEF Link
  <2>2. \A bx \in Entry : blob_set[bx].rank >= blob_set[bx].rank
    BY <1>2
  <2>3. blob_set[s].rank < blob_set[t].rank
    BY <1>2, <1>4
  <2> QED BY <1>1, <2>1, <2>2, <2>3, AbsorbKeeps DEF LinkRoot
<1>5. CASE ~(blob_set[s].rank > blob_set[t].rank) /\ blob_set[s].rank = blob_set[t].rank
  <2> DEFINE raised == [blob_set[t] EXCEPT !.rank = blob_set[t].rank + 1]
             ranked == [blob_set EXCEPT ![t] = raised]
  <2>1. AbsorbRoot(ranked, s, t)
    BY <1>5 DEF Link
  <2>2. /\ raised \in EntryType /\ raised.rank = blob_set[t].rank + 1
        /\ raised.parent_index = blob_set[t].parent_index
        /\ raised.root_list_index = blob_set[t].root_list_index
    BY <1>2 DEF EntryType
  <2> HIDE DEF raised
  <2>3. /\ ranked \in [0 .. MaxRuns -> EntryType]
        /\ \A bx \in Entry : ranked[bx] = IF bx = t THEN raised ELSE blob_set[bx]
    BY <1>1, <2>2
  <2> HIDE DEF ranked
  <2>4. \A bx \in Entry : /\ ranked[bx].parent_index = blob_set[bx].parent_index
                          /\ ranked[bx].root_list_index = blob_set[bx].root_list_index
                          /\ ranked[bx].rank >= blob_set[bx].rank
                          /\ bx # t => ranked[bx].rank = blob_set[bx].rank
    BY <1>2, <2>2, <2>3
  <2>5. ranked[s].rank < ranked[t].rank
    BY <1>2, <1>5, <2>2, <2>3
  <2> QED BY <1>5, <2>1, <2>3, <2>4, <2>5, AbsorbKeeps DEF LinkRoot
<1> QED BY <1>3, <1>4, <1>5

-----------------------------------------------------------------------------
(* A run is added to a set: only statistics change *)

\* stats_init of a run of the image.
LEMMA StatsOfType ==
    ASSUME NEW row \in 0 .. Rows - 1, NEW r, r.run_low \in 0 .. Cols - 1,
           r.run_high \in 1 .. Cols, r.run_low < r.run_high
    PROVE  StatsOf(row, r) \in Stats
<1> DEFINE low == r.run_low
           high == r.run_high
           count == high - low
<1>1. low \in Nat /\ high \in Nat /\ row \in Nat /\ count \in Nat /\ low + high - 1 \in Nat
  BY Sizes
<1>2. high - 1 \in 0 .. Cols - 1
  BY Sizes
<1>3. \A m, n \in Nat : m * n \in Nat
  OBVIOUS
<1>4. \A n \in Nat : n \div 2 \in Nat
  OBVIOUS
<1>5. ((low + high - 1) * count) \div 2 \in Nat /\ row * count \in Nat
  BY <1>1, <1>3, <1>4
<1>6. StatsOf(row, r) = [min_x |-> low, max_x |-> high - 1, min_y |-> row, max_y |-> row,
                         sum_x |-> ((low + high - 1) * count) \div 2,
                         sum_y |-> row * count, count |-> count]
  BY DEF StatsOf, RunCount
<1> DEFINE sumx == ((low + high - 1) * count) \div 2
           sumy == row * count
<1> HIDE DEF sumx, sumy
<1>7. sumx \in Nat /\ sumy \in Nat
  BY <1>5 DEF sumx, sumy
<1> QED BY <1>1, <1>2, <1>6, <1>7 DEF Stats, sumx, sumy

\* stats_add_singleton stays inside the image.
LEMMA StatsAddSingletonType ==
    ASSUME NEW s \in Stats, NEW row \in 0 .. Rows - 1, NEW r, r.run_low \in 0 .. Cols - 1,
           r.run_high \in 1 .. Cols, r.run_low < r.run_high
    PROVE  StatsAddSingleton(s, row, r) \in Stats
<1> DEFINE sum == StatsAdd(s, StatsOf(row, r))
<1>1. sum \in Stats
  BY StatsOfType, StatsAddType
<1>2. s.max_y \in 0 .. Rows - 1
  BY DEF Stats
<1> HIDE DEF sum
<1> DEFINE y == IF row > sum.min_y THEN row ELSE s.max_y
<1>3. y \in 0 .. Rows - 1
  BY <1>2
<1> HIDE DEF y
<1>4. [sum EXCEPT !.max_y = y] \in Stats
  BY <1>1, <1>3 DEF Stats
<1> QED BY <1>4 DEF StatsAddSingleton, sum, y

\* A run added to a root leaves the forest and the list as they are.
LEMMA AddStatsKeeps ==
    ASSUME ForestInv, NEW rx \in 0 .. MaxBlobs - 1, NEW s \in Stats,
           root_info' = [root_info EXCEPT ![rx].stats = s],
           UNCHANGED <<blob_set, used_blob_set_count, used_root_list_count>>
    PROVE  ForestInv' /\ Entry' = Entry
<1> DEFINE Info == [stats : Stats, set_index : Entry \cup {0}]
           kept == [root_info[rx] EXCEPT !.stats = s]
<1>1. root_info \in [0 .. MaxBlobs - 1 -> Info] /\ used_root_list_count \in 0 .. MaxBlobs
  BY DEF ForestInv, ForestType
<1>2. Entry' = Entry
  BY DEF Entry
<1>3. kept \in Info /\ kept.set_index = root_info[rx].set_index
  BY <1>1
<1> HIDE DEF Info
<1>4. /\ root_info' \in [0 .. MaxBlobs - 1 -> Info]
      /\ \A x \in 0 .. MaxBlobs - 1 : root_info'[x].set_index = root_info[x].set_index
  BY <1>1, <1>3
<1>5. ForestType'
  BY <1>2, <1>4 DEF ForestInv, ForestType, EntryType, Info
<1>6. 0 .. used_root_list_count - 1 \subseteq 0 .. MaxBlobs - 1
  BY <1>1, Sizes
<1>7. RootsListed'
  BY <1>2, <1>4, <1>6 DEF ForestInv, RootsListed, IsRoot
<1>8. ParentsInUse' /\ RanksIncrease'
  BY <1>2 DEF ForestInv, ParentsInUse, RanksIncrease, IsRoot
<1> QED BY <1>2, <1>5, <1>7, <1>8 DEF ForestInv
-----------------------------------------------------------------------------
(* The scan *)

\* A row of runs as the scan holds it.
RunsOK(s) == s \in Seq(YuvRun) /\ \A i \in 1 .. Len(s) : s[i].run_low < s[i].run_high

\* Two rows are held only when as many have been read.
ScanInv ==
    /\ image \in Seq(RowRuns) /\ Len(image) <= Rows
    /\ RunsOK(prev) /\ RunsOK(cur)
    /\ cur # <<>> => Len(image) >= 1
    /\ prev # <<>> => Len(image) >= 2
    /\ ai \in 1 .. Len(prev) + 1 /\ bi \in 1 .. Len(cur) + 1

\* find_root runs inside a union of two runs; the nodes it has passed are no
\* roots and lie below the node it has come to.
FindPhase ==
    /\ pc \in {"row", "walk", "descend", "unwind", "done"}
    /\ finding \in {"none", "singleton", "first", "second"}
    /\ finding = "none" <=> pc \in {"row", "walk", "done"}
    /\ node \in Entry \cup {0} /\ a_root \in Entry \cup {0} /\ path \in Seq(Entry)
    /\ finding = "none" => path = <<>>
    /\ finding # "none" => MorePairs /\ node \in Entry
    /\ finding = "singleton" => (a_parent = 0) # (b_parent = 0)
    /\ finding \in {"first", "second"} => a_parent # 0 /\ b_parent # 0
    /\ finding = "second" => a_root \in Entry /\ IsRoot(a_root)
    /\ pc = "unwind" => IsRoot(node)

PathBelow ==
    \A k \in 1 .. Len(path) :
        ~IsRoot(path[k]) /\ blob_set[path[k]].rank < blob_set[node].rank

FindInv == FindPhase /\ PathBelow

IInv == ForestInv /\ ScanInv /\ FindInv

\* The run at a position of a row.
LEMMA RunIsTyped ==
    ASSUME NEW s, RunsOK(s), NEW i \in 1 .. Len(s)
    PROVE  /\ s[i] \in YuvRun
           /\ s[i].parent_index \in Entry \cup {0}
           /\ s[i].run_low \in 0 .. Cols - 1 /\ s[i].run_high \in 1 .. Cols
           /\ s[i].run_low < s[i].run_high
<1>1. s[i] \in YuvRun
  BY ElementOfSeq DEF RunsOK
<1> QED BY <1>1 DEF RunsOK, YuvRun

\* The two runs under the walk, and the numbers of their rows.
LEMMA PairType ==
    ASSUME ScanInv, MorePairs
    PROVE  /\ ai \in 1 .. Len(prev) /\ bi \in 1 .. Len(cur)
           /\ a_parent \in Entry \cup {0} /\ b_parent \in Entry \cup {0}
           /\ ii \in 0 .. Rows - 1 /\ ii - 1 \in 0 .. Rows - 1
<1>1. ai \in 1 .. Len(prev) /\ bi \in 1 .. Len(cur)
  BY DEF ScanInv, MorePairs
<1>2. a_parent \in Entry \cup {0} /\ b_parent \in Entry \cup {0}
  BY <1>1, RunIsTyped DEF ScanInv, a_parent, b_parent
<1>3. prev # <<>>
  BY <1>1
<1>4. Len(image) \in Nat /\ Len(image) >= 2 /\ Len(image) <= Rows
  BY <1>3 DEF ScanInv
<1> QED BY <1>1, <1>2, <1>4, Sizes DEF ii

\* The walk goes at most one past the end of a row.
LEMMA AdvanceInRange ==
    ASSUME ScanInv, MorePairs, Advance
    PROVE  ai' \in 1 .. Len(prev) + 1 /\ bi' \in 1 .. Len(cur) + 1
<1>1. ai \in 1 .. Len(prev) /\ bi \in 1 .. Len(cur) /\ Len(prev) \in Nat /\ Len(cur) \in Nat
  BY PairType DEF ScanInv, RunsOK
<1>2. \/ ai' = ai + 1 /\ bi' = bi
      \/ ai' = ai /\ bi' = bi + 1
  BY DEF Advance
<1> QED BY <1>1, <1>2

\* A run keeps its columns when it is told its set.
LEMMA ToldRuns ==
    ASSUME NEW s, RunsOK(s), NEW i \in 1 .. Len(s), NEW root \in Entry', Entry \subseteq Entry'
    PROVE  LET t == [s EXCEPT ![i].parent_index = root]
           IN  RunsOK(t)' /\ Len(t) = Len(s) /\ (t = <<>> <=> s = <<>>)
<1> DEFINE told == [s[i] EXCEPT !.parent_index = root]
           t == [s EXCEPT ![i] = told]
<1>1. /\ told \in YuvRun' /\ told.run_low = s[i].run_low /\ told.run_high = s[i].run_high
  <2>1. s[i] \in YuvRun
    BY RunIsTyped
  <2> QED BY <2>1 DEF YuvRun
<1>2. s \in Seq(YuvRun) /\ Len(s) \in Nat /\ s \in [1 .. Len(s) -> YuvRun]
  BY DEF RunsOK
<1>3. YuvRun \subseteq YuvRun'
  <2> SUFFICES ASSUME NEW e \in YuvRun PROVE e \in YuvRun'
    OBVIOUS
  <2> QED BY DEF YuvRun
<1> HIDE DEF told
<1>4. t \in Seq(YuvRun') /\ Len(t) = Len(s)
  BY <1>1, <1>2, <1>3
<1>5. \A j \in 1 .. Len(s) : t[j] = IF j = i THEN told ELSE s[j]
  BY <1>2
<1>6. \A j \in 1 .. Len(s) : t[j].run_low < t[j].run_high
  BY <1>1, <1>5, RunIsTyped DEF RunsOK
<1>7. t = <<>> <=> s = <<>>
  BY <1>2, <1>4
<1> HIDE DEF t
<1>8. RunsOK(t)'
  BY <1>4, <1>6 DEF RunsOK
<1> QED BY <1>4, <1>7, <1>8 DEF t, told

\* A row that stays as it is keeps its parents in use.
LEMMA SameRuns ==
    ASSUME NEW s, RunsOK(s), Entry \subseteq Entry'
    PROVE  RunsOK(s)'
<1>1. YuvRun \subseteq YuvRun'
  <2> SUFFICES ASSUME NEW e \in YuvRun PROVE e \in YuvRun'
    OBVIOUS
  <2> QED BY DEF YuvRun
<1>2. s \in Seq(YuvRun)'
  BY <1>1, SeqMonotonic DEF RunsOK
<1> QED BY <1>2 DEF RunsOK
\* What the steps that leave the rows and the position alone keep.
LEMMA ScanStays ==
    ASSUME ScanInv, UNCHANGED <<rowVars, ai, bi>>, Entry' = Entry
    PROVE  ScanInv'
<1>1. RunsOK(prev)' /\ RunsOK(cur)'
  BY SameRuns DEF ScanInv, rowVars
<1> QED BY <1>1 DEF ScanInv, rowVars

\* What the steps that only go on in the rows keep.
LEMMA ScanAdvances ==
    ASSUME ScanInv, MorePairs, Advance, UNCHANGED rowVars, Entry' = Entry
    PROVE  ScanInv'
<1>1. RunsOK(prev)' /\ RunsOK(cur)'
  BY SameRuns DEF ScanInv, rowVars
<1>2. prev' = prev /\ cur' = cur /\ image' = image
  BY DEF rowVars
<1> QED BY <1>1, <1>2, AdvanceInRange DEF ScanInv

\* What the steps keep that tell both runs their set.
LEMMA ScanUnites ==
    ASSUME ScanInv, MorePairs, Advance, NEW root \in Entry', SetParents(root),
           Entry \subseteq Entry'
    PROVE  ScanInv'
<1>1. ai \in 1 .. Len(prev) /\ bi \in 1 .. Len(cur)
  BY PairType
<1>2. /\ prev' = [prev EXCEPT ![ai].parent_index = root]
      /\ cur' = [cur EXCEPT ![bi].parent_index = root]
      /\ image' = image
  BY DEF SetParents
<1>3. RunsOK(prev)' /\ Len(prev') = Len(prev) /\ (prev' = <<>> <=> prev = <<>>)
  BY <1>1, <1>2, ToldRuns DEF ScanInv, RunsOK
<1>4. RunsOK(cur)' /\ Len(cur') = Len(cur) /\ (cur' = <<>> <=> cur = <<>>)
  BY <1>1, <1>2, ToldRuns DEF ScanInv, RunsOK
<1>5. image' = image
  BY <1>2
<1> QED BY <1>3, <1>4, <1>5, AdvanceInRange DEF ScanInv

\* A union ends: the walk goes on, and no find_root is running.
LEMMA FindEnds ==
    ASSUME FindInv, path = <<>>, pc' = "walk", UnionIsOver
    PROVE  FindInv'
BY DEF FindInv, FindPhase, PathBelow, UnionIsOver

\* What the steps outside of find_root keep.
LEMMA FindIdles ==
    ASSUME FindInv, finding = "none", UNCHANGED findVars, Entry \subseteq Entry',
           pc' \in {"row", "walk", "done"}
    PROVE  FindInv'
<1>1. path = <<>> /\ node \in Entry \cup {0} /\ a_root \in Entry \cup {0}
  BY DEF FindInv, FindPhase, PathBelow
<1> QED BY <1>1 DEF FindInv, FindPhase, PathBelow, findVars

-----------------------------------------------------------------------------

\* blob_list_init and blob_list_clear.
LEMMA InitHolds == Init => IInv
<1> SUFFICES ASSUME Init PROVE IInv
  OBVIOUS
<1>1. Entry = {}
  BY DEF Init, Entry
<1>2. NoEntry \in EntryType
  BY Sizes DEF NoEntry, EntryType
<1>3. NoInfo \in [stats : Stats, set_index : Entry \cup {0}]
  <2>1. 0 \in 0 .. Rows - 1 /\ 0 \in 0 .. Cols - 1 /\ 1 \in 1 .. Cols
    BY Sizes
  <2>2. StatsOf(0, [run_low |-> 0, run_high |-> 1]) \in Stats
    BY <2>1, StatsOfType
  <2> QED BY <2>2 DEF NoInfo
<1>4. ForestType
  BY <1>2, <1>3, Sizes DEF Init, ForestType
<1>5. RootsListed /\ ParentsInUse /\ RanksIncrease
  BY <1>1 DEF Init, RootsListed, ParentsInUse, RanksIncrease
<1>6. ScanInv
  BY Sizes DEF Init, ScanInv, RunsOK
<1>7. FindInv
  BY DEF Init, FindInv, FindPhase, PathBelow
<1> QED BY <1>4, <1>5, <1>6, <1>7 DEF IInv, ForestInv

\* Every step of the scan keeps the invariant.
LEMMA StepKeeps == IInv /\ [Next]_vars => IInv'
<1> SUFFICES ASSUME IInv, [Next]_vars PROVE IInv'
  OBVIOUS
<1> USE DEF IInv
<1>0. ForestInv /\ ScanInv /\ FindInv
  OBVIOUS
<1>1. CASE NextRow
  <2>1. UNCHANGED forest /\ UNCHANGED findVars /\ Entry' = Entry
    BY <1>1 DEF NextRow, forest, Entry
  <2>2. ForestInv'
    BY <2>1 DEF ForestInv, ForestType, forest, EntryType, RootsListed,
                ParentsInUse, RanksIncrease, IsRoot
  <2>3. PICK runs \in RowRuns :
           image' = Append(image, runs) /\ cur' = Yuv(runs)
    BY <1>1 DEF NextRow
  <2>4. prev' = cur /\ ai' = 1 /\ bi' = 1 /\ Len(image) < Rows
    BY <1>1 DEF NextRow
  <2>5. /\ image' \in Seq(RowRuns) /\ Len(image') = Len(image) + 1 /\ Len(image) \in Nat
    BY <2>3 DEF ScanInv
  <2>6. RunsOK(prev)'
    BY <2>1, <2>4, SameRuns DEF ScanInv, RunsOK, YuvRun
  <2>7. RunsOK(cur)'
    <3>1. /\ runs \in Seq(PlainRun) /\ Len(runs) \in Nat
          /\ \A i \in 1 .. Len(runs) : runs[i].run_low < runs[i].run_high
      BY RowRunsAssumption
    <3>2. ASSUME NEW i \in 1 .. Len(runs)
          PROVE  [parent_index |-> 0, run_low |-> runs[i].run_low,
                  run_high |-> runs[i].run_high] \in YuvRun
      <4>1. runs[i] \in PlainRun
        BY <3>1, ElementOfSeq
      <4> QED BY <4>1 DEF PlainRun, YuvRun
    <3> DEFINE r(i) == [parent_index |-> 0, run_low |-> runs[i].run_low,
                        run_high |-> runs[i].run_high]
    <3>3. cur' = [i \in 1 .. Len(runs) |-> r(i)]
      BY <2>3 DEF Yuv
    <3>4. \A i \in 1 .. Len(runs) : r(i) \in YuvRun /\ r(i).run_low < r(i).run_high
      BY <3>1, <3>2
    <3> HIDE DEF r
    <3>5. cur' \in Seq(YuvRun) /\ Len(cur') = Len(runs)
      BY <3>1, <3>3, <3>4
    <3>6. \A i \in 1 .. Len(cur') : cur'[i].run_low < cur'[i].run_high
      BY <3>3, <3>4, <3>5
    <3>7. YuvRun' = YuvRun
      BY <2>1 DEF YuvRun
    <3> QED BY <3>5, <3>6, <3>7 DEF RunsOK
  <2>8. ScanInv'
    BY <2>4, <2>5, <2>6, <2>7, Sizes DEF ScanInv, RunsOK
  <2>9. FindInv'
    <3>1. finding = "none" /\ pc' = "walk"
      BY <1>1 DEF NextRow, FindInv, FindPhase, PathBelow
    <3> QED BY <2>1, <3>1, FindIdles
  <2> QED BY <2>2, <2>8, <2>9
<1>2. CASE EndImage \/ EndRow
  <2>1. /\ UNCHANGED forest /\ UNCHANGED findVars /\ UNCHANGED <<rowVars, ai, bi>>
        /\ Entry' = Entry /\ finding = "none" /\ pc' \in {"row", "done"}
    BY <1>2 DEF EndImage, EndRow, forest, Entry, FindInv, FindPhase, PathBelow
  <2>2. ForestInv'
    BY <2>1 DEF ForestInv, ForestType, forest, EntryType, RootsListed,
                ParentsInUse, RanksIncrease, IsRoot
  <2> QED BY <2>1, <2>2, ScanStays, FindIdles
<1>3. CASE SkipPair \/ UnionLost
  <2>1. /\ UNCHANGED forest /\ UNCHANGED findVars /\ UNCHANGED rowVars
        /\ Entry' = Entry /\ finding = "none" /\ pc' = "walk" /\ MorePairs /\ Advance
    BY <1>3 DEF SkipPair, UnionLost, forest, Entry, FindInv, FindPhase, PathBelow
  <2>2. ForestInv'
    BY <2>1 DEF ForestInv, ForestType, forest, EntryType, RootsListed,
                ParentsInUse, RanksIncrease, IsRoot
  <2> QED BY <2>1, <2>2, ScanAdvances, FindIdles
<1>4. CASE UnionNew
  <2> DEFINE s == StatsAddSingleton(StatsOf(ii - 1, prev[ai]), ii, cur[bi])
  <2>1. /\ MorePairs /\ HasRoom /\ MakeSet(s) /\ SetParents(used_blob_set_count)
        /\ Advance /\ UNCHANGED findVars /\ pc' = "walk" /\ finding = "none"
    BY <1>4 DEF UnionNew, FindInv, FindPhase, PathBelow
  <2>2. s \in Stats
    <3>1. RunsOK(prev) /\ RunsOK(cur)
      BY DEF ScanInv
    <3>2. StatsOf(ii - 1, prev[ai]) \in Stats
      BY <2>1, <3>1, PairType, RunIsTyped, StatsOfType
    <3> QED BY <2>1, <3>1, <3>2, PairType, RunIsTyped, StatsAddSingletonType
  <2> HIDE DEF s
  <2>3. ForestInv' /\ used_blob_set_count \in Entry' /\ Entry \subseteq Entry'
    BY <2>1, <2>2, MakeSetKeeps
  <2> QED BY <2>1, <2>3, ScanUnites, FindIdles
<1>5. CASE UnionSingleton \/ UnionSets
  <2>1. /\ UNCHANGED forest /\ UNCHANGED <<rowVars, ai, bi>> /\ Entry' = Entry
        /\ UNCHANGED <<path, a_root>> /\ finding = "none" /\ MorePairs
        /\ pc' = "descend"
    BY <1>5 DEF UnionSingleton, UnionSets, forest, Entry, FindInv, FindPhase, PathBelow
  <2>2. ForestInv'
    BY <2>1 DEF ForestInv, ForestType, forest, EntryType, RootsListed,
                ParentsInUse, RanksIncrease, IsRoot
  <2>3. /\ a_parent' = a_parent /\ b_parent' = b_parent /\ (MorePairs' <=> MorePairs)
    BY <2>1 DEF a_parent, b_parent, MorePairs, rowVars
  <2>4. /\ node' \in Entry
        /\ \/ finding' = "singleton" /\ (a_parent = 0) # (b_parent = 0)
           \/ finding' = "first" /\ a_parent # 0 /\ b_parent # 0
    BY <1>5, <2>1, PairType DEF UnionSingleton, UnionSets
  <2>5. path = <<>> /\ a_root \in Entry \cup {0}
    BY <2>1 DEF FindInv, FindPhase, PathBelow
  <2>6. FindInv'
    BY <2>1, <2>3, <2>4, <2>5 DEF FindInv, FindPhase, PathBelow
  <2> QED BY <2>1, <2>2, <2>6, ScanStays
<1>6. CASE Descend
  <2>1. /\ UNCHANGED forest /\ UNCHANGED <<rowVars, ai, bi>> /\ Entry' = Entry
        /\ UNCHANGED <<finding, a_root>> /\ pc = "descend" /\ finding # "none"
    BY <1>6 DEF Descend, forest, Entry, FindInv, FindPhase, PathBelow
  <2>2. ForestInv'
    BY <2>1 DEF ForestInv, ForestType, forest, EntryType, RootsListed,
                ParentsInUse, RanksIncrease, IsRoot
  <2>3. /\ a_parent' = a_parent /\ b_parent' = b_parent /\ (MorePairs' <=> MorePairs)
        /\ blob_set' = blob_set
    BY <2>1 DEF a_parent, b_parent, MorePairs, rowVars, forest
  <2>4. node \in Entry /\ path \in Seq(Entry) /\ Len(path) \in Nat
    BY <2>1 DEF FindInv, FindPhase, PathBelow
  <2>5. CASE IsRoot(node)
    <3>1. pc' = "unwind" /\ node' = node /\ path' = path /\ finding' = finding /\ a_root' = a_root
      BY <1>6, <2>5 DEF Descend
    <3>2. FindPhase'
      BY <2>1, <2>3, <2>4, <2>5, <3>1 DEF FindInv, FindPhase, IsRoot
    <3>3. PathBelow'
      BY <2>3, <2>4, <3>1 DEF FindInv, PathBelow, IsRoot
    <3> QED BY <2>1, <2>2, <3>2, <3>3, ScanStays DEF FindInv
  <2>6. CASE ~IsRoot(node)
    <3> DEFINE up == blob_set[node].parent_index
    <3>1. path' = Append(path, node) /\ node' = up /\ pc' = pc
      BY <1>6, <2>6 DEF Descend
    <3>2. up \in Entry /\ blob_set[node].rank < blob_set[up].rank
      BY <2>4, <2>6 DEF ForestInv, ParentsInUse, RanksIncrease
    <3>3. \A bx \in Entry : blob_set[bx].rank \in Nat
      <4>1. Entry \subseteq 0 .. MaxRuns /\ blob_set \in [0 .. MaxRuns -> EntryType]
        BY Sizes DEF ForestInv, ForestType, Entry
      <4> QED BY <4>1 DEF EntryType
    <3> HIDE DEF up
    <3>4. /\ path' \in Seq(Entry) /\ Len(path') = Len(path) + 1
          /\ \A k \in 1 .. Len(path) : path'[k] = path[k] /\ path[k] \in Entry
          /\ path'[Len(path) + 1] = node
      BY <2>4, <3>1, ElementOfSeq
    <3>5. \A k \in 1 .. Len(path') :
             ~IsRoot(path'[k]) /\ blob_set[path'[k]].rank < blob_set[up].rank
      <4> SUFFICES ASSUME NEW k \in 1 .. Len(path')
                   PROVE  ~IsRoot(path'[k]) /\ blob_set[path'[k]].rank < blob_set[up].rank
        OBVIOUS
      <4>1. CASE k = Len(path) + 1
        BY <2>6, <3>2, <3>4, <4>1
      <4>2. CASE k \in 1 .. Len(path)
        <5>1. ~IsRoot(path[k]) /\ blob_set[path[k]].rank < blob_set[node].rank
          BY <4>2 DEF FindInv, FindPhase, PathBelow
        <5>2. /\ blob_set[path[k]].rank \in Nat /\ blob_set[node].rank \in Nat
              /\ blob_set[up].rank \in Nat
          BY <2>4, <3>2, <3>3, <3>4, <4>2
        <5> QED BY <3>2, <3>4, <4>2, <5>1, <5>2
      <4> QED BY <2>4, <3>4, <4>1, <4>2
    <3>6. \A k \in 1 .. Len(path') :
             ~(blob_set'[path'[k]].parent_index = path'[k])
             /\ blob_set'[path'[k]].rank < blob_set'[node'].rank
      BY <2>3, <3>1, <3>5 DEF IsRoot
    <3>7. finding' = finding /\ a_root' = a_root
      BY <2>1
    <3>8. FindPhase'
      BY <2>1, <2>3, <2>4, <3>1, <3>2, <3>4, <3>7 DEF FindInv, FindPhase, IsRoot
    <3>9. PathBelow'
      BY <3>6 DEF PathBelow, IsRoot
    <3> QED BY <2>1, <2>2, <3>8, <3>9, ScanStays DEF FindInv
  <2> QED BY <2>1, <2>2, <2>5, <2>6, ScanStays
<1>7. CASE Unwind
  <2> DEFINE child == path[Len(path)]
  <2>1. /\ pc = "unwind" /\ path # <<>> /\ finding # "none"
        /\ blob_set' = [blob_set EXCEPT ![child].parent_index = node]
        /\ path' = SubSeq(path, 1, Len(path) - 1)
        /\ UNCHANGED <<used_blob_set_count, root_info, used_root_list_count>>
        /\ UNCHANGED <<rowVars, ai, bi>> /\ UNCHANGED <<pc, finding, node, a_root>>
    BY <1>7 DEF Unwind, FindInv, FindPhase, PathBelow
  <2>2. /\ node \in Entry /\ IsRoot(node)
        /\ path \in Seq(Entry) /\ Len(path) \in Nat /\ Len(path) \in 1 .. Len(path)
    BY <2>1 DEF FindInv, FindPhase, PathBelow
  <2>3. child \in Entry /\ ~IsRoot(child) /\ blob_set[child].rank < blob_set[node].rank
    BY <2>2, ElementOfSeq DEF FindInv, FindPhase, PathBelow
  <2> HIDE DEF child
  <2>4. /\ ForestInv' /\ Entry' = Entry
        /\ \A bx \in Entry : (IsRoot(bx)' <=> IsRoot(bx)) /\ blob_set'[bx].rank = blob_set[bx].rank
    BY <2>1, <2>2, <2>3, CompressKeeps
  <2>5. ScanInv'
    BY <2>1, <2>4, ScanStays
  <2>6. /\ path' \in Seq(Entry) /\ Len(path') = Len(path) - 1
        /\ \A k \in 1 .. Len(path') : k \in 1 .. Len(path) /\ path'[k] = path[k] /\ path[k] \in Entry
    <3> DEFINE n == Len(path) - 1
               short == SubSeq(path, 1, n)
    <3>1. n \in Nat /\ \A k \in 1 .. n : k \in 1 .. Len(path)
      BY <2>2
    <3>2. n \in Int /\ \A k \in 1 .. n : path[k] \in Entry
      BY <2>2, <3>1, ElementOfSeq
    <3> HIDE DEF n
    <3>3. /\ short \in Seq(Entry)
          /\ Len(short) = IF 1 <= n THEN n - 1 + 1 ELSE 0
          /\ \A k \in 1 .. n - 1 + 1 : short[k] = path[1 + k - 1]
      BY <3>2, SubSeqProperties
    <3>4. path' = short
      BY <2>1 DEF n
    <3> HIDE DEF short
    <3>5. Len(short) = n
      BY <3>1, <3>3
    <3>6. \A k \in 1 .. n : short[k] = path[k]
      BY <3>1, <3>3
    <3> QED BY <3>1, <3>2, <3>3, <3>4, <3>5, <3>6 DEF n
  <2>7. /\ a_parent' = a_parent /\ b_parent' = b_parent /\ (MorePairs' <=> MorePairs)
    BY <2>1 DEF a_parent, b_parent, MorePairs, rowVars
  <2>8. \A bx \in Entry : blob_set'[bx].parent_index = bx <=> blob_set[bx].parent_index = bx
    BY <2>4 DEF IsRoot
  <2>9. FindInv'
    <3>1. IsRoot(node)' /\ (finding = "second" => IsRoot(a_root)')
      BY <2>1, <2>2, <2>8 DEF FindInv, FindPhase, PathBelow, IsRoot
    <3>2. \A k \in 1 .. Len(path') :
             ~IsRoot(path[k])' /\ blob_set'[path'[k]].rank < blob_set'[node].rank
      <4>1. \A k \in 1 .. Len(path) :
               path[k] \in Entry =>
                  /\ ~ (blob_set'[path[k]].parent_index = path[k])
                  /\ blob_set'[path[k]].rank < blob_set'[node].rank
        BY <2>2, <2>4, <2>8 DEF FindInv, PathBelow, IsRoot
      <4> QED BY <2>6, <4>1 DEF IsRoot
    <3>3. pc' = pc /\ finding' = finding /\ node' = node /\ a_root' = a_root
      BY <2>1
    <3>4. FindPhase'
      BY <2>1, <2>2, <2>4, <2>6, <2>7, <3>1, <3>3 DEF FindInv, FindPhase
    <3>5. PathBelow'
      BY <2>6, <3>2, <3>3 DEF PathBelow, IsRoot
    <3> QED BY <3>4, <3>5 DEF FindInv
  <2> QED BY <2>4, <2>5, <2>9
<1>8. CASE FoundSingleton
  <2> DEFINE rx == blob_set[node].root_list_index
             r == IF a_parent = 0 THEN prev[ai] ELSE cur[bi]
             row == IF a_parent = 0 THEN ii - 1 ELSE ii
             s == StatsAddSingleton(root_info[rx].stats, row, r)
  <2>1. /\ pc = "unwind" /\ path = <<>> /\ finding = "singleton" /\ MorePairs
        /\ AddSingleton /\ SetParents(node) /\ Advance /\ UnionIsOver /\ pc' = "walk"
        /\ UNCHANGED <<blob_set, used_blob_set_count, used_root_list_count>>
    BY <1>8 DEF FoundSingleton, Returned, UnionIsOver, FindInv, FindPhase, PathBelow
  <2>2. node \in Entry /\ IsRoot(node)
    BY <2>1 DEF FindInv, FindPhase, PathBelow
  <2>3. rx \in 0 .. MaxBlobs - 1
    BY <2>2, RootPlace, Sizes DEF UsedRoot, ForestInv, ForestType
  <2>4. s \in Stats
    <3>1. root_info[rx].stats \in Stats
      BY <2>3 DEF ForestInv, ForestType
    <3>2. RunsOK(prev) /\ RunsOK(cur)
      BY DEF ScanInv
    <3>3. /\ row \in 0 .. Rows - 1
          /\ r.run_low \in 0 .. Cols - 1 /\ r.run_high \in 1 .. Cols /\ r.run_low < r.run_high
      BY <2>1, <3>2, PairType, RunIsTyped
    <3> HIDE DEF r, row
    <3> QED BY <3>1, <3>3, StatsAddSingletonType
  <2>5. root_info' = [root_info EXCEPT ![rx].stats = s]
    BY <2>1 DEF AddSingleton
  <2> HIDE DEF s, rx
  <2>6. ForestInv' /\ Entry' = Entry
    BY <2>1, <2>3, <2>4, <2>5, AddStatsKeeps
  <2> QED BY <2>1, <2>2, <2>6, ScanUnites, FindEnds
<1>9. CASE FoundFirst
  <2>1. /\ pc = "unwind" /\ path = <<>> /\ finding = "first" /\ MorePairs
        /\ a_root' = node /\ node' = b_parent /\ pc' = "descend" /\ finding' = "second"
        /\ UNCHANGED forest /\ UNCHANGED <<rowVars, ai, bi>> /\ UNCHANGED path
        /\ Entry' = Entry
    BY <1>9 DEF FoundFirst, Returned, FindInv, FindPhase, PathBelow, forest, Entry
  <2>2. /\ node \in Entry /\ IsRoot(node) /\ a_parent # 0 /\ b_parent # 0
        /\ b_parent \in Entry /\ blob_set' = blob_set
    BY <2>1, PairType DEF FindInv, FindPhase, PathBelow, forest
  <2>3. ForestInv'
    BY <2>1 DEF ForestInv, ForestType, forest, EntryType, RootsListed,
                ParentsInUse, RanksIncrease, IsRoot
  <2>4. /\ a_parent' = a_parent /\ b_parent' = b_parent /\ (MorePairs' <=> MorePairs)
    BY <2>1 DEF a_parent, b_parent, MorePairs, rowVars
  <2>5. FindInv'
    BY <2>1, <2>2, <2>4 DEF FindInv, FindPhase, PathBelow, IsRoot
  <2> QED BY <2>1, <2>3, <2>5, ScanStays
<1>10. CASE FoundSecond
  <2>1. /\ pc = "unwind" /\ path = <<>> /\ finding = "second" /\ MorePairs
        /\ Advance /\ UnionIsOver /\ pc' = "walk"
    BY <1>10 DEF FoundSecond, Returned, UnionIsOver, FindInv, FindPhase, PathBelow
  <2>2. node \in Entry /\ IsRoot(node) /\ a_root \in Entry /\ IsRoot(a_root)
    BY <2>1 DEF FindInv, FindPhase, PathBelow
  <2>3. CASE a_root = node
    <3>1. UNCHANGED forest /\ UNCHANGED rowVars /\ Entry' = Entry
      BY <1>10, <2>3 DEF FoundSecond, forest, Entry
    <3>2. ForestInv'
      BY <3>1 DEF ForestInv, ForestType, forest, EntryType, RootsListed,
                  ParentsInUse, RanksIncrease, IsRoot
    <3> QED BY <2>1, <3>1, <3>2, ScanAdvances, FindEnds
  <2>4. CASE a_root # node
    <3>1. Link(a_root, node) /\ SetParents(LinkRoot(a_root, node))
      BY <1>10, <2>4 DEF FoundSecond
    <3>2. ForestInv' /\ Entry' = Entry /\ LinkRoot(a_root, node) \in Entry
      BY <2>2, <2>4, <3>1, LinkKeeps
    <3> QED BY <2>1, <3>1, <3>2, ScanUnites, FindEnds
  <2> QED BY <2>3, <2>4
<1>11. CASE UNCHANGED vars
  <2>1. /\ UNCHANGED forest /\ UNCHANGED <<rowVars, ai, bi>> /\ UNCHANGED findVars
        /\ pc' = pc /\ Entry' = Entry
    BY <1>11 DEF vars, forest, Entry
  <2>2. ForestInv'
    BY <2>1 DEF ForestInv, ForestType, forest, EntryType, RootsListed,
                ParentsInUse, RanksIncrease, IsRoot
  <2>3. FindInv'
    BY <2>1 DEF FindInv, FindPhase, PathBelow, findVars, forest, IsRoot, rowVars, a_parent, b_parent, MorePairs
  <2> QED BY <2>1, <2>2, <2>3, ScanStays
<1> QED BY <1>1, <1>2, <1>3, <1>4, <1>5, <1>6, <1>7, <1>8, <1>9, <1>10, <1>11 DEF Next

\* The inductive invariant holds in every state of every scan.
THEOREM Inductive == Spec => []IInv
BY InitHolds, StepKeeps, PTL DEF Spec

\* Type correctness: no index leaves its array, no count its bound, every
\* statistic stays inside the image, whatever rows come (blob_set_init,
\* make_set, delete_root_list_entry, stats_add).
THEOREM TypeCorrect == Spec => []TypeOK
<1>1. IInv => TypeOK
  BY DEF IInv, ForestInv, ForestType, EntryType, ScanInv, RunsOK, FindInv, FindPhase, PathBelow, TypeOK
<1> QED BY <1>1, Inductive, PTL

\* The list of roots and the forest always agree (set_root_list_entry and
\* delete_root_list_entry, which moves an entry and tells its node).
THEOREM ListAndForestAgree == Spec => []RootListConsistent
<1>1. IInv => RootListConsistent
  BY DEF IInv, ForestInv, RootListConsistent
<1> QED BY <1>1, Inductive, PTL

\* Union by rank and path compression never break the order of the ranks, so
\* parent pointers have no cycle (link, find_root_recursive).
THEOREM RanksAlwaysIncrease == Spec => []RanksIncrease
<1>1. IInv => RanksIncrease
  BY DEF IInv, ForestInv
<1> QED BY <1>1, Inductive, PTL

\* The asserts of find_root, set_parent, link and yuv_run_union never fail.
THEOREM AssertsNeverFail == Spec => []AssertsHold
<1>1. IInv => AssertsHold
  <2> SUFFICES ASSUME IInv PROVE AssertsHold
    OBVIOUS
  <2>1. ForestInv /\ FindInv
    BY DEF IInv
  <2>2. pc \in {"descend", "unwind"} => node \in Entry
    BY <2>1 DEF FindInv, FindPhase, PathBelow
  <2>3. pc = "unwind" =>
           IsRoot(node) /\ blob_set[node].root_list_index # NOT_A_ROOT_LIST_INDEX
    BY <2>1, <2>2, RootPlace DEF FindInv, FindPhase, PathBelow
  <2>4. ASSUME NEW k \in 1 .. Len(path)
        PROVE  blob_set[path[k]].root_list_index = NOT_A_ROOT_LIST_INDEX
    <3>1. path[k] \in Entry /\ ~IsRoot(path[k])
      BY <2>1, ElementOfSeq DEF FindInv, FindPhase, PathBelow
    <3> QED BY <2>1, <3>1 DEF ForestInv, RootsListed
  <2>5. finding = "second" =>
           /\ a_root \in Entry /\ IsRoot(a_root)
           /\ blob_set[a_root].root_list_index \in 0 .. used_root_list_count - 1
    BY <2>1, RootPlace DEF FindInv, FindPhase, PathBelow, UsedRoot
  <2> QED BY <2>2, <2>3, <2>4, <2>5 DEF AssertsHold
<1> QED BY <1>1, Inductive, PTL

-----------------------------------------------------------------------------
(* Where parents lead.  Induction is over sets of numbers, from the         *)
(* well-foundedness of the subsets of a finite set.                         *)

\* A set of numbers that is not empty has a least one.
LEMMA Least ==
    ASSUME NEW T \in SUBSET Nat, T # {}
    PROVE  \E n \in T : \A m \in T : n <= m
<1> DEFINE R == StrictSubsetOrdering(Nat)
           F == FiniteSubsetsOf(Nat)
           segments == {1 .. n : n \in T}
<1>1. IsWellFoundedOn(R, F)
  BY FS_StrictSubsetOrderingWellFounded
<1>2. segments \subseteq F
  <2> SUFFICES ASSUME NEW n \in T PROVE 1 .. n \in F
    OBVIOUS
  <2>1. n \in Nat /\ 1 \in Int /\ n \in Int
    OBVIOUS
  <2>2. IsFiniteSet(1 .. n)
    BY <2>1, FS_Interval
  <2>3. 1 .. n \subseteq Nat
    BY <2>1
  <2> QED BY <2>2, <2>3 DEF FiniteSubsetsOf
<1>3. segments # {}
  OBVIOUS
<1> HIDE DEF F, R, segments
<1>4. PICK s \in segments : \A t \in segments : <<t, s>> \notin R
  BY <1>1, <1>2, <1>3, WFMin
<1>5. PICK n \in T : s = 1 .. n
  BY DEF segments
<1>6. ASSUME NEW m \in T, m < n PROVE FALSE
  <2>1. 1 .. m \in segments
    BY DEF segments
  <2>2. 1 .. m \subseteq 1 .. n /\ n \in 1 .. n /\ n \notin 1 .. m
    BY <1>6
  <2>3. 1 .. m \in SUBSET Nat /\ 1 .. n \in SUBSET Nat
    OBVIOUS
  <2>4. <<1 .. m, 1 .. n>> \in R
    BY <2>2, <2>3 DEF R, StrictSubsetOrdering
  <2> QED BY <1>4, <1>5, <2>1, <2>4
<1> QED BY <1>6

\* Induction, for a set of numbers.
LEMMA AllNumbers ==
    ASSUME NEW T, 0 \in T, \A k \in Nat : k \in T => k + 1 \in T
    PROVE  Nat \subseteq T
<1> DEFINE bad == {k \in Nat : k \notin T}
<1> SUFFICES ASSUME bad # {} PROVE FALSE
  OBVIOUS
<1>1. PICK k \in bad : \A m \in bad : k <= m
  BY Least
<1>2. k \in Nat /\ k # 0 /\ k \notin T
  OBVIOUS
<1>3. k - 1 \in Nat /\ k - 1 + 1 = k /\ ~(k <= k - 1)
  BY <1>2
<1>4. k - 1 \in T
  BY <1>1, <1>3
<1>5. k - 1 + 1 \in T
  BY <1>3, <1>4
<1> QED BY <1>2, <1>3, <1>5

\* A walk of n steps along p, from x.
Walk(E, p, x, n, u) ==
    u \in [0 .. n -> E] /\ u[0] = x /\ \A k \in 1 .. n : u[k] = p[u[k - 1]]

\* There is one, for any length.
LEMMA WalkExists ==
    ASSUME NEW E, NEW p \in [E -> E], NEW x \in E, NEW n \in Nat
    PROVE  \E u : Walk(E, p, x, n, u)
<1> DEFINE good == {k \in Nat : \E u : Walk(E, p, x, k, u)}
<1>1. 0 \in good
  <2> DEFINE u == [k \in 0 .. 0 |-> x]
  <2>1. u \in [0 .. 0 -> E] /\ u[0] = x /\ 1 .. 0 = {}
    OBVIOUS
  <2> HIDE DEF u
  <2>2. Walk(E, p, x, 0, u)
    BY <2>1 DEF Walk
  <2> QED BY <2>2
<1>2. ASSUME NEW k \in Nat, k \in good PROVE k + 1 \in good
  <2>1. PICK u : Walk(E, p, x, k, u)
    BY <1>2
  <2> DEFINE v == [j \in 0 .. k + 1 |-> IF j = k + 1 THEN p[u[k]] ELSE u[j]]
  <2>2. u \in [0 .. k -> E] /\ u[0] = x /\ \A j \in 1 .. k : u[j] = p[u[j - 1]]
    BY <2>1 DEF Walk
  <2>3. u[k] \in E
    BY <2>2
  <2>4. v \in [0 .. k + 1 -> E]
    BY <2>2, <2>3
  <2>5. v[0] = x
    BY <2>2
  <2>6. ASSUME NEW j \in 1 .. k + 1 PROVE v[j] = p[v[j - 1]]
    <3>1. CASE j = k + 1
      BY <2>2, <3>1
    <3>2. CASE j # k + 1
      <4>1. j \in 1 .. k /\ j - 1 \in 0 .. k /\ j - 1 # k + 1
        BY <3>2
      <4> QED BY <2>2, <3>2, <4>1
    <3> QED BY <3>1, <3>2
  <2> HIDE DEF v
  <2>7. Walk(E, p, x, k + 1, v)
    BY <2>4, <2>5, <2>6 DEF Walk
  <2> QED BY <2>7
<1> HIDE DEF good
<1>3. n \in good
  BY <1>1, <1>2, AllNumbers
<1> QED BY <1>3 DEF good

\* Parents of the entries E, with ranks that grow towards the roots.
Ranked(E, p, r) ==
    p \in [E -> E] /\ r \in [E -> Nat] /\ \A b \in E : p[b] # b => r[b] < r[p[b]]

\* A walk along such parents comes to a root in as many steps as there are entries.
LEMMA WalkEnds ==
    ASSUME NEW E, IsFiniteSet(E), NEW n \in Nat, Cardinality(E) <= n,
           NEW p, NEW r, Ranked(E, p, r), NEW x, NEW u, Walk(E, p, x, n, u)
    PROVE  u[n] \in E /\ p[u[n]] = u[n]
<1>0. /\ p \in [E -> E] /\ r \in [E -> Nat] /\ \A b \in E : p[b] # b => r[b] < r[p[b]]
      /\ \A k \in 0 .. n : u[k] \in E
      /\ \A k \in 1 .. n : u[k] = p[u[k - 1]]
  BY DEF Ranked, Walk
<1> DEFINE above(b) == {y \in E : r[y] > r[b]}
           left(b) == Cardinality(above(b))
           near == {k \in Nat : k <= n => p[u[k]] = u[k] \/ left(u[k]) + k < n}
<1>1. ASSUME NEW b \in E
      PROVE  IsFiniteSet(above(b)) /\ left(b) \in Nat /\ left(b) < n
  <2>1. above(b) \in SUBSET E /\ b \notin above(b)
    BY <1>0
  <2> HIDE DEF above
  <2>2. IsFiniteSet(above(b)) /\ left(b) <= Cardinality(E) /\ left(b) # Cardinality(E)
    BY <2>1, FS_Subset
  <2>3. left(b) \in Nat /\ Cardinality(E) \in Nat
    BY <2>2, FS_CardinalityType
  <2> QED BY <2>2, <2>3
<1>2. ASSUME NEW b \in E, p[b] # b PROVE left(p[b]) < left(b)
  <2>1. p[b] \in E /\ r[b] \in Nat /\ r[p[b]] \in Nat /\ r[b] < r[p[b]]
    BY <1>0, <1>2
  <2>2. \A y \in E : r[y] \in Nat
    BY <1>0
  <2>3. \A y \in E : r[y] > r[p[b]] => r[y] > r[b]
    BY <2>1, <2>2
  <2>4. above(p[b]) \in SUBSET above(b)
    BY <2>3
  <2>5. p[b] \in above(b) /\ p[b] \notin above(p[b])
    BY <2>1
  <2>6. IsFiniteSet(above(b)) /\ left(b) \in Nat /\ left(p[b]) \in Nat
    BY <1>1, <2>1
  <2> HIDE DEF above
  <2>7. left(p[b]) <= left(b) /\ left(b) # left(p[b])
    BY <2>4, <2>5, <2>6, FS_Subset
  <2> QED BY <2>6, <2>7
<1> HIDE DEF left, above
<1>3. 0 \in near
  <2>0. u[0] \in E
    <3>1. 0 \in 0 .. n
      OBVIOUS
    <3> QED BY <1>0, <3>1
  <2>1. left(u[0]) \in Nat /\ left(u[0]) < n
    BY <1>1, <2>0
  <2>2. left(u[0]) + 0 < n
    BY <2>1
  <2> QED BY <2>2
<1>4. ASSUME NEW k \in Nat, k \in near PROVE k + 1 \in near
  <2> SUFFICES ASSUME k + 1 <= n
               PROVE  p[u[k + 1]] = u[k + 1] \/ left(u[k + 1]) + (k + 1) < n
    BY <1>4
  <2>1. k + 1 \in 1 .. n /\ k + 1 - 1 = k /\ k \in 0 .. n /\ k <= n /\ k + 1 \in 0 .. n
    OBVIOUS
  <2>2. u[k + 1] = p[u[k]]
    BY <1>0, <2>1
  <2>3. u[k] \in E /\ u[k + 1] \in E
    BY <1>0, <2>1
  <2>4. p[u[k]] = u[k] \/ left(u[k]) + k < n
    BY <1>4, <2>1
  <2>5. CASE p[u[k]] = u[k]
    BY <2>2, <2>5
  <2>6. CASE p[u[k]] # u[k] /\ left(u[k]) + k < n
    <3>1. left(u[k + 1]) < left(u[k])
      BY <1>2, <2>2, <2>3, <2>6
    <3>2. left(u[k + 1]) \in Nat /\ left(u[k]) \in Nat
      BY <1>1, <2>3
    <3> QED BY <2>6, <3>1, <3>2
  <2> QED BY <2>4, <2>5, <2>6
<1>5. n \in near
  <2> HIDE DEF near
  <2> QED BY <1>3, <1>4, AllNumbers
<1>6. u[n] \in E
  BY <1>0
<1>7. p[u[n]] = u[n] \/ left(u[n]) + n < n
  BY <1>5
<1>8. left(u[n]) \in Nat
  BY <1>1, <1>6
<1> QED BY <1>6, <1>7, <1>8

\* Where the walk from bx ends, as the specification computes it.
Way(bs, n, bx) ==
    LET up[k \in 0 .. n] == IF k = 0 THEN bx ELSE bs[up[k - 1]].parent_index
    IN  up[n]

\* It is the walk along the parents.
LEMMA WayWalks ==
    ASSUME NEW E, NEW n \in Nat, NEW bs, NEW p \in [E -> E],
           \A b \in E : p[b] = bs[b].parent_index, NEW bx \in E
    PROVE  \E u : Walk(E, p, bx, n, u) /\ Way(bs, n, bx) = u[n]
<1> DEFINE def(u) == [k \in 0 .. n |-> IF k = 0 THEN bx ELSE bs[u[k - 1]].parent_index]
           up == CHOOSE u : u = def(u)
<1>1. PICK w : Walk(E, p, bx, n, w)
  BY WalkExists
<1>2. w = def(w)
  <2>0. w \in [0 .. n -> E] /\ w[0] = bx /\ \A k \in 1 .. n : w[k] = p[w[k - 1]]
    BY <1>1 DEF Walk
  <2>1. ASSUME NEW k \in 0 .. n PROVE w[k] = IF k = 0 THEN bx ELSE bs[w[k - 1]].parent_index
    <3>1. CASE k = 0
      BY <2>0, <3>1
    <3>2. CASE k # 0
      <4>1. k \in 1 .. n /\ k - 1 \in 0 .. n
        BY <3>2
      <4>2. w[k - 1] \in E
        BY <2>0, <4>1
      <4> QED BY <2>0, <3>2, <4>1, <4>2
    <3> QED BY <3>1, <3>2
  <2> QED BY <2>0, <2>1
<1>3. up = def(up)
  <2> HIDE DEF def
  <2> QED BY <1>2
<1> HIDE DEF up
<1>4. \A k \in 0 .. n : up[k] = IF k = 0 THEN bx ELSE bs[up[k - 1]].parent_index
  <2>1. \A g, k : g = def(up) /\ k \in 0 .. n => g[k] = IF k = 0 THEN bx ELSE bs[up[k - 1]].parent_index
    OBVIOUS
  <2> QED BY <1>3, <2>1
<1>5. up[0] = bx
  BY <1>4
<1>6. \A k \in 1 .. n : up[k] = bs[up[k - 1]].parent_index
  BY <1>4
<1> DEFINE good == {k \in Nat : k <= n => up[k] \in E}
<1>7. Nat \subseteq good
  <2>1. 0 \in good
    BY <1>5
  <2>2. ASSUME NEW k \in Nat, k \in good PROVE k + 1 \in good
    <3>1. CASE k + 1 <= n
      <4>1. up[k] \in E
        BY <2>2, <3>1
      <4>2. k + 1 \in 1 .. n /\ k + 1 - 1 = k
        BY <3>1
      <4>3. up[k + 1] = p[up[k]] /\ p[up[k]] \in E
        BY <1>6, <4>1, <4>2
      <4> QED BY <4>3
    <3>2. CASE ~(k + 1 <= n)
      BY <3>2
    <3> QED BY <3>1, <3>2
  <2> HIDE DEF good
  <2> QED BY <2>1, <2>2, AllNumbers
<1>8. \A k \in 0 .. n : up[k] \in E
  BY <1>7
<1>9. up \in [0 .. n -> E]
  <2>1. up = [k \in 0 .. n |-> up[k]]
    BY <1>3
  <2> QED BY <1>8, <2>1
<1>10. \A k \in 1 .. n : up[k] = p[up[k - 1]]
  <2> SUFFICES ASSUME NEW k \in 1 .. n PROVE up[k] = p[up[k - 1]]
    OBVIOUS
  <2>1. up[k - 1] \in E
    BY <1>8
  <2> QED BY <1>6, <2>1
<1>11. Way(bs, n, bx) = up[n]
  BY DEF Way, up
<1>12. Walk(E, p, bx, n, up)
  BY <1>5, <1>9, <1>10 DEF Walk
<1> QED BY <1>11, <1>12

\* rho says of each entry what it says of the entry's parent, and of a root the
\* root itself.
RootsBy(E, p, rho) == \A b \in E : rho[b] = IF p[b] = b THEN b ELSE rho[p[b]]

\* Such a map says where the walk ends.
LEMMA WayEnds ==
    ASSUME NEW E, IsFiniteSet(E), NEW n \in Nat, Cardinality(E) <= n, NEW bs,
           NEW p, NEW r, Ranked(E, p, r), \A b \in E : p[b] = bs[b].parent_index,
           NEW rho, RootsBy(E, p, rho), NEW bx \in E
    PROVE  Way(bs, n, bx) = rho[bx] /\ p[rho[bx]] = rho[bx] /\ rho[bx] \in E
<1>0. p \in [E -> E] /\ \A b \in E : p[b] # b => rho[b] = rho[p[b]]
  BY DEF Ranked, RootsBy
<1>1. PICK u : Walk(E, p, bx, n, u) /\ Way(bs, n, bx) = u[n]
  BY <1>0, WayWalks
<1>2. u[n] \in E /\ p[u[n]] = u[n]
  BY <1>1, WalkEnds
<1>3. /\ \A k \in 0 .. n : u[k] \in E
      /\ \A k \in 1 .. n : u[k] = p[u[k - 1]]
      /\ u[0] = bx
  BY <1>1 DEF Walk
<1> DEFINE good == {k \in Nat : k <= n => rho[u[k]] = rho[bx]}
<1>4. 0 \in good
  BY <1>3
<1>5. ASSUME NEW k \in Nat, k \in good PROVE k + 1 \in good
  <2> SUFFICES ASSUME k + 1 <= n PROVE rho[u[k + 1]] = rho[bx]
    OBVIOUS
  <2>1. k + 1 \in 1 .. n /\ k + 1 - 1 = k /\ k \in 0 .. n
    OBVIOUS
  <2>2. u[k + 1] = p[u[k]] /\ u[k] \in E
    BY <1>3, <2>1
  <2>3. rho[u[k]] = rho[bx]
    BY <1>5
  <2>4. rho[p[u[k]]] = rho[u[k]]
    BY <1>0, <2>2
  <2> QED BY <2>2, <2>3, <2>4
<1>6. rho[u[n]] = rho[bx]
  <2>1. n \in good
    <3> HIDE DEF good
    <3> QED BY <1>4, <1>5, AllNumbers
  <2> QED BY <2>1
<1>7. rho[u[n]] = u[n]
  BY <1>2 DEF RootsBy
<1> QED BY <1>1, <1>2, <1>6, <1>7

-----------------------------------------------------------------------------
(* Blobs, from a map of the entries to their roots *)

Blob(E, rho, count, r) == [members |-> {b \in E : rho[b] = r}, count |-> count]

BlobsBy(E, R, rho, counts) == {Blob(E, rho, counts[r], r) : r \in R}

\* rho maps the entries E to the roots R, and a root to itself.
RootsTo(E, R, rho) ==
    R \in SUBSET E /\ (\A b \in E : rho[b] \in R) /\ (\A r \in R : rho[r] = r)

Agree(S, f, g) == \A x \in S : f[x] = g[x]

Rehung(E, rhoNew, rho, child, parent) ==
    \A b \in E : rhoNew[b] = IF rho[b] = child THEN parent ELSE rho[b]

\* after is before with the one blob of b and c in their place.
TwoInOne(before, after, b, c, count) ==
    /\ b \in before /\ c \in before /\ b # c
    /\ after = (before \ {b, c}) \cup
                  {[members |-> b.members \cup c.members, count |-> count]}

\* Blobs of different roots are different.
LEMMA BlobsApart ==
    ASSUME NEW E, NEW R, NEW rho, RootsTo(E, R, rho), NEW r \in R, NEW q \in R,
           NEW k, NEW l, Blob(E, rho, k, r) = Blob(E, rho, l, q)
    PROVE  r = q
<1>1. {b \in E : rho[b] = r} = {b \in E : rho[b] = q}
  BY DEF Blob
<1>2. r \in E /\ rho[r] = r
  BY DEF RootsTo
<1> QED BY <1>1, <1>2

\* A new entry that is its own root is a blob of its own.
LEMMA NewBlob ==
    ASSUME NEW E, NEW R, NEW rho, RootsTo(E, R, rho), NEW n, n \notin E, NEW rhoNew,
           Agree(E, rhoNew, rho), rhoNew[n] = n,
           NEW counts, NEW countsNew, Agree(R, countsNew, counts)
    PROVE  /\ BlobsBy(E \cup {n}, R \cup {n}, rhoNew, countsNew)
                = BlobsBy(E, R, rho, counts) \cup {[members |-> {n}, count |-> countsNew[n]]}
           /\ \A b \in BlobsBy(E, R, rho, counts) : {n} \cap b.members = {}
<1>0. (\A b \in E : rhoNew[b] = rho[b]) /\ \A r \in R : countsNew[r] = counts[r]
  BY DEF Agree
<1>1. ASSUME NEW r \in R
      PROVE  Blob(E \cup {n}, rhoNew, countsNew[r], r) = Blob(E, rho, counts[r], r)
  <2>1. r # n
    BY DEF RootsTo
  <2>2. {b \in E \cup {n} : rhoNew[b] = r} = {b \in E : rho[b] = r}
    BY <1>0, <2>1
  <2> QED BY <1>0, <2>2 DEF Blob
<1>2. Blob(E \cup {n}, rhoNew, countsNew[n], n) = [members |-> {n}, count |-> countsNew[n]]
  <2>1. \A b \in E : rhoNew[b] # n
    BY <1>0 DEF RootsTo
  <2>2. {b \in E \cup {n} : rhoNew[b] = n} = {n}
    BY <2>1
  <2> QED BY <2>2 DEF Blob
<1>3. \A b \in BlobsBy(E, R, rho, counts) : {n} \cap b.members = {}
  BY DEF BlobsBy, Blob
<1>4. BlobsBy(E \cup {n}, R \cup {n}, rhoNew, countsNew)
         = {Blob(E \cup {n}, rhoNew, countsNew[r], r) : r \in R}
           \cup {Blob(E \cup {n}, rhoNew, countsNew[n], n)}
  BY DEF BlobsBy
<1>5. {Blob(E \cup {n}, rhoNew, countsNew[r], r) : r \in R} = BlobsBy(E, R, rho, counts)
  BY <1>1 DEF BlobsBy
<1> QED BY <1>2, <1>3, <1>4, <1>5

\* Another count for one root changes one blob.
LEMMA OtherCount ==
    ASSUME NEW E, NEW R, NEW rho, RootsTo(E, R, rho), NEW s \in R,
           NEW counts, NEW countsNew, \A r \in R : r # s => countsNew[r] = counts[r]
    PROVE  BlobsBy(E, R, rho, countsNew)
             = (BlobsBy(E, R, rho, counts) \ {Blob(E, rho, counts[s], s)})
                  \cup {Blob(E, rho, countsNew[s], s)}
<1> DEFINE old(r) == Blob(E, rho, counts[r], r)
           new(r) == Blob(E, rho, countsNew[r], r)
<1>1. \A r \in R : r # s => new(r) = old(r) /\ old(r) # old(s)
  BY BlobsApart
<1>2. BlobsBy(E, R, rho, countsNew) = {new(r) : r \in R} /\ BlobsBy(E, R, rho, counts) = {old(r) : r \in R}
  BY DEF BlobsBy
<1> HIDE DEF old, new
<1>3. {new(r) : r \in R} = ({old(r) : r \in R} \ {old(s)}) \cup {new(s)}
  BY <1>1
<1> QED BY <1>2, <1>3 DEF old, new

\* A root that is hung below another makes one blob of two.
LEMMA TwoBlobs ==
    ASSUME NEW E, NEW R, NEW rho, RootsTo(E, R, rho), NEW child \in R, NEW parent \in R,
           child # parent, NEW rhoNew,
           Rehung(E, rhoNew, rho, child, parent),
           NEW counts, NEW countsNew,
           Agree(R \ {child, parent}, countsNew, counts)
    PROVE  TwoInOne(BlobsBy(E, R, rho, counts), BlobsBy(E, R \ {child}, rhoNew, countsNew),
                    Blob(E, rho, counts[parent], parent), Blob(E, rho, counts[child], child),
                    countsNew[parent])
<1> DEFINE old(r) == Blob(E, rho, counts[r], r)
           new(r) == Blob(E, rhoNew, countsNew[r], r)
           both == [members |-> old(parent).members \cup old(child).members,
                    count |-> countsNew[parent]]
<1>0. /\ \A b \in E : rhoNew[b] = IF rho[b] = child THEN parent ELSE rho[b]
      /\ \A r \in R : r # child /\ r # parent => countsNew[r] = counts[r]
  BY DEF Agree, Rehung
<1>1. ASSUME NEW r \in R, r # child, r # parent
      PROVE  new(r) = old(r)
  <2>1. {b \in E : rhoNew[b] = r} = {b \in E : rho[b] = r}
    BY <1>0, <1>1
  <2> QED BY <1>0, <1>1, <2>1 DEF Blob
<1>2. new(parent) = both
  <2>1. {b \in E : rhoNew[b] = parent} = {b \in E : rho[b] = child} \cup {b \in E : rho[b] = parent}
    BY <1>0
  <2> QED BY <2>1 DEF Blob
<1>3. \A r, q \in R : old(r) = old(q) => r = q
  BY BlobsApart
<1>4. /\ BlobsBy(E, R \ {child}, rhoNew, countsNew) = {new(r) : r \in R \ {child}}
      /\ BlobsBy(E, R, rho, counts) = {old(r) : r \in R}
  BY DEF BlobsBy
<1> HIDE DEF old, new, both
<1>5. {new(r) : r \in R \ {child}} = ({old(r) : r \in R} \ {old(parent), old(child)}) \cup {both}
  BY <1>1, <1>2, <1>3
<1>6. old(child) \in {old(r) : r \in R} /\ old(parent) \in {old(r) : r \in R} /\ old(parent) # old(child)
  BY <1>3
<1> QED BY <1>4, <1>5, <1>6 DEF old, both, TwoInOne

-----------------------------------------------------------------------------
(* The blobs of a forest *)

RootsOf(bs, n) == {b \in 1 .. n - 1 : bs[b].parent_index = b}

\* What ForestInv says of parents and ranks.
Climbs(bs, n) ==
    /\ n \in Nat \ {0}
    /\ \A b \in 1 .. n - 1 :
          /\ bs[b].parent_index \in 1 .. n - 1 /\ bs[b].rank \in Nat
          /\ bs[b].parent_index # b => bs[b].rank < bs[bs[b].parent_index].rank

RootMap(bs, n, rho) ==
    \A b \in 1 .. n - 1 :
        rho[b] = IF bs[b].parent_index = b THEN b ELSE rho[bs[b].parent_index]

Counts(bs, n, info) == [r \in RootsOf(bs, n) |-> info[bs[r].root_list_index].stats.count]

\* A map that agrees with the parents is the map to the roots.
LEMMA MapFindsRoots ==
    ASSUME NEW bs, NEW n, Climbs(bs, n), NEW rho, RootMap(bs, n, rho)
    PROVE  /\ \A b \in 1 .. n - 1 : Way(bs, n, b) = rho[b]
           /\ RootsTo(1 .. n - 1, RootsOf(bs, n), rho)
<1> DEFINE E == 1 .. n - 1
           p == [b \in E |-> bs[b].parent_index]
           r == [b \in E |-> bs[b].rank]
<1>1. n \in Nat /\ n > 0 /\ n - 1 \in Nat
  BY DEF Climbs
<1>2. IsFiniteSet(E) /\ Cardinality(E) <= n
  <2>1. IsFiniteSet(E) /\ Cardinality(E) = IF 1 > n - 1 THEN 0 ELSE n - 1 - 1 + 1
    BY <1>1, FS_Interval
  <2> QED BY <1>1, <2>1
<1> HIDE DEF E
<1>3. Ranked(E, p, r)
  BY DEF Climbs, Ranked, E
<1>4. RootsBy(E, p, rho)
  BY DEF RootMap, RootsBy, E
<1>5. \A b \in E : p[b] = bs[b].parent_index
  OBVIOUS
<1> HIDE DEF p, r
<1>6. \A b \in E : Way(bs, n, b) = rho[b] /\ p[rho[b]] = rho[b] /\ rho[b] \in E
  BY <1>1, <1>2, <1>3, <1>4, <1>5, WayEnds
<1>7. \A b \in E : rho[b] \in RootsOf(bs, n)
  BY <1>5, <1>6 DEF RootsOf, E
<1>8. \A b \in RootsOf(bs, n) : rho[b] = b
  BY DEF RootsOf, RootMap
<1> QED BY <1>6, <1>7, <1>8 DEF RootsTo, RootsOf, E

\* The blobs that the ends of the walks give.
LEMMA MapGivesBlobs ==
    ASSUME NEW bs, NEW n, Climbs(bs, n), NEW rho, RootMap(bs, n, rho), NEW info
    PROVE  {[members |-> {bx \in 1 .. n - 1 : Way(bs, n, bx) = r},
             count |-> info[bs[r].root_list_index].stats.count] : r \in RootsOf(bs, n)}
              = BlobsBy(1 .. n - 1, RootsOf(bs, n), rho, Counts(bs, n, info))
<1>1. \A r : {bx \in 1 .. n - 1 : Way(bs, n, bx) = r} = {bx \in 1 .. n - 1 : rho[bx] = r}
  BY MapFindsRoots
<1>2. \A r \in RootsOf(bs, n) : Counts(bs, n, info)[r] = info[bs[r].root_list_index].stats.count
  BY DEF Counts
<1> QED BY <1>1, <1>2 DEF BlobsBy, Blob

\* The state's forest.
Maps(rho) == RootMap(blob_set, used_blob_set_count, rho)
RootSet == RootsOf(blob_set, used_blob_set_count)
CountsNow == Counts(blob_set, used_blob_set_count, root_info)

StandsFor ==
    \A rho : Maps(rho) => /\ RootsTo(Entry, RootSet, rho)
                          /\ ForestBlobs = BlobsBy(Entry, RootSet, rho, CountsNow)

\* In every state the abstract blobs are those of a map to the roots.
LEMMA ForestStandsFor == ForestInv => StandsFor
<1> SUFFICES ASSUME ForestInv, NEW rho, Maps(rho)
             PROVE  /\ RootsTo(Entry, RootSet, rho)
                    /\ ForestBlobs = BlobsBy(Entry, RootSet, rho, CountsNow)
  BY DEF StandsFor
<1> DEFINE n == used_blob_set_count
<1>1. Climbs(blob_set, n)
  <2>1. n \in Nat \ {0} /\ Entry = 1 .. n - 1 /\ Entry \subseteq 0 .. MaxRuns
    BY Sizes DEF ForestInv, ForestType, Entry
  <2>2. \A b \in Entry : blob_set[b].rank \in Nat
    BY <2>1 DEF ForestInv, ForestType, EntryType
  <2>3. \A b \in Entry :
           /\ blob_set[b].parent_index \in Entry
           /\ blob_set[b].parent_index # b => blob_set[b].rank < blob_set[blob_set[b].parent_index].rank
    BY DEF ForestInv, ParentsInUse, RanksIncrease, IsRoot
  <2> QED BY <2>1, <2>2, <2>3 DEF Climbs
<1>2. RootsTo(Entry, RootSet, rho)
  BY <1>1, MapFindsRoots DEF Maps, RootSet, Entry
<1>3. ForestBlobs =
         {[members |-> {bx \in 1 .. n - 1 : Way(blob_set, n, bx) = r},
           count |-> root_info[blob_set[r].root_list_index].stats.count] : r \in RootSet}
  BY DEF ForestBlobs, Entry, Root, Way, RootStats, IsRoot, RootSet, RootsOf
<1>4. ForestBlobs = BlobsBy(Entry, RootSet, rho, CountsNow)
  BY <1>1, <1>3, MapGivesBlobs DEF Maps, RootSet, CountsNow, Entry
<1> QED BY <1>2, <1>4

-----------------------------------------------------------------------------
(* What the operations do to a map of entries to roots *)

\* The map goes to the roots.
LEMMA MapToRoots ==
    ASSUME ForestInv, NEW rho, Maps(rho)
    PROVE  /\ RootsTo(Entry, RootSet, rho)
           /\ RootSet = {b \in Entry : IsRoot(b)}
<1>1. RootSet = {b \in Entry : IsRoot(b)}
  BY DEF RootSet, RootsOf, IsRoot, Entry
<1> QED BY <1>1, ForestStandsFor DEF StandsFor

\* Path compression changes neither the map nor the roots.
LEMMA UnwindForest ==
    ASSUME IInv, Unwind, NEW rho, Maps(rho), rho[path[Len(path)]] = rho[node]
    PROVE  /\ Maps(rho)' /\ Entry' = Entry /\ RootSet' = RootSet
           /\ \A b \in Entry : blob_set'[b].root_list_index = blob_set[b].root_list_index
<1> DEFINE child == path[Len(path)]
<1>1. /\ pc = "unwind" /\ path # <<>> /\ UNCHANGED <<used_blob_set_count, root_info, node>>
      /\ blob_set' = [blob_set EXCEPT ![child].parent_index = node]
  BY DEF Unwind
<1>2. /\ node \in Entry /\ IsRoot(node) /\ path \in Seq(Entry)
      /\ Len(path) \in Nat /\ Len(path) \in 1 .. Len(path)
  BY <1>1 DEF IInv, FindInv, FindPhase
<1>3. child \in Entry /\ ~IsRoot(child)
  BY <1>2, ElementOfSeq DEF IInv, FindInv, PathBelow
<1>4. rho[child] = rho[node] /\ rho[node] = node
  BY <1>2 DEF Maps, RootMap, IsRoot, Entry
<1>5. Entry \subseteq 0 .. MaxRuns /\ blob_set \in [0 .. MaxRuns -> EntryType]
  BY Sizes DEF IInv, ForestInv, ForestType, Entry
<1> HIDE DEF child
<1>6. \A b \in Entry :
         /\ blob_set'[b].parent_index = IF b = child THEN node ELSE blob_set[b].parent_index
         /\ blob_set'[b].root_list_index = blob_set[b].root_list_index
  <2>1. \A b \in Entry : blob_set[b] \in EntryType
    BY <1>5
  <2> QED BY <1>1, <1>2, <1>3, <1>5, <2>1 DEF EntryType
<1>7. Entry' = Entry /\ child # node /\ Entry = 1 .. used_blob_set_count - 1
  BY <1>1, <1>2, <1>3 DEF Entry
<1>8. Maps(rho)'
  <2>1. ASSUME NEW b \in Entry
        PROVE  rho[b] = IF blob_set'[b].parent_index = b THEN b
                        ELSE rho[blob_set'[b].parent_index]
    <3>1. CASE b = child
      BY <1>4, <1>6, <1>7, <3>1
    <3>2. CASE b # child
      BY <1>6, <1>7, <3>2 DEF Maps, RootMap
    <3> QED BY <3>1, <3>2
  <2> QED BY <1>1, <1>7, <2>1 DEF Maps, RootMap
<1>9. RootSet' = RootSet
  <2>1. \A b \in Entry : blob_set'[b].parent_index = b <=> blob_set[b].parent_index = b
    BY <1>3, <1>6, <1>7 DEF IsRoot
  <2> QED BY <1>1, <1>7, <2>1 DEF RootSet, RootsOf
<1> QED BY <1>6, <1>7, <1>8, <1>9

\* What make_set leaves of the old entries and their statistics.
LEMMA MakeSetForest ==
    ASSUME ForestInv, HasRoom, NEW s, MakeSet(s), NEW rho, Maps(rho),
           NEW new, new = used_blob_set_count,
           NEW rhoNew, rhoNew[new] = new, Agree(Entry, rhoNew, rho)
    PROVE  /\ new \notin Entry /\ new # 0 /\ Entry' = Entry \cup {new} /\ Maps(rhoNew)'
           /\ RootSet' = RootSet \cup {new}
           /\ RootStats(new)' = s
           /\ \A r \in RootSet : r \in Entry /\ RootStats(r)' = RootStats(r)
<1>1. /\ new \in Nat \ {0} /\ new \in 0 .. MaxRuns /\ new \notin Entry
      /\ Entry = 1 .. new - 1 /\ Entry' = 1 .. used_blob_set_count' - 1 /\ Entry' = Entry \cup {new}
  <2>1. new \in 1 .. MaxRuns /\ used_blob_set_count' = new + 1
    BY Sizes DEF ForestInv, ForestType, HasRoom, MakeSet
  <2> QED BY <2>1, Sizes DEF Entry
<1>2. \A b \in Entry : rhoNew[b] = rho[b]
  BY DEF Agree
<1>3. /\ blob_set'[new].parent_index = new
      /\ \A b \in Entry : blob_set'[b] = blob_set[b]
      /\ root_info'[blob_set'[new].root_list_index].stats = s
      /\ \A rx \in 0 .. used_root_list_count - 1 : root_info'[rx] = root_info[rx]
  <2>1. /\ blob_set \in [0 .. MaxRuns -> EntryType] /\ used_root_list_count \in 0 .. MaxBlobs - 1
        /\ root_info \in [0 .. MaxBlobs - 1 -> [stats : Stats, set_index : Entry \cup {0}]]
    BY Sizes DEF ForestInv, ForestType, HasRoom
  <2>2. /\ blob_set'[new] = [parent_index |-> new, root_list_index |-> used_root_list_count, rank |-> 0]
        /\ \A b \in 0 .. MaxRuns : b # new => blob_set'[b] = blob_set[b]
    BY <1>1, <2>1 DEF MakeSet
  <2>3. /\ root_info'[used_root_list_count].stats = s
        /\ \A rx \in 0 .. used_root_list_count - 1 : root_info'[rx] = root_info[rx]
    BY <2>1 DEF MakeSet
  <2>4. \A b \in Entry : b \in 0 .. MaxRuns /\ b # new
    BY <1>1, Sizes
  <2> QED BY <2>2, <2>3, <2>4
<1>4. Maps(rhoNew)'
  <2>1. ASSUME NEW b \in Entry'
        PROVE  rhoNew[b] = IF blob_set'[b].parent_index = b THEN b
                           ELSE rhoNew[blob_set'[b].parent_index]
    <3>1. CASE b = new
      BY <1>3, <3>1
    <3>2. CASE b \in Entry
      <4>1. blob_set[b].parent_index \in Entry
        BY <3>2 DEF ForestInv, ParentsInUse
      <4>2. rho[b] = IF blob_set[b].parent_index = b THEN b ELSE rho[blob_set[b].parent_index]
        BY <1>1, <3>2 DEF Maps, RootMap
      <4> QED BY <1>2, <1>3, <3>2, <4>1, <4>2
    <3> QED BY <1>1, <3>1, <3>2
  <2> QED BY <1>1, <2>1 DEF Maps, RootMap
<1>5. RootSet' = RootSet \cup {new}
  <2>1. RootSet = {b \in Entry : blob_set[b].parent_index = b}
    BY <1>1 DEF RootSet, RootsOf
  <2>2. RootSet' = {b \in Entry' : blob_set'[b].parent_index = b}
    BY <1>1 DEF RootSet, RootsOf
  <2> QED BY <1>1, <1>3, <2>1, <2>2
<1>6. RootStats(new)' = s
  BY <1>3 DEF RootStats
<1>7. ASSUME NEW r \in RootSet PROVE r \in Entry /\ RootStats(r)' = RootStats(r)
  <2>1. r \in Entry /\ IsRoot(r)
    BY <1>1 DEF RootSet, RootsOf, IsRoot
  <2>2. blob_set[r].root_list_index \in 0 .. used_root_list_count - 1
    BY <2>1, RootPlace DEF UsedRoot
  <2> QED BY <1>3, <2>1, <2>2 DEF RootStats
<1> QED BY <1>1, <1>4, <1>5, <1>6, <1>7

\* There is such a map.
LEMMA RehungExists ==
    ASSUME NEW E, NEW rho, NEW child, NEW parent
    PROVE  \E rhoNew : Rehung(E, rhoNew, rho, child, parent)
<1> DEFINE map == [b \in E |-> IF rho[b] = child THEN parent ELSE rho[b]]
<1>1. \A b \in E : map[b] = IF rho[b] = child THEN parent ELSE rho[b]
  OBVIOUS
<1> HIDE DEF map
<1>2. Rehung(E, map, rho, child, parent)
  BY <1>1 DEF Rehung
<1> QED BY <1>2

\* Of two roots one becomes the other's child.
LEMMA AbsorbedForest ==
    ASSUME ForestInv, NEW rho, Maps(rho), NEW child \in Entry, NEW parent \in Entry,
           child # parent, IsRoot(child), IsRoot(parent), Absorbed(child, parent),
           NEW rhoNew, Rehung(Entry, rhoNew, rho, child, parent)
    PROVE  /\ Maps(rhoNew)' /\ Entry' = Entry
           /\ RootSet' = RootSet \ {child} /\ child \in RootSet /\ parent \in RootSet
           /\ RootSet = {b \in Entry : IsRoot(b)}
<1>1. /\ used_blob_set_count' = used_blob_set_count /\ Entry' = Entry
      /\ Entry = 1 .. used_blob_set_count - 1
      /\ \A b \in Entry : blob_set'[b].parent_index = IF b = child THEN parent
                                                    ELSE blob_set[b].parent_index
  BY DEF Absorbed, Entry
<1>2. /\ \A b \in Entry : rho[b] = IF blob_set[b].parent_index = b THEN b
                                  ELSE rho[blob_set[b].parent_index]
      /\ \A b \in Entry : rhoNew[b] = IF rho[b] = child THEN parent ELSE rho[b]
  BY <1>1 DEF Maps, RootMap, Rehung
<1>3. Maps(rhoNew)'
  <2>1. ASSUME NEW b \in Entry
        PROVE  rhoNew[b] = IF blob_set'[b].parent_index = b THEN b
                           ELSE rhoNew[blob_set'[b].parent_index]
    <3>1. rho[child] = child /\ rho[parent] = parent
      BY <1>2 DEF IsRoot
    <3>2. CASE b = child
      BY <1>1, <1>2, <3>1, <3>2
    <3>3. CASE b # child
      <4>1. blob_set[b].parent_index \in Entry
        BY DEF ForestInv, ParentsInUse
      <4> QED BY <1>1, <1>2, <3>3, <4>1
    <3> QED BY <3>2, <3>3
  <2> QED BY <1>1, <2>1 DEF Maps, RootMap
<1>4. /\ RootSet' = RootSet \ {child} /\ child \in RootSet /\ parent \in RootSet
      /\ RootSet = {b \in Entry : IsRoot(b)}
  <2>1. RootSet = {b \in Entry : blob_set[b].parent_index = b}
    BY <1>1 DEF RootSet, RootsOf
  <2>2. RootSet' = {b \in Entry : blob_set'[b].parent_index = b}
    BY <1>1 DEF RootSet, RootsOf
  <2> QED BY <1>1, <2>1, <2>2 DEF IsRoot
<1> QED BY <1>1, <1>3, <1>4

-----------------------------------------------------------------------------
(* The steps *)

\* The forest has a map to its roots, and find_root stays in one blob.
Mapped == \E rho : Maps(rho) /\ \A k \in 1 .. Len(path) : rho[path[k]] = rho[node]

Scanned == INSTANCE Blobs WITH blobs <- ForestBlobs, open <- TRUE

BlobsStep == Scanned!Begin \/ Scanned!Grow \/ Scanned!Merge \/ UNCHANGED ForestBlobs

\* A step that leaves the forest alone leaves the blobs alone.
LEMMA SameForest ==
    ASSUME Mapped, UNCHANGED forest, path' = <<>> \/ UNCHANGED <<path, node>>
    PROVE  Mapped' /\ BlobsStep
<1>1. ForestBlobs' = ForestBlobs
  BY DEF ForestBlobs, Entry, Root, IsRoot, RootStats, forest
<1>2. PICK rho : Maps(rho) /\ \A k \in 1 .. Len(path) : rho[path[k]] = rho[node]
  BY DEF Mapped
<1>3. Maps(rho)'
  BY <1>2 DEF Maps, forest
<1>4. \A k \in 1 .. Len(path') : rho[path'[k]] = rho[node']
  BY <1>2
<1> QED BY <1>1, <1>3, <1>4 DEF Mapped, BlobsStep

\* find_root goes on to the parent: it is in the same blob.
LEMMA DescendMaps ==
    ASSUME IInv, Mapped, Descend
    PROVE  Mapped' /\ BlobsStep
<1>1. UNCHANGED forest
  BY DEF Descend
<1>2. CASE IsRoot(node)
  BY <1>1, <1>2, SameForest DEF Descend
<1>3. CASE ~IsRoot(node)
  <2>1. path' = Append(path, node) /\ node' = blob_set[node].parent_index
    BY <1>3 DEF Descend
  <2>2. PICK rho : Maps(rho) /\ \A k \in 1 .. Len(path) : rho[path[k]] = rho[node]
    BY DEF Mapped
  <2>3. node \in Entry /\ path \in Seq(Entry) /\ Len(path) \in Nat
    BY DEF IInv, FindInv, FindPhase, Descend
  <2>4. rho[node'] = rho[node]
    BY <1>3, <2>1, <2>2, <2>3 DEF Maps, RootMap, IsRoot, Entry
  <2>5. \A k \in 1 .. Len(path') : rho[path'[k]] = rho[node']
    BY <2>1, <2>2, <2>3, <2>4
  <2>6. Maps(rho)'
    BY <1>1, <2>2 DEF Maps, forest
  <2>7. ForestBlobs' = ForestBlobs
    BY <1>1 DEF ForestBlobs, Entry, Root, IsRoot, RootStats, forest
  <2> QED BY <2>5, <2>6, <2>7 DEF Mapped, BlobsStep
<1> QED BY <1>2, <1>3

\* Path compression hangs an entry below the root of its own blob.
LEMMA UnwindMaps ==
    ASSUME IInv, IInv', Mapped, Unwind
    PROVE  Mapped' /\ BlobsStep
<1>1. /\ UNCHANGED <<root_info, node>> /\ path # <<>> /\ path' = SubSeq(path, 1, Len(path) - 1)
      /\ path \in Seq(Entry)
  BY DEF Unwind, IInv, FindInv, FindPhase
<1>2. PICK rho : Maps(rho) /\ \A k \in 1 .. Len(path) : rho[path[k]] = rho[node]
  BY DEF Mapped
<1>3. /\ Len(path) \in 1 .. Len(path)
      /\ \A k \in 1 .. Len(path') : k \in 1 .. Len(path) /\ path'[k] = path[k]
  BY <1>1
<1>4. /\ Maps(rho)' /\ Entry' = Entry /\ RootSet' = RootSet
      /\ \A b \in Entry : blob_set'[b].root_list_index = blob_set[b].root_list_index
  BY <1>2, <1>3, UnwindForest
<1>5. CountsNow' = CountsNow
  <2>1. \A r \in RootSet : r \in Entry
    BY DEF RootSet, RootsOf, Entry
  <2> QED BY <1>1, <1>4, <2>1 DEF CountsNow, Counts, RootSet
<1>6. StandsFor /\ StandsFor'
  <2>1. ForestInv /\ ForestInv'
    BY DEF IInv
  <2>2. ForestInv' => StandsFor'
    BY ForestStandsFor, PTL
  <2> QED BY <2>1, <2>2, ForestStandsFor
<1>7. ForestBlobs' = ForestBlobs
  BY <1>2, <1>4, <1>5, <1>6 DEF StandsFor
<1>8. Mapped'
  BY <1>1, <1>2, <1>3, <1>4 DEF Mapped
<1> QED BY <1>7, <1>8 DEF BlobsStep

\* A run adds its length to the count.
LEMMA SingletonCounts ==
    ASSUME NEW s, NEW row, NEW r
    PROVE  StatsAddSingleton(s, row, r).count = s.count + RunCount(r)
<1> DEFINE sum == StatsAdd(s, StatsOf(row, r))
           y == IF row > sum.min_y THEN row ELSE s.max_y
<1>1. sum.count = s.count + RunCount(r)
  BY DEF StatsAdd, StatsOf
<1>2. sum = [min_x |-> sum.min_x, max_x |-> sum.max_x, min_y |-> sum.min_y, max_y |-> sum.max_y,
             sum_x |-> sum.sum_x, sum_y |-> sum.sum_y, count |-> sum.count]
  BY DEF StatsAdd
<1>3. StatsAddSingleton(s, row, r) = [sum EXCEPT !.max_y = y]
  BY DEF StatsAddSingleton
<1> HIDE DEF sum, y
<1> QED BY <1>1, <1>2, <1>3

\* make_set begins a blob of one entry.
LEMMA UnionNewMaps ==
    ASSUME IInv, IInv', Mapped, UnionNew
    PROVE  Mapped' /\ BlobsStep
<1> DEFINE n == used_blob_set_count
           s == StatsAddSingleton(StatsOf(ii - 1, prev[ai]), ii, cur[bi])
<1>1. /\ MorePairs /\ HasRoom /\ MakeSet(s) /\ path = <<>> /\ path' = path
  BY DEF UnionNew, findVars, IInv, FindInv, FindPhase
<1>2. s.count > 0
  <2>1. RunsOK(prev) /\ RunsOK(cur) /\ ai \in 1 .. Len(prev) /\ bi \in 1 .. Len(cur)
    BY <1>1, PairType DEF IInv, ScanInv
  <2>2. RunCount(prev[ai]) > 0 /\ RunCount(cur[bi]) > 0
        /\ RunCount(prev[ai]) \in Int /\ RunCount(cur[bi]) \in Int
    BY <2>1, RunIsTyped DEF RunCount
  <2>3. StatsOf(ii - 1, prev[ai]).count = RunCount(prev[ai])
    BY DEF StatsOf
  <2>4. s.count = StatsOf(ii - 1, prev[ai]).count + RunCount(cur[bi])
    BY SingletonCounts
  <2> QED BY <2>2, <2>3, <2>4
<1> HIDE DEF s
<1>3. PICK rho : Maps(rho)
  BY DEF Mapped
<1>4. PICK rhoNew : rhoNew[n] = n /\ Agree(Entry, rhoNew, rho)
  <2> DEFINE map == [b \in Entry \cup {n} |-> IF b = n THEN n ELSE rho[b]]
  <2>1. n \notin Entry
    BY Sizes DEF Entry, IInv, ForestInv, ForestType
  <2>2. map[n] = n /\ \A b \in Entry : map[b] = rho[b]
    BY <2>1
  <2> HIDE DEF map
  <2> QED BY <2>2 DEF Agree
<1>5. PICK new, t : new = n /\ t = s
  OBVIOUS
<1>6. /\ new \notin Entry /\ Entry' = Entry \cup {new} /\ Maps(rhoNew)'
      /\ RootSet' = RootSet \cup {new}
      /\ RootStats(new)' = t
      /\ \A r \in RootSet : RootStats(r)' = RootStats(r)
  <2>1. ForestInv /\ MakeSet(t) /\ rhoNew[new] = new
    BY <1>1, <1>4, <1>5 DEF IInv
  <2> QED BY <1>1, <1>3, <1>4, <1>5, <2>1, MakeSetForest
<1>7. /\ \A r \in RootSet' : CountsNow'[r] = RootStats(r)'.count
      /\ \A r \in RootSet : CountsNow[r] = RootStats(r).count
  BY DEF CountsNow, Counts, RootSet, RootStats
<1>8. Agree(RootSet, CountsNow', CountsNow) /\ CountsNow'[new] > 0
  BY <1>2, <1>5, <1>6, <1>7 DEF Agree
<1>9. StandsFor /\ StandsFor'
  <2>1. ForestInv /\ ForestInv'
    BY DEF IInv
  <2>2. ForestInv' => StandsFor'
    BY ForestStandsFor, PTL
  <2> QED BY <2>1, <2>2, ForestStandsFor
<1>10. /\ RootsTo(Entry, RootSet, rho) /\ ForestBlobs = BlobsBy(Entry, RootSet, rho, CountsNow)
       /\ ForestBlobs' = BlobsBy(Entry \cup {new}, RootSet \cup {new}, rhoNew, CountsNow')
  BY <1>3, <1>6, <1>9 DEF StandsFor
<1>11. PICK begun : begun = [members |-> {new}, count |-> CountsNow'[new]]
  OBVIOUS
<1>12. /\ ForestBlobs' = ForestBlobs \cup {begun}
       /\ \A b \in ForestBlobs : {new} \cap b.members = {}
  <2>1. rhoNew[new] = new
    BY <1>4, <1>5
  <2>2. /\ BlobsBy(Entry \cup {new}, RootSet \cup {new}, rhoNew, CountsNow')
             = BlobsBy(Entry, RootSet, rho, CountsNow) \cup {[members |-> {new}, count |-> CountsNow'[new]]}
        /\ \A b \in BlobsBy(Entry, RootSet, rho, CountsNow) : {new} \cap b.members = {}
    <3>1. /\ RootsTo(Entry, RootSet, rho) /\ new \notin Entry
          /\ Agree(Entry, rhoNew, rho) /\ Agree(RootSet, CountsNow', CountsNow)
      BY <1>4, <1>6, <1>8, <1>10
    <3> QED BY <2>1, <3>1, NewBlob
  <2> QED BY <1>10, <1>11, <2>2
<1>13. Scanned!Begin
  BY <1>8, <1>11, <1>12 DEF Scanned!Begin
<1>14. Mapped'
  BY <1>1, <1>6 DEF Mapped
<1> QED BY <1>13, <1>14 DEF BlobsStep

\* A run added to a root makes one blob larger.
LEMMA FoundSingletonMaps ==
    ASSUME IInv, IInv', Mapped, FoundSingleton
    PROVE  Mapped' /\ BlobsStep
<1> DEFINE rx == blob_set[node].root_list_index
           r == IF a_parent = 0 THEN prev[ai] ELSE cur[bi]
           row == IF a_parent = 0 THEN ii - 1 ELSE ii
           s == StatsAddSingleton(root_info[rx].stats, row, r)
<1>1. /\ AddSingleton /\ UNCHANGED <<blob_set, used_blob_set_count, used_root_list_count>>
      /\ path = <<>> /\ path' = path /\ pc = "unwind" /\ finding = "singleton"
  BY DEF FoundSingleton, Returned, UnionIsOver
<1>2. MorePairs /\ node \in Entry /\ IsRoot(node)
  BY <1>1 DEF IInv, FindInv, FindPhase
<1>3. /\ rx \in 0 .. MaxBlobs - 1 /\ root_info[rx].stats.count \in Nat
      /\ root_info \in [0 .. MaxBlobs - 1 -> [stats : Stats, set_index : Entry \cup {0}]]
      /\ root_info[rx].set_index = node
  <2>1. rx \in 0 .. MaxBlobs - 1 /\ root_info[rx].set_index = node
    BY <1>2, RootPlace, Sizes DEF UsedRoot, IInv, ForestInv, ForestType
  <2>2. root_info \in [0 .. MaxBlobs - 1 -> [stats : Stats, set_index : Entry \cup {0}]]
    BY DEF IInv, ForestInv, ForestType
  <2> HIDE DEF rx
  <2> QED BY <2>1, <2>2 DEF Stats
<1>4. s.count > root_info[rx].stats.count
  <2>1. RunsOK(prev) /\ RunsOK(cur) /\ ai \in 1 .. Len(prev) /\ bi \in 1 .. Len(cur)
    BY <1>2, PairType DEF IInv, ScanInv
  <2>2. RunCount(r) > 0 /\ RunCount(r) \in Int
    <3>1. /\ RunCount(prev[ai]) > 0 /\ RunCount(cur[bi]) > 0
          /\ RunCount(prev[ai]) \in Int /\ RunCount(cur[bi]) \in Int
      BY <2>1, RunIsTyped DEF RunCount
    <3>2. r = prev[ai] \/ r = cur[bi]
      OBVIOUS
    <3> HIDE DEF r
    <3> QED BY <3>1, <3>2
  <2>3. s.count = root_info[rx].stats.count + RunCount(r)
    BY SingletonCounts
  <2> QED BY <1>3, <2>2, <2>3
<1>5. root_info' = [root_info EXCEPT ![rx].stats = s]
  BY <1>1 DEF AddSingleton
<1> HIDE DEF s, r, row
<1>6. /\ root_info'[rx].stats = s
      /\ \A x \in 0 .. MaxBlobs - 1 : x # rx => root_info'[x] = root_info[x]
  BY <1>3, <1>5
<1>7. Entry' = Entry /\ RootSet' = RootSet
  BY <1>1 DEF Entry, RootSet, RootsOf
<1>8. node \in RootSet
  BY <1>2 DEF RootSet, RootsOf, Entry, IsRoot
<1>9. /\ \A x \in RootSet : CountsNow'[x] = root_info'[blob_set[x].root_list_index].stats.count
      /\ \A x \in RootSet : CountsNow[x] = root_info[blob_set[x].root_list_index].stats.count
  BY <1>1 DEF CountsNow, Counts, RootSet
<1>10. CountsNow'[node] > CountsNow[node]
  BY <1>4, <1>6, <1>8, <1>9
<1>11. \A x \in RootSet : x # node => CountsNow'[x] = CountsNow[x]
  <2> SUFFICES ASSUME NEW x \in RootSet, x # node PROVE CountsNow'[x] = CountsNow[x]
    OBVIOUS
  <2>1. x \in Entry /\ IsRoot(x)
    BY DEF RootSet, RootsOf, IsRoot, Entry
  <2>2. /\ blob_set[x].root_list_index \in 0 .. MaxBlobs - 1
        /\ root_info[blob_set[x].root_list_index].set_index = x
    BY <2>1, RootPlace, Sizes DEF UsedRoot, IInv, ForestInv, ForestType
  <2> QED BY <1>3, <1>6, <1>9, <2>2
<1>12. PICK rho : Maps(rho)
  BY DEF Mapped
<1>13. Maps(rho)'
  BY <1>1, <1>12 DEF Maps
<1>14. StandsFor /\ StandsFor'
  <2>1. ForestInv /\ ForestInv'
    BY DEF IInv
  <2>2. ForestInv' => StandsFor'
    BY ForestStandsFor, PTL
  <2> QED BY <2>1, <2>2, ForestStandsFor
<1>15. /\ RootsTo(Entry, RootSet, rho) /\ ForestBlobs = BlobsBy(Entry, RootSet, rho, CountsNow)
       /\ ForestBlobs' = BlobsBy(Entry, RootSet, rho, CountsNow')
  BY <1>7, <1>12, <1>13, <1>14 DEF StandsFor
<1> DEFINE b == Blob(Entry, rho, CountsNow[node], node)
           g == Blob(Entry, rho, CountsNow'[node], node)
<1>16. ForestBlobs' = (ForestBlobs \ {b}) \cup {g}
  BY <1>8, <1>11, <1>15, OtherCount
<1>17. b \in ForestBlobs /\ g \in ForestBlobs'
  BY <1>8, <1>15 DEF BlobsBy
<1>18. g.members = b.members /\ g.count > b.count
  BY <1>10 DEF Blob
<1> HIDE DEF b, g
<1>19. Scanned!Grow
  BY <1>16, <1>17, <1>18 DEF Scanned!Grow
<1>20. Mapped'
  BY <1>1, <1>13 DEF Mapped
<1> QED BY <1>19, <1>20 DEF BlobsStep

\* set_parent of a root makes one blob of two.
LEMMA AbsorbedMaps ==
    ASSUME ForestInv, ForestInv', Mapped, NEW child \in Entry, NEW parent \in Entry,
           child # parent, IsRoot(child), IsRoot(parent), Absorbed(child, parent), path' = <<>>
    PROVE  Mapped' /\ BlobsStep
<1>1. PICK rho : Maps(rho)
  BY DEF Mapped
<1>2. PICK rhoNew : Rehung(Entry, rhoNew, rho, child, parent)
  BY RehungExists
<1>3. /\ Maps(rhoNew)' /\ Entry' = Entry
      /\ RootSet' = RootSet \ {child} /\ child \in RootSet /\ parent \in RootSet
  BY <1>1, <1>2, AbsorbedForest
<1>4. /\ \A r \in RootSet : r \in Entry /\ IsRoot(r)
      /\ \A r \in RootSet : CountsNow[r] = RootStats(r).count
      /\ \A r \in RootSet' : CountsNow'[r] = RootStats(r)'.count
  <2>1. \A r \in RootSet : r \in Entry /\ IsRoot(r)
    BY <1>1, MapToRoots
  <2> QED BY <2>1 DEF CountsNow, Counts, RootSet, RootStats
<1>5. Agree(RootSet \ {child, parent}, CountsNow', CountsNow)
  <2>1. ASSUME NEW r \in RootSet \ {child, parent} PROVE CountsNow'[r] = CountsNow[r]
    <3>1. RootStats(r)' = RootStats(r)
      BY <1>4 DEF Absorbed
    <3> QED BY <1>3, <1>4, <3>1
  <2> QED BY <2>1 DEF Agree
<1>6. CountsNow'[parent] = CountsNow[parent] + CountsNow[child]
  <2>1. RootStats(parent)' = StatsAdd(RootStats(parent), RootStats(child))
    BY DEF Absorbed
  <2>2. StatsAdd(RootStats(parent), RootStats(child)).count
           = RootStats(parent).count + RootStats(child).count
    BY DEF StatsAdd
  <2> QED BY <1>3, <1>4, <2>1, <2>2
<1>7. StandsFor /\ StandsFor'
  <2>1. ForestInv' => StandsFor'
    BY ForestStandsFor, PTL
  <2> QED BY <2>1, ForestStandsFor
<1>8. /\ RootsTo(Entry, RootSet, rho) /\ ForestBlobs = BlobsBy(Entry, RootSet, rho, CountsNow)
      /\ ForestBlobs' = BlobsBy(Entry, RootSet \ {child}, rhoNew, CountsNow')
  BY <1>1, <1>3, <1>7 DEF StandsFor
<1> DEFINE b == Blob(Entry, rho, CountsNow[parent], parent)
           c == Blob(Entry, rho, CountsNow[child], child)
<1>9. TwoInOne(ForestBlobs, ForestBlobs', b, c, CountsNow'[parent])
  BY <1>2, <1>3, <1>5, <1>8, TwoBlobs
<1>10. CountsNow'[parent] = b.count + c.count
  BY <1>6 DEF Blob
<1> HIDE DEF b, c
<1>11. Scanned!Merge
  BY <1>9, <1>10 DEF Scanned!Merge, TwoInOne
<1>12. Mapped'
  BY <1>3 DEF Mapped
<1> QED BY <1>11, <1>12 DEF BlobsStep

\* The second root is found: nothing happens when it is the first, else link.
LEMMA FoundSecondMaps ==
    ASSUME IInv, IInv', Mapped, FoundSecond
    PROVE  Mapped' /\ BlobsStep
<1>1. path = <<>> /\ path' = <<>> /\ pc = "unwind" /\ finding = "second"
  BY DEF FoundSecond, Returned, UnionIsOver
<1>2. CASE a_root = node
  <2>1. UNCHANGED forest
    BY <1>2 DEF FoundSecond
  <2> QED BY <1>1, <2>1, SameForest
<1>3. CASE a_root # node
  <2>1. Link(a_root, node)
    BY <1>3 DEF FoundSecond
  <2>2. node \in Entry /\ IsRoot(node) /\ a_root \in Entry /\ IsRoot(a_root)
    BY <1>1 DEF IInv, FindInv, FindPhase
  <2>3. ForestInv /\ ForestInv'
    BY DEF IInv
  <2>4. Absorbed(a_root, node) \/ Absorbed(node, a_root)
    BY <1>3, <2>1, <2>2, <2>3, LinkKeeps
  <2>5. CASE Absorbed(a_root, node)
    BY <1>1, <1>3, <2>2, <2>3, <2>5, AbsorbedMaps
  <2>6. CASE Absorbed(node, a_root)
    BY <1>1, <1>3, <2>2, <2>3, <2>6, AbsorbedMaps
  <2> QED BY <2>4, <2>5, <2>6
<1> QED BY <1>2, <1>3

\* Every step of the scan is a step of the blobs or none.
LEMMA StepMaps == IInv /\ IInv' /\ Mapped /\ [Next]_vars => Mapped' /\ BlobsStep
<1> SUFFICES ASSUME IInv, IInv', Mapped, [Next]_vars PROVE Mapped' /\ BlobsStep
  OBVIOUS
<1>1. CASE NextRow \/ EndImage \/ EndRow \/ SkipPair \/ UnionLost \/ UNCHANGED vars
  <2>1. UNCHANGED forest /\ UNCHANGED <<path, node>>
    BY <1>1 DEF NextRow, EndImage, EndRow, SkipPair, UnionLost, vars, findVars
  <2> QED BY <2>1, SameForest
<1>2. CASE UnionSingleton \/ UnionSets \/ FoundFirst
  <2>1. UNCHANGED forest /\ path' = path
    BY <1>2 DEF UnionSingleton, UnionSets, FoundFirst
  <2>2. path = <<>>
    BY <1>2 DEF UnionSingleton, UnionSets, FoundFirst, Returned, IInv, FindInv, FindPhase
  <2> QED BY <2>1, <2>2, SameForest
<1>3. CASE UnionNew
  BY <1>3, UnionNewMaps
<1>4. CASE Descend
  BY <1>4, DescendMaps
<1>5. CASE Unwind
  BY <1>5, UnwindMaps
<1>6. CASE FoundSingleton
  BY <1>6, FoundSingletonMaps
<1>7. CASE FoundSecond
  BY <1>7, FoundSecondMaps
<1> QED BY <1>1, <1>2, <1>3, <1>4, <1>5, <1>6, <1>7 DEF Next

\* No entry, no blob.
LEMMA InitMaps == Init => Mapped /\ Abstract!Init
<1> SUFFICES ASSUME Init PROVE Mapped /\ Abstract!Init
  OBVIOUS
<1>1. Entry = {} /\ 1 .. used_blob_set_count - 1 = {} /\ Len(path) = 0
  BY DEF Init, Entry
<1>2. ForestBlobs = {}
  BY <1>1 DEF ForestBlobs
<1>3. \A rho : Maps(rho)
  BY <1>1 DEF Maps, RootMap
<1>4. Abstract!Init
  BY <1>2 DEF Abstract!Init, Init
<1> QED BY <1>1, <1>2, <1>3, <1>4 DEF Mapped

\* What the mapping does with the blobs of the forest until the image ends.
LEMMA OpenBlobs ==
    /\ pc # "done" /\ pc' # "done" /\ BlobsStep /\ ForestBlobs' # ForestBlobs => Abstract!Next
    /\ pc # "done" /\ pc' = "done" => Abstract!Next
    /\ pc' = pc /\ UNCHANGED ForestBlobs
          => UNCHANGED <<(IF pc = "done" THEN {} ELSE ForestBlobs), (pc # "done")>>
<1>1. ASSUME pc # "done", pc' # "done", BlobsStep, ForestBlobs' # ForestBlobs
      PROVE  Abstract!Next
  <2>1. CASE Scanned!Begin
    BY <1>1, <2>1 DEF Scanned!Begin, Abstract!Begin, Abstract!Next
  <2>2. CASE Scanned!Grow
    BY <1>1, <2>2 DEF Scanned!Grow, Abstract!Grow, Abstract!Next
  <2>3. CASE Scanned!Merge
    BY <1>1, <2>3 DEF Scanned!Merge, Abstract!Merge, Abstract!Next
  <2> QED BY <1>1, <2>1, <2>2, <2>3 DEF BlobsStep
<1>2. ASSUME pc # "done", pc' = "done" PROVE Abstract!Next
  BY <1>2 DEF Abstract!Next, Abstract!HandOver
<1> QED BY <1>1, <1>2

\* The forest with its list of roots implements a set of blobs that are begun,
\* grow and merge, for every image and every capacity: a step of the scan does
\* one of these or leaves all blobs alone, so path compression never moves an
\* entry to another blob, and link never splits one or loses its pixels.
THEOREM ForestImplementsBlobs == Spec => ImplementsBlobs
<1>1. Init => IInv /\ Mapped /\ Abstract!Init
  BY InitHolds, InitMaps
<1>2. IInv /\ Mapped /\ [Next]_vars
         => /\ IInv' /\ Mapped'
            /\ [Abstract!Next]_<<(IF pc = "done" THEN {} ELSE ForestBlobs), (pc # "done")>>
  <2> SUFFICES ASSUME IInv, Mapped, [Next]_vars
               PROVE  /\ IInv' /\ Mapped'
                      /\ [Abstract!Next]_<<(IF pc = "done" THEN {} ELSE ForestBlobs), (pc # "done")>>
    OBVIOUS
  <2>1. IInv' /\ Mapped' /\ BlobsStep
    BY StepKeeps, StepMaps
  <2>2. pc' = pc \/ pc # "done"
    BY DEF Next, NextRow, EndImage, EndRow, SkipPair, UnionNew, UnionLost, UnionSingleton,
           UnionSets, Descend, Unwind, FoundSingleton, FoundFirst, FoundSecond, Returned, vars
  <2>3. pc = "done" => UNCHANGED ForestBlobs
    <3> SUFFICES ASSUME pc = "done" PROVE UNCHANGED ForestBlobs
      OBVIOUS
    <3>1. UNCHANGED vars
      BY DEF Next, NextRow, EndImage, EndRow, SkipPair, UnionNew, UnionLost, UnionSingleton,
             UnionSets, Descend, Unwind, FoundSingleton, FoundFirst, FoundSecond, Returned
    <3> QED BY <3>1 DEF vars, forest, ForestBlobs, Entry, Root, IsRoot, RootStats
  <2>4. ForestBlobs' = ForestBlobs /\ pc # "done" /\ pc' # "done"
           => UNCHANGED <<(IF pc = "done" THEN {} ELSE ForestBlobs), (pc # "done")>>
    OBVIOUS
  <2> QED BY <2>1, <2>2, <2>3, <2>4, OpenBlobs
<1> QED BY <1>1, <1>2, PTL DEF Spec, ImplementsBlobs, Abstract!Spec

-----------------------------------------------------------------------------
(* Folds over finite sets, with functions for the operators *)

\* Induction over the subsets of a finite set: T has the empty set and, with a
\* set, every set of one element more.
Grows(T, N) ==
    /\ {} \in T
    /\ \A s \in SUBSET N : \A x \in N : x \notin s /\ s \in T => s \cup {x} \in T

\* Such a T has every subset.
LEMMA AllSubsets ==
    ASSUME NEW N, IsFiniteSet(N), NEW T, Grows(T, N)
    PROVE  SUBSET N \subseteq T
<1> DEFINE good == {k \in Nat : \A s \in SUBSET N : Cardinality(s) = k => s \in T}
<1>1. \A s \in SUBSET N : IsFiniteSet(s) /\ Cardinality(s) \in Nat
  BY FS_Subset, FS_CardinalityType
<1>2. 0 \in good
  <2>1. \A s \in SUBSET N : Cardinality(s) = 0 => s = {}
    BY <1>1, FS_EmptySet
  <2> QED BY <2>1 DEF Grows
<1>3. ASSUME NEW k \in Nat, k \in good PROVE k + 1 \in good
  <2> SUFFICES ASSUME NEW s \in SUBSET N, Cardinality(s) = k + 1 PROVE s \in T
    OBVIOUS
  <2>1. IsFiniteSet(s) /\ s # {}
    BY <1>1, FS_EmptySet
  <2>2. PICK x \in s : TRUE
    BY <2>1
  <2>3. IsFiniteSet(s \ {x}) /\ Cardinality(s \ {x}) = Cardinality(s) - 1
    BY <2>1, FS_RemoveElement
  <2>4. s \ {x} \in T
    BY <1>3, <2>3
  <2>5. (s \ {x}) \cup {x} \in T
    BY <2>4 DEF Grows
  <2>6. (s \ {x}) \cup {x} = s
    OBVIOUS
  <2> QED BY <2>5, <2>6
<1>4. Nat \subseteq good
  <2> HIDE DEF good
  <2> QED BY <1>2, <1>3, AllNumbers
<1> QED BY <1>1, <1>4

\* it folds op over the subsets of N, from base, taking elements as ch says.
IsFold(it, N, base, op, ch) ==
    \A s \in SUBSET N :
        it[s] = IF s = {} THEN base ELSE op[<<ch[s], it[s \ {ch[s]}]>>]

Picks(ch, N) == \A s \in SUBSET N : s # {} => ch[s] \in s

FoldOf(g, N, base, op, ch) ==
    [s \in SUBSET N |-> IF s = {} THEN base ELSE op[<<ch[s], g[s \ {ch[s]}]>>]]

\* There is one.
LEMMA FoldExists ==
    ASSUME NEW N, IsFiniteSet(N), NEW base, NEW op, NEW ch, Picks(ch, N)
    PROVE  \E it : it = FoldOf(it, N, base, op, ch)
<1> DEFINE once(f) == FoldOf(f, N, base, op, ch)
           small(k) == {s \in SUBSET N : Cardinality(s) <= k}
           good == {k \in Nat : \E f : \A s \in small(k) : f[s] = once(f)[s]}
<1>0. \A f : \A s \in SUBSET N : once(f)[s] = IF s = {} THEN base ELSE op[<<ch[s], f[s \ {ch[s]}]>>]
  BY DEF FoldOf
<1>1. \A s \in SUBSET N : IsFiniteSet(s) /\ Cardinality(s) \in Nat
  BY FS_Subset, FS_CardinalityType
<1>2. \A s \in SUBSET N : s # {} =>
         ch[s] \in s /\ s \ {ch[s]} \in SUBSET N /\ Cardinality(s \ {ch[s]}) = Cardinality(s) - 1
  <2> SUFFICES ASSUME NEW s \in SUBSET N, s # {}
               PROVE  /\ ch[s] \in s /\ s \ {ch[s]} \in SUBSET N
                      /\ Cardinality(s \ {ch[s]}) = Cardinality(s) - 1
    OBVIOUS
  <2>1. IsFiniteSet(s) /\ ch[s] \in s
    BY <1>1 DEF Picks
  <2>2. Cardinality(s \ {ch[s]}) = Cardinality(s) - 1
    BY <2>1, FS_RemoveElement
  <2> QED BY <2>1, <2>2
<1>3. ASSUME NEW k \in Nat, NEW f, \A s \in small(k) : f[s] = once(f)[s]
      PROVE  \A s \in small(k + 1) : once(f)[s] = once(once(f))[s]
  <2> SUFFICES ASSUME NEW s \in SUBSET N, Cardinality(s) <= k + 1
               PROVE  once(f)[s] = once(once(f))[s]
    OBVIOUS
  <2>1. CASE s = {}
    BY <1>0, <2>1
  <2>2. CASE s # {}
    <3>1. PICK x \in s : x = ch[s]
      BY <1>2, <2>2
    <3>2. s \ {x} \in SUBSET N /\ Cardinality(s \ {x}) <= k
      <4>1. Cardinality(s \ {x}) = Cardinality(s) - 1 /\ Cardinality(s) \in Nat
        BY <1>1, <1>2, <2>2, <3>1
      <4> QED BY <4>1
    <3>3. f[s \ {x}] = once(f)[s \ {x}]
      BY <1>3, <3>2
    <3>4. once(f)[s] = op[<<x, f[s \ {x}]>>] /\ once(once(f))[s] = op[<<x, once(f)[s \ {x}]>>]
      BY <1>0, <2>2, <3>1
    <3> QED BY <3>3, <3>4
  <2> QED BY <2>1, <2>2
<1> HIDE DEF once
<1>4. 0 \in good
  <2> DEFINE f0 == [s \in SUBSET N |-> base]
  <2>1. \A s \in small(0) : s = {}
    BY <1>1, FS_EmptySet
  <2>2. \A s \in small(0) : f0[s] = once(f0)[s]
    BY <1>0, <2>1
  <2> HIDE DEF f0
  <2> QED BY <2>2
<1>5. ASSUME NEW k \in Nat, k \in good PROVE k + 1 \in good
  <2>1. PICK f : \A s \in small(k) : f[s] = once(f)[s]
    BY <1>5
  <2>2. \A s \in small(k + 1) : once(f)[s] = once(once(f))[s]
    BY <1>3, <2>1
  <2> QED BY <2>2
<1>6. Nat \subseteq good
  <2> HIDE DEF good
  <2> QED BY <1>4, <1>5, AllNumbers
<1>7. Cardinality(N) \in good
  BY <1>6, FS_CardinalityType
<1>8. PICK f : \A s \in small(Cardinality(N)) : f[s] = once(f)[s]
  BY <1>7
<1>9. \A s \in SUBSET N : Cardinality(s) <= Cardinality(N)
  BY FS_Subset
<1>10. \A s \in SUBSET N : once(f)[s] = once(once(f))[s]
  <2>1. \A s \in SUBSET N : f[s] = once(f)[s]
    BY <1>8, <1>9
  <2>2. ASSUME NEW s \in SUBSET N PROVE once(f)[s] = once(once(f))[s]
    <3>1. CASE s = {}
      BY <1>0, <3>1
    <3>2. CASE s # {}
      <4>1. PICK x \in s : x = ch[s] /\ s \ {x} \in SUBSET N
        BY <1>2, <3>2
      <4>2. f[s \ {x}] = once(f)[s \ {x}]
        BY <2>1, <4>1
      <4>3. once(f)[s] = op[<<x, f[s \ {x}]>>] /\ once(once(f))[s] = op[<<x, once(f)[s \ {x}]>>]
        BY <1>0, <3>2, <4>1
      <4> QED BY <4>2, <4>3
    <3> QED BY <3>1, <3>2
  <2> QED BY <2>2
<1> DEFINE it == once(f)
<1>11. it = once(it)
  <2>1. /\ once(f) = [s \in SUBSET N |-> once(f)[s]]
        /\ once(once(f)) = [s \in SUBSET N |-> once(once(f))[s]]
    BY DEF once, FoldOf
  <2>2. once(f) = once(once(f))
    BY <1>10, <2>1
  <2> QED BY <2>2
<1> HIDE DEF it
<1> QED BY <1>11 DEF once

\* Induction over the size of a subset.
BySize(T, N) ==
    \A k \in Nat : (\A s \in SUBSET N : Cardinality(s) = k => s \in T)
                      => \A s \in SUBSET N : Cardinality(s) = k + 1 => s \in T

\* Induction over the sizes of the subsets of a finite set.
LEMMA AllSizes ==
    ASSUME NEW N, IsFiniteSet(N), NEW T, {} \in T, BySize(T, N)
    PROVE  SUBSET N \subseteq T
<1> DEFINE good == {k \in Nat : \A s \in SUBSET N : Cardinality(s) = k => s \in T}
<1>1. \A s \in SUBSET N : IsFiniteSet(s) /\ Cardinality(s) \in Nat
  BY FS_Subset, FS_CardinalityType
<1>2. 0 \in good
  BY <1>1, FS_EmptySet
<1>3. ASSUME NEW k \in Nat, k \in good PROVE k + 1 \in good
  BY <1>3 DEF BySize
<1>4. Nat \subseteq good
  <2> HIDE DEF good
  <2> QED BY <1>2, <1>3, AllNumbers
<1> QED BY <1>1, <1>4

Folded(N, base, op, ch) == CHOOSE it : it = FoldOf(it, N, base, op, ch)

\* The fold that CHOOSE finds is one.
LEMMA FoldedFolds ==
    ASSUME NEW N, IsFiniteSet(N), NEW base, NEW op, NEW ch, Picks(ch, N)
    PROVE  IsFold(Folded(N, base, op, ch), N, base, op, ch)
<1>1. PICK it : it = FoldOf(it, N, base, op, ch)
  BY FoldExists
<1> DEFINE f == Folded(N, base, op, ch)
<1>2. f = FoldOf(f, N, base, op, ch)
  BY <1>1 DEF Folded
<1> HIDE DEF f
<1>3. IsFold(f, N, base, op, ch)
  <2>1. \A g : g = f => \A s \in SUBSET N :
           FoldOf(g, N, base, op, ch)[s] = IF s = {} THEN base ELSE op[<<ch[s], g[s \ {ch[s]}]>>]
    BY DEF FoldOf
  <2> QED BY <1>2, <2>1 DEF IsFold
<1> QED BY <1>3 DEF f

-----------------------------------------------------------------------------
(* Totals: a weight for every element, added in any order *)

Adds(M, add) ==
    /\ add \in [M \X M -> M]
    /\ \A a, b \in M : add[<<a, b>>] = add[<<b, a>>]
    /\ \A a, b, c \in M : add[<<add[<<a, b>>], c>>] = add[<<a, add[<<b, c>>]>>]

AddTo(N, M, add, w) == [p \in N \X M |-> add[<<p[2], w[p[1]]>>]]

\* Of three terms the last two may change places.
LEMMA AddLast ==
    ASSUME NEW M, NEW add, Adds(M, add), NEW a \in M, NEW b \in M, NEW c \in M
    PROVE  /\ add[<<a, b>>] \in M
           /\ add[<<add[<<a, b>>], c>>] = add[<<add[<<a, c>>], b>>]
<1>1. add[<<a, b>>] \in M
  BY DEF Adds
<1>2. add[<<add[<<a, b>>], c>>] = add[<<a, add[<<b, c>>]>>]
  BY DEF Adds
<1>3. add[<<add[<<a, c>>], b>>] = add[<<a, add[<<c, b>>]>>]
  BY DEF Adds
<1>4. add[<<b, c>>] = add[<<c, b>>]
  BY DEF Adds
<1> QED BY <1>1, <1>2, <1>3, <1>4


\* The weight of one element more.
LEMMA AddToAdds ==
    ASSUME NEW N, NEW M, NEW add, Adds(M, add), NEW w \in [N -> M], NEW x \in N, NEW m \in M
    PROVE  /\ AddTo(N, M, add, w)[<<x, m>>] = add[<<m, w[x]>>]
           /\ add[<<m, w[x]>>] \in M
BY DEF AddTo, Adds

\* The element that ch picks from s is added last.
AddsLast(it, add, w, ch, s) == \E c \in s : c = ch[s] /\ it[s] = add[<<it[s \ {c}], w[c]>>]

\* What is folded stays among the values.
LEMMA FoldTyped ==
    ASSUME NEW N, IsFiniteSet(N), NEW M, NEW add, Adds(M, add), NEW w \in [N -> M],
           NEW ch, Picks(ch, N), NEW b \in M,
           NEW it, IsFold(it, N, b, AddTo(N, M, add, w), ch)
    PROVE  /\ it[{}] = b
           /\ \A s \in SUBSET N : it[s] \in M
           /\ \A s \in SUBSET N : s # {} => AddsLast(it, add, w, ch, s)
<1> DEFINE op == AddTo(N, M, add, w)
           T == {s \in SUBSET N : it[s] \in M}
<1>2. \A s \in SUBSET N : it[s] = IF s = {} THEN b ELSE op[<<ch[s], it[s \ {ch[s]}]>>]
  BY DEF IsFold
<1> HIDE DEF op
<1>3. {} \in T /\ it[{}] = b
  BY <1>2
<1>4. BySize(T, N)
  <2> SUFFICES ASSUME NEW k \in Nat, \A s \in SUBSET N : Cardinality(s) = k => it[s] \in M,
                      NEW s \in SUBSET N, Cardinality(s) = k + 1
               PROVE  it[s] \in M
    BY DEF BySize
  <2>1. IsFiniteSet(s) /\ s # {}
    BY FS_Subset, FS_EmptySet
  <2>2. PICK c \in s : c = ch[s]
    BY <2>1 DEF Picks
  <2>3. Cardinality(s \ {c}) = Cardinality(s) - 1
    BY <2>1, FS_RemoveElement
  <2>4. Cardinality(s \ {c}) = k
    BY <2>3
  <2>5. it[s \ {c}] \in M
    BY <2>4
  <2>6. it[s] = op[<<c, it[s \ {c}]>>]
    BY <1>2, <2>1, <2>2
  <2>7. c \in N
    OBVIOUS
  <2>8. PICK m \in M : it[s] = op[<<c, m>>]
    BY <2>5, <2>6
  <2>9. op[<<c, m>>] = add[<<m, w[c]>>] /\ add[<<m, w[c]>>] \in M
    BY <2>7, AddToAdds DEF op
  <2> QED BY <2>8, <2>9
<1>5. SUBSET N \subseteq T
  <2> HIDE DEF T
  <2> QED BY <1>3, <1>4, AllSizes
<1>6. ASSUME NEW s \in SUBSET N, s # {}
      PROVE  AddsLast(it, add, w, ch, s)
  <2>1. PICK c \in s : c = ch[s]
    BY <1>6 DEF Picks
  <2>2. it[s \ {c}] \in M
    BY <1>5
  <2>3. it[s] = add[<<it[s \ {c}], w[c]>>]
    <3>1. it[s] = op[<<c, it[s \ {c}]>>] /\ c \in N
      BY <1>2, <1>6, <2>1
    <3> QED BY <2>2, <3>1, AddToAdds DEF op
  <2> QED BY <2>1, <2>3 DEF AddsLast
<1> QED BY <1>3, <1>5, <1>6

\* it[s] is it[s \ {x}] and x, whichever x.
Pulls(it, add, w, s) == \A x \in s : it[s] = add[<<it[s \ {x}], w[x]>>]

\* The sum without x.
LEMMA PullOne ==
    ASSUME NEW it, NEW add, NEW w, NEW s, Pulls(it, add, w, s), NEW x \in s, NEW z, z = s \ {x}
    PROVE  it[s] = add[<<it[z], w[x]>>]
BY DEF Pulls

\* What is folded may be taken apart at any element.
LEMMA Pull ==
    ASSUME NEW N, IsFiniteSet(N), NEW M, NEW add, Adds(M, add), NEW w \in [N -> M],
           NEW ch, Picks(ch, N), NEW b \in M,
           NEW it, IsFold(it, N, b, AddTo(N, M, add, w), ch)
    PROVE  \A s \in SUBSET N : Pulls(it, add, w, s)
<1> DEFINE T == {s \in SUBSET N : Pulls(it, add, w, s)}
<1>1. /\ \A s \in SUBSET N : it[s] \in M
      /\ \A s \in SUBSET N : s # {} => AddsLast(it, add, w, ch, s)
  BY FoldTyped
<1>2. {} \in T
  BY DEF Pulls
<1>3. BySize(T, N)
  <2> SUFFICES ASSUME NEW k \in Nat, \A s \in SUBSET N : Cardinality(s) = k => Pulls(it, add, w, s),
                      NEW s \in SUBSET N, Cardinality(s) = k + 1, NEW x \in s
               PROVE  it[s] = add[<<it[s \ {x}], w[x]>>]
    BY DEF BySize, Pulls
  <2>1. IsFiniteSet(s)
    BY FS_Subset
  <2>2. PICK c \in s : it[s] = add[<<it[s \ {c}], w[c]>>]
    BY <1>1 DEF AddsLast
  <2>3. CASE x = c
    BY <2>2, <2>3
  <2>4. CASE x # c
    <3>1. \A y \in s : Pulls(it, add, w, s \ {y})
      <4> SUFFICES ASSUME NEW y \in s PROVE Pulls(it, add, w, s \ {y})
        OBVIOUS
      <4>1. Cardinality(s \ {y}) = Cardinality(s) - 1
        BY <2>1, FS_RemoveElement
      <4>2. Cardinality(s \ {y}) = k
        BY <4>1
      <4> QED BY <4>2
    <3> DEFINE z == s \ {x, c}
    <3>2. z = (s \ {c}) \ {x} /\ z = (s \ {x}) \ {c} /\ x \in s \ {c} /\ c \in s \ {x}
      BY <2>4
    <3>3. it[s \ {c}] = add[<<it[z], w[x]>>] /\ it[s \ {x}] = add[<<it[z], w[c]>>]
      <4> HIDE DEF z
      <4>1. PICK u, v : u = s \ {c} /\ v = s \ {x}
        OBVIOUS
      <4>2. Pulls(it, add, w, u) /\ x \in u /\ z = u \ {x}
        BY <3>1, <3>2, <4>1
      <4>3. Pulls(it, add, w, v) /\ c \in v /\ z = v \ {c}
        BY <3>1, <3>2, <4>1
      <4>4. it[u] = add[<<it[z], w[x]>>]
        BY <4>2, PullOne
      <4>5. it[v] = add[<<it[z], w[c]>>]
        BY <4>3, PullOne
      <4> QED BY <4>1, <4>4, <4>5
    <3>4. it[z] \in M /\ w[x] \in M /\ w[c] \in M
      BY <1>1
    <3> HIDE DEF z
    <3>5. add[<<add[<<it[z], w[x]>>], w[c]>>] = add[<<add[<<it[z], w[c]>>], w[x]>>]
      BY <3>4, AddLast
    <3> QED BY <2>2, <3>3, <3>5
  <2> QED BY <2>3, <2>4
<1>4. SUBSET N \subseteq T
  <2> HIDE DEF T
  <2> QED BY <1>2, <1>3, AllSizes
<1> QED BY <1>4

\* Two folds from different bases.
LEMMA Rebase ==
    ASSUME NEW N, IsFiniteSet(N), NEW M, NEW add, Adds(M, add), NEW w \in [N -> M],
           NEW ch, Picks(ch, N), NEW b \in M, NEW m \in M,
           NEW f, IsFold(f, N, b, AddTo(N, M, add, w), ch),
           NEW g, IsFold(g, N, add[<<b, m>>], AddTo(N, M, add, w), ch)
    PROVE  \A s \in SUBSET N : g[s] = add[<<f[s], m>>]
<1> DEFINE T == {s \in SUBSET N : g[s] = add[<<f[s], m>>]}
<1>0. add[<<b, m>>] \in M
  BY AddLast
<1>1. /\ f[{}] = b /\ g[{}] = add[<<b, m>>]
      /\ \A s \in SUBSET N : f[s] \in M
      /\ \A s \in SUBSET N : Pulls(f, add, w, s) /\ Pulls(g, add, w, s)
  BY <1>0, FoldTyped, Pull
<1>2. Grows(T, N)
  <2>1. {} \in T
    BY <1>1
  <2>2. ASSUME NEW s \in SUBSET N, NEW x \in N, x \notin s, g[s] = add[<<f[s], m>>]
        PROVE  g[s \cup {x}] = add[<<f[s \cup {x}], m>>]
    <3> DEFINE t == s \cup {x}
    <3>1. t \in SUBSET N /\ x \in t /\ t \ {x} = s
      BY <2>2
    <3>2. f[t] = add[<<f[s], w[x]>>] /\ g[t] = add[<<g[s], w[x]>>]
      <4>1. Pulls(f, add, w, t) /\ Pulls(g, add, w, t)
        BY <1>1, <3>1
      <4> HIDE DEF t
      <4> QED BY <3>1, <4>1 DEF Pulls
    <3>3. f[s] \in M /\ w[x] \in M
      BY <1>1
    <3> HIDE DEF t
    <3>4. add[<<add[<<f[s], m>>], w[x]>>] = add[<<add[<<f[s], w[x]>>], m>>]
      BY <3>3, AddLast
    <3> QED BY <2>2, <3>2, <3>4 DEF t
  <2> QED BY <2>1, <2>2 DEF Grows
<1>3. SUBSET N \subseteq T
  <2> HIDE DEF T
  <2> QED BY <1>2, AllSubsets
<1> QED BY <1>3

\* tot has the sum of the weights of each set that is not empty.
IsTotal(tot, N, add, w) ==
    /\ \A x \in N : tot[{x}] = w[x]
    /\ \A s \in SUBSET N : s # {} =>
          \A x \in N : x \notin s => tot[s \cup {x}] = add[<<tot[s], w[x]>>]


\* Everything added to the weight of one element.
SumFrom(N, M, add, w, ch, x, s) == Folded(N, w[x], AddTo(N, M, add, w), ch)[s \ {x}]

\* It does not matter which element that is.
LEMMA AnyFirst ==
    ASSUME NEW N, IsFiniteSet(N), NEW M, NEW add, Adds(M, add), NEW w \in [N -> M],
           NEW ch, Picks(ch, N), NEW s \in SUBSET N, NEW x \in s, NEW y \in s
    PROVE  SumFrom(N, M, add, w, ch, x, s) = SumFrom(N, M, add, w, ch, y, s)
<1> DEFINE op == AddTo(N, M, add, w)
<1>1. PICK f : f = Folded(N, w[x], op, ch) /\ IsFold(f, N, w[x], op, ch)
  BY FoldedFolds
<1>2. PICK g : g = Folded(N, w[y], op, ch) /\ IsFold(g, N, w[y], op, ch)
  BY FoldedFolds
<1>3. PICK h : IsFold(h, N, add[<<w[x], w[y]>>], op, ch)
  BY FoldedFolds
<1>4. x \in N /\ y \in N /\ w[x] \in M /\ w[y] \in M /\ add[<<w[x], w[y]>>] = add[<<w[y], w[x]>>]
  BY DEF Adds
<1>5. CASE x = y
  BY <1>5
<1>6. CASE x # y
  <2> DEFINE z == s \ {x, y}
  <2>1. z = (s \ {x}) \ {y} /\ z = (s \ {y}) \ {x} /\ y \in s \ {x} /\ x \in s \ {y}
    BY <1>6
  <2>2. f[s \ {x}] = add[<<f[z], w[y]>>]
    <3>1. Pulls(f, add, w, s \ {x})
      BY <1>1, <1>4, Pull
    <3> HIDE DEF z
    <3> QED BY <2>1, <3>1, PullOne
  <2>3. g[s \ {y}] = add[<<g[z], w[x]>>]
    <3>1. Pulls(g, add, w, s \ {y})
      BY <1>2, <1>4, Pull
    <3> HIDE DEF z
    <3> QED BY <2>1, <3>1, PullOne
  <2>4. z \in SUBSET N
    OBVIOUS
  <2> HIDE DEF z, op
  <2>5. h[z] = add[<<f[z], w[y]>>]
    BY <1>1, <1>3, <1>4, <2>4, Rebase DEF op
  <2>6. h[z] = add[<<g[z], w[x]>>]
    BY <1>2, <1>3, <1>4, <2>4, Rebase DEF op
  <2>7. f[s \ {x}] = g[s \ {y}]
    BY <2>2, <2>3, <2>5, <2>6
  <2> QED BY <1>1, <1>2, <2>7 DEF SumFrom, op
<1> QED BY <1>5, <1>6

SumOf(N, M, add, w, ch) == [s \in SUBSET N |-> SumFrom(N, M, add, w, ch, ch[s], s)]

\* The sum, begun with any element and taken in any order, is a total.
LEMMA SumIsTotal ==
    ASSUME NEW N, IsFiniteSet(N), NEW M, NEW add, Adds(M, add), NEW w \in [N -> M],
           NEW ch, Picks(ch, N)
    PROVE  /\ IsTotal(SumOf(N, M, add, w, ch), N, add, w)
           /\ \A s \in SUBSET N : s # {} => SumOf(N, M, add, w, ch)[s] \in M
<1> DEFINE op == AddTo(N, M, add, w)
           S == SumOf(N, M, add, w, ch)
           from(x, s) == SumFrom(N, M, add, w, ch, x, s)
<1>1. \A s \in SUBSET N : \A x \in s : S[s] = from(x, s)
  <2> SUFFICES ASSUME NEW s \in SUBSET N, NEW x \in s PROVE S[s] = from(x, s)
    OBVIOUS
  <2>1. ch[s] \in s
    BY DEF Picks
  <2>2. PICK y \in s : y = ch[s]
    BY <2>1
  <2>3. S[s] = from(y, s)
    BY <2>2 DEF SumOf
  <2> HIDE DEF S
  <2> QED BY <2>3, AnyFirst
<1> HIDE DEF S
<1>2. ASSUME NEW x \in N PROVE S[{x}] = w[x]
  <2>1. PICK f : f = Folded(N, w[x], op, ch) /\ IsFold(f, N, w[x], op, ch)
    BY FoldedFolds
  <2>2. f[{}] = w[x]
    BY <2>1, FoldTyped
  <2>3. {x} \ {x} = {} /\ {x} \in SUBSET N /\ x \in {x}
    OBVIOUS
  <2> QED BY <1>1, <2>1, <2>2, <2>3 DEF SumFrom
<1>3. ASSUME NEW s \in SUBSET N, s # {}, NEW y \in N, y \notin s
      PROVE  S[s \cup {y}] = add[<<S[s], w[y]>>]
  <2> DEFINE t == s \cup {y}
  <2>1. PICK x \in s : TRUE
    BY <1>3
  <2>2. PICK f : f = Folded(N, w[x], op, ch) /\ IsFold(f, N, w[x], op, ch)
    BY FoldedFolds
  <2>3. t \in SUBSET N /\ x \in t /\ y \in t \ {x} /\ (t \ {x}) \ {y} = s \ {x}
    BY <1>3, <2>1
  <2> HIDE DEF t
  <2>4. S[t] = f[t \ {x}] /\ S[s] = f[s \ {x}]
    BY <1>1, <2>2, <2>3 DEF SumFrom
  <2>5. f[t \ {x}] = add[<<f[s \ {x}], w[y]>>]
    <3>1. w[x] \in M
      OBVIOUS
    <3>2. Pulls(f, add, w, t \ {x})
      BY <2>2, <2>3, <3>1, Pull
    <3> QED BY <2>3, <3>2, PullOne
  <2> QED BY <2>4, <2>5 DEF t
<1>4. ASSUME NEW s \in SUBSET N, s # {} PROVE S[s] \in M
  <2>1. PICK x \in s : TRUE
    BY <1>4
  <2>2. PICK f : f = Folded(N, w[x], op, ch) /\ IsFold(f, N, w[x], op, ch)
    BY FoldedFolds
  <2>3. f[s \ {x}] \in M
    <3>1. w[x] \in M /\ s \ {x} \in SUBSET N
      OBVIOUS
    <3> QED BY <2>2, <3>1, FoldTyped
  <2> QED BY <1>1, <2>2, <2>3 DEF SumFrom
<1>5. IsTotal(S, N, add, w)
  BY <1>2, <1>3 DEF IsTotal
<1> QED BY <1>4, <1>5 DEF S

\* The total of two sets that have nothing in common.
LEMMA TotalOfBoth ==
    ASSUME NEW N, IsFiniteSet(N), NEW M, NEW add, Adds(M, add), NEW w \in [N -> M],
           NEW tot, IsTotal(tot, N, add, w), \A s \in SUBSET N : s # {} => tot[s] \in M,
           NEW c \in SUBSET N, c # {}, NEW d \in SUBSET N, d # {}, c \cap d = {}
    PROVE  tot[c \cup d] = add[<<tot[c], tot[d]>>]
<1> DEFINE T == {s \in SUBSET (N \ c) : s # {} => tot[c \cup s] = add[<<tot[c], tot[s]>>]}
<1>1. IsFiniteSet(N \ c)
  BY FS_Difference
<1>2. Grows(T, N \ c)
  <2>1. {} \in T
    OBVIOUS
  <2>2. ASSUME NEW s \in SUBSET (N \ c), NEW x \in N \ c, x \notin s,
               s # {} => tot[c \cup s] = add[<<tot[c], tot[s]>>]
        PROVE  tot[c \cup (s \cup {x})] = add[<<tot[c], tot[s \cup {x}]>>]
    <3>1. CASE s = {}
      <4>1. c \cup (s \cup {x}) = c \cup {x} /\ s \cup {x} = {x}
        BY <3>1
      <4>2. tot[c \cup {x}] = add[<<tot[c], w[x]>>] /\ tot[{x}] = w[x]
        BY DEF IsTotal
      <4> QED BY <4>1, <4>2
    <3>2. CASE s # {}
      <4>1. c \cup (s \cup {x}) = (c \cup s) \cup {x} /\ c \cup s \in SUBSET N /\ x \notin c \cup s
            /\ c \cup s # {} /\ s \in SUBSET N /\ x \in N
        BY <2>2
      <4>2. tot[(c \cup s) \cup {x}] = add[<<tot[c \cup s], w[x]>>]
        BY <4>1 DEF IsTotal
      <4>3. tot[s \cup {x}] = add[<<tot[s], w[x]>>]
        BY <2>2, <3>2, <4>1 DEF IsTotal
      <4>4. tot[c] \in M /\ tot[s] \in M /\ w[x] \in M
        BY <3>2, <4>1
      <4>5. add[<<add[<<tot[c], tot[s]>>], w[x]>>] = add[<<tot[c], add[<<tot[s], w[x]>>]>>]
        BY <4>4 DEF Adds
      <4> QED BY <2>2, <3>2, <4>1, <4>2, <4>3, <4>5
    <3> QED BY <3>1, <3>2
  <2> QED BY <2>1, <2>2 DEF Grows
<1>3. SUBSET (N \ c) \subseteq T
  <2> HIDE DEF T
  <2> QED BY <1>1, <1>2, AllSubsets
<1>4. d \in SUBSET (N \ c)
  OBVIOUS
<1> QED BY <1>3, <1>4

-----------------------------------------------------------------------------
(* Blocks that are merged along edges *)

\* The set S never has one end of an edge without the other.
Shut(C, S) == \A e \in C : e[1] \in S <=> e[2] \in S

\* P parts N, along no edge, and nowhere else than it must.
Parts(N, C, P) ==
    /\ P \in SUBSET (SUBSET N)
    /\ \A n \in N : \E b \in P : n \in b
    /\ \A b \in P : b # {}
    /\ \A b, c \in P : \A n \in b : n \in c => b = c
    /\ \A b \in P : Shut(C, b)
    /\ \A S : Shut(C, S) => \A b \in P : \A m, n \in b : m \in S <=> n \in S

\* Single nodes, as long as there is no edge.
LEMMA PartsAlone ==
    ASSUME NEW N
    PROVE  Parts(N, {}, {{n} : n \in N})
<1> DEFINE P == {{n} : n \in N}
<1>1. P \in SUBSET (SUBSET N) /\ (\A n \in N : {n} \in P) /\ \A b \in P : \E n \in N : b = {n}
  OBVIOUS
<1> HIDE DEF P
<1>2. \A n \in N : \E b \in P : n \in b
  <2> SUFFICES ASSUME NEW n \in N PROVE \E b \in P : n \in b
    OBVIOUS
  <2>1. {n} \in P /\ n \in {n}
    BY <1>1
  <2> QED BY <2>1
<1>3. \A b \in P : b # {} /\ \A m, n \in b : m = n
  BY <1>1
<1>4. ASSUME NEW b \in P, NEW c \in P, NEW n \in b, n \in c PROVE b = c
  <2>1. PICK x \in N : b = {x}
    BY <1>1
  <2>2. PICK y \in N : c = {y}
    BY <1>1
  <2> QED BY <1>4, <2>1, <2>2
<1>5. \A S : \A b \in P : \A m, n \in b : m \in S <=> n \in S
  BY <1>3
<1>6. \A b \in P : Shut({}, b)
  BY DEF Shut
<1>7. Parts(N, {}, P)
  BY <1>1, <1>2, <1>3, <1>4, <1>5, <1>6 DEF Parts
<1> QED BY <1>7 DEF P

\* One edge more.
LEMMA MergeParts ==
    ASSUME NEW N, NEW C, NEW P, Parts(N, C, P), NEW e \in N \X N
    PROVE  Parts(N, C \cup {e}, MergeBlocks(e, P))
<1> DEFINE hit == {b \in P : e[1] \in b \/ e[2] \in b}
           whole == UNION hit
           Q == MergeBlocks(e, P)
<1>1. e[1] \in N /\ e[2] \in N
  OBVIOUS
<1>2. Q = (P \ hit) \cup {whole}
  BY DEF MergeBlocks
<1>3. /\ P \in SUBSET (SUBSET N)
      /\ \A n \in N : \E b \in P : n \in b
      /\ \A b \in P : b # {}
      /\ \A b, c \in P : \A n \in b : n \in c => b = c
      /\ \A b \in P : Shut(C, b)
      /\ \A S : Shut(C, S) => \A b \in P : \A m, n \in b : m \in S <=> n \in S
  BY DEF Parts
<1>4. PICK b1 \in P : e[1] \in b1
  BY <1>1, <1>3
<1>5. PICK b2 \in P : e[2] \in b2
  BY <1>1, <1>3
<1>6. hit = {b1, b2}
  BY <1>3, <1>4, <1>5
<1>7. whole = b1 \cup b2
  BY <1>6
<1> HIDE DEF hit, whole, Q
<1>8. Q \in SUBSET (SUBSET N) /\ \A b \in Q : b = whole \/ (b \in P /\ b # b1 /\ b # b2)
  BY <1>2, <1>3, <1>6, <1>7
<1>9. \A n \in N : \E b \in Q : n \in b
  <2> SUFFICES ASSUME NEW n \in N PROVE \E b \in Q : n \in b
    OBVIOUS
  <2>1. PICK b \in P : n \in b
    BY <1>3
  <2>2. CASE b \in hit
    <3>1. n \in whole /\ whole \in Q
      BY <1>2, <1>6, <1>7, <2>1, <2>2
    <3> QED BY <3>1
  <2>3. CASE b \notin hit
    BY <1>2, <2>1, <2>3
  <2> QED BY <2>2, <2>3
<1>10. \A b \in Q : b # {}
  BY <1>3, <1>4, <1>7, <1>8
<1>11. ASSUME NEW b \in Q, NEW c \in Q, NEW n \in b, n \in c PROVE b = c
  <2>1. \A d \in P : n \in d /\ n \in whole => d = b1 \/ d = b2
    BY <1>3, <1>7
  <2>2. CASE b \in P /\ c \in P
    BY <1>3, <1>11, <2>2
  <2>3. CASE b = whole
    BY <1>8, <1>11, <2>1, <2>3
  <2>4. CASE c = whole
    BY <1>8, <1>11, <2>1, <2>4
  <2> QED BY <1>8, <2>2, <2>3, <2>4
<1>12. \A b \in Q : Shut(C \cup {e}, b)
  <2> SUFFICES ASSUME NEW b \in Q, NEW d \in C \cup {e} PROVE d[1] \in b <=> d[2] \in b
    BY DEF Shut
  <2>1. CASE b = whole
    BY <1>3, <1>4, <1>5, <1>7, <2>1 DEF Shut
  <2>2. CASE b # whole
    <3>1. b \in P /\ b # b1 /\ b # b2
      BY <1>8, <2>2
    <3>2. e[1] \notin b /\ e[2] \notin b
      BY <1>3, <1>4, <1>5, <3>1
    <3> QED BY <1>3, <3>1, <3>2 DEF Shut
  <2> QED BY <2>1, <2>2
<1>13. ASSUME NEW S, Shut(C \cup {e}, S), NEW b \in Q, NEW m \in b, NEW n \in b
       PROVE  m \in S <=> n \in S
  <2>1. Shut(C, S) /\ (e[1] \in S <=> e[2] \in S)
    BY <1>13 DEF Shut
  <2>2. \A c \in P : \A i, j \in c : i \in S <=> j \in S
    BY <1>3, <2>1
  <2>3. CASE b = whole
    <3>1. \A i \in b1 : i \in S <=> e[1] \in S
      BY <1>4, <2>2
    <3>2. \A i \in b2 : i \in S <=> e[2] \in S
      BY <1>5, <2>2
    <3>3. m \in b1 \cup b2 /\ n \in b1 \cup b2
      BY <1>7, <2>3
    <3> QED BY <2>1, <3>1, <3>2, <3>3
  <2>4. CASE b # whole
    BY <1>8, <2>2, <2>4
  <2> QED BY <2>3, <2>4
<1> QED BY <1>8, <1>9, <1>10, <1>11, <1>12, <1>13 DEF Parts, Q

\* The fold of MergeBlocks, as TLC's definition of it.
MergesAll(it, N, C) ==
    it = [s \in SUBSET C |-> IF s = {} THEN {{n} : n \in N}
                             ELSE LET x == CHOOSE x \in s : TRUE
                                  IN  MergeBlocks(x, it[s \ {x}])]

Any(N) == [s \in SUBSET N |-> CHOOSE x \in s : TRUE]

\* TLC's choice of an element is one of the set.
LEMMA AnyPicks ==
    ASSUME NEW N
    PROVE  Picks(Any(N), N)
BY DEF Picks, Any

\* The merging of the blocks, as the community modules define the fold.
LEMMA MergeFold ==
    ASSUME NEW N, NEW C
    PROVE  FoldSet(MergeBlocks, {{n} : n \in N}, C) = (CHOOSE it : MergesAll(it, N, C))[C]
BY DEF FoldSet, MapThenFoldSet, MergesAll

\* The fold gives the finest parts that no edge connects.
LEMMA FoldParts ==
    ASSUME NEW N, NEW C, C \subseteq N \X N, IsFiniteSet(C)
    PROVE  Parts(N, C, FoldSet(MergeBlocks, {{n} : n \in N}, C))
<1> DEFINE base == {{n} : n \in N}
           V == SUBSET (SUBSET N)
           op == [p \in C \X V |-> MergeBlocks(p[1], p[2])]
           ch == Any(C)
<1>1. Picks(ch, C)
  BY AnyPicks
<1>2. PICK f : IsFold(f, C, base, op, ch)
  BY <1>1, FoldedFolds
<1>3. \A s \in SUBSET C : f[s] = IF s = {} THEN base ELSE op[<<ch[s], f[s \ {ch[s]}]>>]
  BY <1>2 DEF IsFold
<1>4. \A e \in C, P \in V : op[<<e, P>>] = MergeBlocks(e, P)
  OBVIOUS
<1>5. \A s \in SUBSET C : s # {} => ch[s] \in s /\ ch[s] = CHOOSE x \in s : TRUE
  BY DEF Any
<1> HIDE DEF op, ch
<1> DEFINE T == {s \in SUBSET C : /\ Parts(N, s, f[s])
                                  /\ s # {} => f[s] = MergeBlocks(ch[s], f[s \ {ch[s]}])}
<1>6. {} \in T
  BY <1>3, PartsAlone
<1>7. BySize(T, C)
  <2> SUFFICES ASSUME NEW k \in Nat, \A s \in SUBSET C : Cardinality(s) = k => s \in T,
                      NEW s \in SUBSET C, Cardinality(s) = k + 1
               PROVE  s \in T
    BY DEF BySize
  <2>1. IsFiniteSet(s) /\ s # {}
    BY FS_Subset, FS_EmptySet
  <2>2. PICK e \in s : e = ch[s]
    BY <1>5, <2>1
  <2>3. PICK z : z = s \ {e}
    OBVIOUS
  <2>4. Cardinality(z) = Cardinality(s) - 1
    BY <2>1, <2>3, FS_RemoveElement
  <2>5. Cardinality(z) = k
    BY <2>4
  <2>6. Parts(N, z, f[z])
    BY <2>3, <2>5
  <2>7. f[s] = op[<<e, f[z]>>]
    BY <1>3, <2>1, <2>2, <2>3
  <2>8. f[z] \in V /\ e \in C /\ e \in N \X N
    BY <2>6 DEF Parts
  <2>9. f[s] = MergeBlocks(e, f[z])
    BY <1>4, <2>7, <2>8
  <2>10. Parts(N, z \cup {e}, f[s])
    BY <2>6, <2>8, <2>9, MergeParts
  <2>11. z \cup {e} = s
    BY <2>3
  <2> QED BY <2>2, <2>3, <2>9, <2>10, <2>11
<1>8. SUBSET C \subseteq T
  <2> HIDE DEF T
  <2> QED BY <1>6, <1>7, AllSizes
<1> DEFINE g == [s \in SUBSET C |-> f[s]]
<1>9. MergesAll(g, N, C)
  <2> DEFINE right(s) == IF s = {} THEN {{n} : n \in N}
                         ELSE LET x == CHOOSE x \in s : TRUE IN MergeBlocks(x, g[s \ {x}])
  <2>1. ASSUME NEW s \in SUBSET C PROVE f[s] = right(s)
    <3>1. CASE s = {}
      BY <1>3, <3>1
    <3>2. CASE s # {}
      <4>1. PICK x \in s : x = ch[s] /\ x = CHOOSE y \in s : TRUE
        BY <1>5, <3>2
      <4>2. PICK z \in SUBSET C : z = s \ {x}
        OBVIOUS
      <4>3. f[s] = MergeBlocks(x, f[z])
        BY <1>8, <3>2, <4>1, <4>2
      <4>4. g[z] = f[z]
        OBVIOUS
      <4> HIDE DEF g
      <4>5. right(s) = MergeBlocks(x, g[z])
        BY <3>2, <4>1, <4>2
      <4> QED BY <4>3, <4>4, <4>5
    <3> QED BY <3>1, <3>2
  <2> QED BY <2>1 DEF MergesAll
<1> DEFINE h == CHOOSE it : MergesAll(it, N, C)
<1>10. MergesAll(h, N, C)
  BY <1>9
<1> HIDE DEF g, h
<1>11. \A s \in SUBSET C :
          h[s] = IF s = {} THEN {{n} : n \in N}
                 ELSE LET x == CHOOSE x \in s : TRUE IN MergeBlocks(x, h[s \ {x}])
  BY <1>10 DEF MergesAll
<1> DEFINE U == {s \in SUBSET C : h[s] = f[s]}
<1>12. {} \in U
  BY <1>3, <1>11
<1>13. BySize(U, C)
  <2> SUFFICES ASSUME NEW k \in Nat, \A s \in SUBSET C : Cardinality(s) = k => s \in U,
                      NEW s \in SUBSET C, Cardinality(s) = k + 1
               PROVE  s \in U
    BY DEF BySize
  <2>1. IsFiniteSet(s) /\ s # {}
    BY FS_Subset, FS_EmptySet
  <2>2. PICK x \in s : x = ch[s] /\ x = CHOOSE y \in s : TRUE
    BY <1>5, <2>1
  <2>3. PICK z \in SUBSET C : z = s \ {x}
    OBVIOUS
  <2>4. Cardinality(z) = Cardinality(s) - 1
    BY <2>1, <2>3, FS_RemoveElement
  <2>5. Cardinality(z) = k
    BY <2>4
  <2>6. h[z] = f[z]
    BY <2>5
  <2>7. f[s] = MergeBlocks(x, f[z])
    BY <1>8, <2>1, <2>2, <2>3
  <2>8. h[s] = MergeBlocks(x, h[z])
    BY <1>11, <2>1, <2>2, <2>3
  <2> QED BY <2>6, <2>7, <2>8
<1>14. SUBSET C \subseteq U
  <2> HIDE DEF U
  <2> QED BY <1>12, <1>13, AllSizes
<1>15. FoldSet(MergeBlocks, {{n} : n \in N}, C) = f[C]
  BY <1>14, MergeFold DEF h
<1> QED BY <1>8, <1>15

-----------------------------------------------------------------------------
(* The statistics of a component *)

AddStats == [p \in Stats \X Stats |-> StatsAdd(p[1], p[2])]

Weights == [n \in Node |-> RunStats(n)]

\* The fields of a sum.
LEMMA StatsAddFields ==
    ASSUME NEW a, NEW b, NEW s, s = StatsAdd(a, b)
    PROVE  /\ s.min_x = Lower(a.min_x, b.min_x) /\ s.max_x = Higher(a.max_x, b.max_x)
           /\ s.min_y = Lower(a.min_y, b.min_y) /\ s.max_y = Higher(a.max_y, b.max_y)
           /\ s.sum_x = a.sum_x + b.sum_x /\ s.sum_y = a.sum_y + b.sum_y
           /\ s.count = a.count + b.count
BY DEF StatsAdd

\* Sums with the same fields are the same.
LEMMA SameSums ==
    ASSUME NEW a, NEW b, NEW c, NEW d,
           Lower(a.min_x, b.min_x) = Lower(c.min_x, d.min_x),
           Higher(a.max_x, b.max_x) = Higher(c.max_x, d.max_x),
           Lower(a.min_y, b.min_y) = Lower(c.min_y, d.min_y),
           Higher(a.max_y, b.max_y) = Higher(c.max_y, d.max_y),
           a.sum_x + b.sum_x = c.sum_x + d.sum_x, a.sum_y + b.sum_y = c.sum_y + d.sum_y,
           a.count + b.count = c.count + d.count
    PROVE  StatsAdd(a, b) = StatsAdd(c, d)
BY DEF StatsAdd

\* stats_add does not depend on the order.
LEMMA StatsAddAdds == Adds(Stats, AddStats)
<1>1. ASSUME NEW a \in Stats, NEW b \in Stats
      PROVE  AddStats[<<a, b>>] = StatsAdd(a, b) /\ StatsAdd(a, b) \in Stats
  BY StatsAddType DEF AddStats
<1>2. AddStats \in [Stats \X Stats -> Stats]
  BY <1>1 DEF AddStats
<1>3. \A m, n \in Int : Lower(m, n) = Lower(n, m) /\ Higher(m, n) = Higher(n, m)
  BY DEF Lower, Higher
<1>4. \A l, m, n \in Int : /\ Lower(Lower(l, m), n) = Lower(l, Lower(m, n))
                           /\ Higher(Higher(l, m), n) = Higher(l, Higher(m, n))
  BY DEF Lower, Higher
<1>5. \A s \in Stats : /\ s.min_x \in Int /\ s.max_x \in Int /\ s.min_y \in Int /\ s.max_y \in Int
                       /\ s.sum_x \in Nat /\ s.sum_y \in Nat /\ s.count \in Nat
  BY Sizes DEF Stats
<1>6. ASSUME NEW a \in Stats, NEW b \in Stats PROVE StatsAdd(a, b) = StatsAdd(b, a)
  BY <1>3, <1>5 DEF StatsAdd
<1>7. ASSUME NEW a \in Stats, NEW b \in Stats, NEW c \in Stats
      PROVE  StatsAdd(StatsAdd(a, b), c) = StatsAdd(a, StatsAdd(b, c))
  <2>1. PICK ab : ab = StatsAdd(a, b)
    OBVIOUS
  <2>2. PICK bc : bc = StatsAdd(b, c)
    OBVIOUS
  <2>a. /\ ab.min_x = Lower(a.min_x, b.min_x) /\ ab.max_x = Higher(a.max_x, b.max_x)
        /\ ab.min_y = Lower(a.min_y, b.min_y) /\ ab.max_y = Higher(a.max_y, b.max_y)
        /\ ab.sum_x = a.sum_x + b.sum_x /\ ab.sum_y = a.sum_y + b.sum_y
        /\ ab.count = a.count + b.count
    BY <2>1, StatsAddFields
  <2>b. /\ bc.min_x = Lower(b.min_x, c.min_x) /\ bc.max_x = Higher(b.max_x, c.max_x)
        /\ bc.min_y = Lower(b.min_y, c.min_y) /\ bc.max_y = Higher(b.max_y, c.max_y)
        /\ bc.sum_x = b.sum_x + c.sum_x /\ bc.sum_y = b.sum_y + c.sum_y
        /\ bc.count = b.count + c.count
    BY <2>2, StatsAddFields
  <2>3. /\ Lower(ab.min_x, c.min_x) = Lower(a.min_x, bc.min_x)
        /\ Higher(ab.max_x, c.max_x) = Higher(a.max_x, bc.max_x)
        /\ Lower(ab.min_y, c.min_y) = Lower(a.min_y, bc.min_y)
        /\ Higher(ab.max_y, c.max_y) = Higher(a.max_y, bc.max_y)
    BY <1>4, <1>5, <2>a, <2>b
  <2>4. /\ ab.sum_x + c.sum_x = a.sum_x + bc.sum_x /\ ab.sum_y + c.sum_y = a.sum_y + bc.sum_y
        /\ ab.count + c.count = a.count + bc.count
    BY <1>5, <2>a, <2>b
  <2>5. StatsAdd(ab, c) = StatsAdd(a, bc)
    BY <2>3, <2>4, SameSums
  <2> QED BY <2>1, <2>2, <2>5
<1>8. ASSUME NEW a \in Stats, NEW b \in Stats PROVE AddStats[<<a, b>>] = AddStats[<<b, a>>]
  <2>1. AddStats[<<a, b>>] = StatsAdd(a, b) /\ AddStats[<<b, a>>] = StatsAdd(b, a)
    BY <1>1
  <2>2. StatsAdd(a, b) = StatsAdd(b, a)
    BY <1>6
  <2> QED BY <2>1, <2>2
<1>9. ASSUME NEW a \in Stats, NEW b \in Stats, NEW c \in Stats
      PROVE  AddStats[<<AddStats[<<a, b>>], c>>] = AddStats[<<a, AddStats[<<b, c>>]>>]
  <2>1. PICK ab \in Stats : ab = StatsAdd(a, b) /\ AddStats[<<a, b>>] = ab
    BY <1>1
  <2>2. PICK bc \in Stats : bc = StatsAdd(b, c) /\ AddStats[<<b, c>>] = bc
    BY <1>1
  <2>3. AddStats[<<ab, c>>] = StatsAdd(ab, c) /\ AddStats[<<a, bc>>] = StatsAdd(a, bc)
    BY <1>1
  <2> QED BY <1>7, <2>1, <2>2, <2>3
<1> QED BY <1>2, <1>8, <1>9 DEF Adds

ImageOK == image \in Seq(RowRuns) /\ Len(image) <= Rows

\* The nodes of the image, each a run in one of its rows.
LEMMA NodeType ==
    ASSUME ImageOK, NEW n \in Node
    PROVE  /\ n = <<n[1], n[2]>> /\ n[1] \in 1 .. Len(image) /\ n[2] \in 1 .. Len(image[n[1]])
           /\ n[1] - 1 \in 0 .. Rows - 1
           /\ RunAt(n).run_low \in 0 .. Cols - 1 /\ RunAt(n).run_high \in 1 .. Cols
           /\ RunAt(n).run_low < RunAt(n).run_high
           /\ RunStats(n) \in Stats
<1>1. n = <<n[1], n[2]>> /\ n[1] \in 1 .. Len(image) /\ n[2] \in 1 .. Len(image[n[1]])
  BY DEF Node
<1>2. image[n[1]] \in RowRuns /\ Len(image) \in Nat
  BY <1>1, ElementOfSeq DEF ImageOK
<1>3. n[1] - 1 \in 0 .. Rows - 1
  BY <1>1, <1>2, Sizes DEF ImageOK
<1>4. /\ image[n[1]] \in Seq(PlainRun)
      /\ \A i \in 1 .. Len(image[n[1]]) : image[n[1]][i].run_low < image[n[1]][i].run_high
  BY <1>2, RowRunsAssumption
<1>5. RunAt(n) \in PlainRun /\ RunAt(n).run_low < RunAt(n).run_high
  BY <1>1, <1>4, ElementOfSeq DEF RunAt
<1>6. RunAt(n).run_low \in 0 .. Cols - 1 /\ RunAt(n).run_high \in 1 .. Cols
  BY <1>5 DEF PlainRun
<1>7. RunStats(n) \in Stats
  BY <1>3, <1>5, <1>6, StatsOfType DEF RunStats
<1> QED BY <1>1, <1>3, <1>5, <1>6, <1>7

\* They are finitely many.
LEMMA NodesFinite ==
    ASSUME ImageOK
    PROVE  IsFiniteSet(Node) /\ IsFiniteSet(Contacts)
<1> DEFINE row(r) == {<<r, i>> : i \in 1 .. Len(image[r])}
           rows == {row(r) : r \in 1 .. Len(image)}
<1>1. IsFiniteSet(rows)
  <2> DEFINE f == [r \in 1 .. Len(image) |-> row(r)]
  <2>1. f \in Surjection(1 .. Len(image), rows)
    BY DEF Surjection
  <2>2. IsFiniteSet(1 .. Len(image))
    <3>1. Len(image) \in Int /\ 1 \in Int
      BY DEF ImageOK
    <3> QED BY <3>1, FS_Interval
  <2> HIDE DEF f, rows
  <2> QED BY <2>1, <2>2, FS_Surjection
<1>2. ASSUME NEW r \in 1 .. Len(image) PROVE IsFiniteSet(row(r))
  <2> DEFINE f == [i \in 1 .. Len(image[r]) |-> <<r, i>>]
  <2>1. f \in Surjection(1 .. Len(image[r]), row(r))
    BY DEF Surjection
  <2>2. IsFiniteSet(1 .. Len(image[r]))
    <3>1. image[r] \in Seq(PlainRun)
      BY ElementOfSeq, RowRunsAssumption DEF ImageOK
    <3>2. Len(image[r]) \in Int /\ 1 \in Int
      BY <3>1
    <3> QED BY <3>2, FS_Interval
  <2> HIDE DEF f, row
  <2> QED BY <2>1, <2>2, FS_Surjection
<1>3. Node = UNION rows
  BY DEF Node
<1>4. \A T \in rows : IsFiniteSet(T)
  BY <1>2
<1> HIDE DEF rows
<1>5. IsFiniteSet(Node)
  BY <1>1, <1>3, <1>4, FS_UNION
<1>6. IsFiniteSet(Node \X Node)
  BY <1>5, FS_Product
<1>7. Contacts \in SUBSET (Node \X Node)
  BY DEF Contacts
<1> QED BY <1>5, <1>6, <1>7, FS_Subset

\* The fold of stats_add, as TLC's definition of it.
AddsAll(it, b, S) ==
    it = [s \in SUBSET S |-> IF s = {} THEN b
                             ELSE LET x == CHOOSE x \in s : TRUE
                                  IN  StatsAdd(it[s \ {x}], RunStats(x))]

\* The fold of StatsOfComponent.
LEMMA StatsFold ==
    ASSUME NEW b, NEW S
    PROVE  FoldSet(LAMBDA n, s : StatsAdd(s, RunStats(n)), b, S) = (CHOOSE it : AddsAll(it, b, S))[S]
BY DEF FoldSet, MapThenFoldSet, AddsAll

\* It is the fold with functions for operators.
LEMMA StatsFolded ==
    ASSUME ImageOK, NEW b \in Stats, NEW S \in SUBSET Node
    PROVE  FoldSet(LAMBDA n, s : StatsAdd(s, RunStats(n)), b, S)
              = Folded(Node, b, AddTo(Node, Stats, AddStats, Weights), Any(Node))[S]
<1> DEFINE ch == Any(Node)
           op == AddTo(Node, Stats, AddStats, Weights)
<1>1. IsFiniteSet(Node) /\ Picks(ch, Node) /\ Adds(Stats, AddStats)
  BY NodesFinite, AnyPicks, StatsAddAdds
<1>2. Weights \in [Node -> Stats]
  BY NodeType DEF Weights
<1>3. PICK f : f = Folded(Node, b, op, ch) /\ IsFold(f, Node, b, op, ch)
  BY <1>1, FoldedFolds
<1>4. /\ f[{}] = b
      /\ \A s \in SUBSET Node : f[s] \in Stats
      /\ \A s \in SUBSET Node : s # {} => AddsLast(f, AddStats, Weights, ch, s)
  BY <1>1, <1>2, <1>3, FoldTyped
<1>5. ASSUME NEW s \in SUBSET Node, s # {}
      PROVE  \E x \in s : x = (CHOOSE y \in s : TRUE) /\ f[s] = StatsAdd(f[s \ {x}], RunStats(x))
  <2>1. PICK x \in s : x = ch[s] /\ f[s] = AddStats[<<f[s \ {x}], Weights[x]>>]
    BY <1>4, <1>5 DEF AddsLast
  <2>2. x = CHOOSE y \in s : TRUE
    BY <2>1 DEF Any
  <2>3. PICK m \in Stats : m = f[s \ {x}]
    BY <1>4
  <2>4. Weights[x] = RunStats(x) /\ RunStats(x) \in Stats
    BY <1>2 DEF Weights
  <2>5. AddStats[<<m, RunStats(x)>>] = StatsAdd(m, RunStats(x))
    BY <2>3, <2>4 DEF AddStats
  <2> QED BY <2>1, <2>2, <2>3, <2>4, <2>5
<1> HIDE DEF ch, op
<1> DEFINE g == [s \in SUBSET S |-> f[s]]
<1>6. AddsAll(g, b, S)
  <2> DEFINE right(s) == IF s = {} THEN b
                         ELSE LET x == CHOOSE x \in s : TRUE IN StatsAdd(g[s \ {x}], RunStats(x))
  <2>1. ASSUME NEW s \in SUBSET S PROVE f[s] = right(s)
    <3>1. CASE s = {}
      BY <1>4, <3>1
    <3>2. CASE s # {}
      <4>1. PICK x \in s : x = (CHOOSE y \in s : TRUE) /\ f[s] = StatsAdd(f[s \ {x}], RunStats(x))
        BY <1>5, <3>2
      <4>2. PICK z \in SUBSET S : z = s \ {x}
        OBVIOUS
      <4>3. g[z] = f[z]
        OBVIOUS
      <4> HIDE DEF g
      <4>4. right(s) = StatsAdd(g[z], RunStats(x))
        BY <3>2, <4>1, <4>2
      <4> QED BY <4>1, <4>2, <4>3, <4>4
    <3> QED BY <3>1, <3>2
  <2> QED BY <2>1 DEF AddsAll
<1> DEFINE h == CHOOSE it : AddsAll(it, b, S)
<1>7. AddsAll(h, b, S)
  BY <1>6
<1> HIDE DEF g, h
<1>8. \A s \in SUBSET S :
         h[s] = IF s = {} THEN b
                ELSE LET x == CHOOSE x \in s : TRUE IN StatsAdd(h[s \ {x}], RunStats(x))
  BY <1>7 DEF AddsAll
<1> DEFINE U == {s \in SUBSET S : h[s] = f[s]}
<1>9. {} \in U
  BY <1>4, <1>8
<1>10. IsFiniteSet(S)
  BY <1>1, FS_Subset
<1>11. BySize(U, S)
  <2> SUFFICES ASSUME NEW k \in Nat, \A s \in SUBSET S : Cardinality(s) = k => s \in U,
                      NEW s \in SUBSET S, Cardinality(s) = k + 1
               PROVE  s \in U
    BY DEF BySize
  <2>1. IsFiniteSet(s) /\ s # {}
    BY <1>10, FS_Subset, FS_EmptySet
  <2>2. PICK x \in s : x = (CHOOSE y \in s : TRUE) /\ f[s] = StatsAdd(f[s \ {x}], RunStats(x))
    BY <1>5, <2>1
  <2>3. PICK z \in SUBSET S : z = s \ {x}
    OBVIOUS
  <2>4. Cardinality(z) = Cardinality(s) - 1
    BY <2>1, <2>3, FS_RemoveElement
  <2>5. Cardinality(z) = k
    BY <2>4
  <2>6. h[z] = f[z]
    BY <2>5
  <2>7. h[s] = StatsAdd(h[z], RunStats(x))
    BY <1>8, <2>1, <2>2, <2>3
  <2> QED BY <2>2, <2>3, <2>6, <2>7
<1>12. SUBSET S \subseteq U
  <2> HIDE DEF U
  <2> QED BY <1>9, <1>10, <1>11, AllSizes
<1>13. FoldSet(LAMBDA n, s : StatsAdd(s, RunStats(n)), b, S) = f[S]
  BY <1>12, StatsFold DEF h
<1> QED BY <1>3, <1>13 DEF op, ch

\* The statistics of a set of runs: those of one, and of two sets together.
Totals ==
    /\ \A n \in Node : StatsOfComponent({n}) = RunStats(n) /\ RunStats(n) \in Stats
    /\ \A c \in SUBSET Node : c # {} => StatsOfComponent(c) \in Stats
    /\ \A c, d \in SUBSET Node :
          c # {} /\ d # {} /\ c \cap d = {} =>
             StatsOfComponent(c \cup d) = StatsAdd(StatsOfComponent(c), StatsOfComponent(d))

\* The statistics of an image are totals of its runs.
LEMMA ImageTotals == ImageOK => Totals
<1> SUFFICES ASSUME ImageOK PROVE Totals
  OBVIOUS
<1> DEFINE ch == Any(Node)
           tot == SumOf(Node, Stats, AddStats, Weights, ch)
<1>1. IsFiniteSet(Node) /\ Picks(ch, Node) /\ Adds(Stats, AddStats)
  BY NodesFinite, AnyPicks, StatsAddAdds
<1>2. Weights \in [Node -> Stats] /\ \A n \in Node : Weights[n] = RunStats(n) /\ RunStats(n) \in Stats
  BY NodeType DEF Weights
<1>3. ASSUME NEW c \in SUBSET Node, c # {} PROVE StatsOfComponent(c) = tot[c]
  <2>1. PICK x \in c : x = (CHOOSE n \in c : TRUE) /\ x = ch[c]
    BY <1>3 DEF Any
  <2>2. StatsOfComponent(c) = FoldSet(LAMBDA n, s : StatsAdd(s, RunStats(n)), RunStats(x), c \ {x})
    BY <2>1 DEF StatsOfComponent
  <2>3. RunStats(x) \in Stats /\ c \ {x} \in SUBSET Node /\ RunStats(x) = Weights[x]
    BY <1>2
  <2>4. StatsOfComponent(c)
           = Folded(Node, Weights[x], AddTo(Node, Stats, AddStats, Weights), ch)[c \ {x}]
    BY <2>2, <2>3, StatsFolded
  <2>5. tot[c] = SumFrom(Node, Stats, AddStats, Weights, ch, x, c)
    BY <2>1 DEF SumOf
  <2> QED BY <2>4, <2>5 DEF SumFrom
<1>4. IsTotal(tot, Node, AddStats, Weights) /\ \A s \in SUBSET Node : s # {} => tot[s] \in Stats
  BY <1>1, <1>2, SumIsTotal
<1> HIDE DEF tot, ch
<1>5. ASSUME NEW n \in Node PROVE StatsOfComponent({n}) = RunStats(n)
  <2>1. {n} \in SUBSET Node /\ {n} # {}
    OBVIOUS
  <2>2. tot[{n}] = Weights[n]
    BY <1>4 DEF IsTotal
  <2> QED BY <1>2, <1>3, <2>1, <2>2
<1>6. ASSUME NEW c \in SUBSET Node, NEW d \in SUBSET Node, c # {}, d # {}, c \cap d = {}
      PROVE  StatsOfComponent(c \cup d) = StatsAdd(StatsOfComponent(c), StatsOfComponent(d))
  <2>1. tot[c \cup d] = AddStats[<<tot[c], tot[d]>>]
    BY <1>1, <1>2, <1>4, <1>6, TotalOfBoth
  <2>2. PICK a \in Stats : a = tot[c]
    BY <1>4, <1>6
  <2>3. PICK b \in Stats : b = tot[d]
    BY <1>4, <1>6
  <2>4. AddStats[<<a, b>>] = StatsAdd(a, b)
    BY DEF AddStats
  <2>5. c \cup d \in SUBSET Node /\ c \cup d # {}
    BY <1>6
  <2> QED BY <1>3, <1>6, <2>1, <2>2, <2>3, <2>4, <2>5
<1> QED BY <1>2, <1>3, <1>4, <1>5, <1>6 DEF Totals

-----------------------------------------------------------------------------
(* Runs and their blobs.  own has an entry for each run of the image that is *)
(* in a set, once and for all, and 0 for the others; rho maps entries to      *)
(* roots.  The class of a root is what its blob consists of.                 *)

Class(rho, own, r) == {n \in Node : own[n] # 0 /\ rho[own[n]] = r}

\* A run as the scan holds it: its columns, and a parent in its blob.
RunHeld(run, n, rho, own) ==
    /\ run.run_low = RunAt(n).run_low /\ run.run_high = RunAt(n).run_high
    /\ run.parent_index = 0 => own[n] = 0
    /\ run.parent_index # 0 => own[n] # 0 /\ rho[own[n]] = rho[run.parent_index]

RowHeld(row, r, rho, own) ==
    /\ r \in 1 .. Len(image) =>
          /\ Len(row) = Len(image[r])
          /\ \A i \in 1 .. Len(row) : RunHeld(row[i], <<r, i>>, rho, own)
    /\ r \notin 1 .. Len(image) => row = <<>>

RowsHeld(rho, own) ==
    RowHeld(prev, Len(image) - 1, rho, own) /\ RowHeld(cur, Len(image), rho, own)

\* find_root is called for two runs that overlap, and stays in the blob it was
\* called for.
FindHeld(rho) ==
    /\ finding # "none" => Overlap
    /\ \A k \in 1 .. Len(path) : rho[path[k]] = rho[node]
    /\ finding = "singleton" => rho[node] = rho[IF a_parent = 0 THEN b_parent ELSE a_parent]
    /\ finding = "first" => rho[node] = rho[a_parent]
    /\ finding = "second" => a_root = rho[a_parent] /\ rho[node] = rho[b_parent]

\* Runs of one blob are connected.
Connected(rho, own) ==
    \A S : Shut(Contacts, S) =>
        \A m, n \in Node :
            own[m] # 0 /\ own[n] # 0 /\ rho[own[m]] = rho[own[n]] => (m \in S <=> n \in S)

\* a is what is listed of the runs that together have the statistics s.
Lists(a, s) == NoBottom(a) = NoBottom(s) /\ a.max_y <= s.max_y

\* A root has the statistics of its class.
Counted(r, class) ==
    /\ \E m, n \in class : m # n
    /\ Lists(RootStats(r), StatsOfComponent(class))

AllCounted(rho, own) == \A r \in RootSet : Counted(r, Class(rho, own, r))

\* The pairs of runs that the walk has looked at.
Passed(e) == pc \in {"row", "done"} \/ e[2][1] < Len(image) \/ e[1][2] < ai \/ e[2][2] < bi

Joined(e, rho, own) == own[e[1]] # 0 /\ own[e[2]] # 0 /\ rho[own[e[1]]] = rho[own[e[2]]]

\* Connected runs are in one blob, as long as no set was refused.
AllJoined(rho, own) == NeverFull => \A e \in Contacts : Passed(e) => Joined(e, rho, own)

Held(rho, own) ==
    /\ Maps(rho) /\ own \in [Node -> Entry \cup {0}]
    /\ RowsHeld(rho, own) /\ FindHeld(rho)
    /\ Connected(rho, own) /\ AllCounted(rho, own) /\ AllJoined(rho, own)

-----------------------------------------------------------------------------
(* The pair of runs that the walk looks at *)

NodeA == <<Len(image) - 1, ai>>
NodeB == <<Len(image), bi>>

\* Both are runs of the image, with the columns that the scan holds.
LEMMA PairHeld ==
    ASSUME ScanInv, MorePairs, NEW rho, NEW own, RowsHeld(rho, own)
    PROVE  /\ NodeA \in Node /\ NodeB \in Node /\ NodeA # NodeB
           /\ RunHeld(prev[ai], NodeA, rho, own) /\ RunHeld(cur[bi], NodeB, rho, own)
           /\ Len(image) \in Nat /\ Len(image) >= 2
<1>1. /\ ai \in 1 .. Len(prev) /\ bi \in 1 .. Len(cur) /\ Len(prev) \in Nat /\ Len(cur) \in Nat
      /\ prev # <<>> /\ Len(image) \in Nat /\ Len(image) >= 2
  <2>1. ai \in 1 .. Len(prev) /\ bi \in 1 .. Len(cur) /\ Len(prev) \in Nat /\ Len(cur) \in Nat
    BY PairType DEF ScanInv, RunsOK
  <2>2. prev # <<>>
    BY <2>1
  <2> QED BY <2>1, <2>2 DEF ScanInv
<1>2. Len(image) - 1 \in 1 .. Len(image) /\ Len(image) \in 1 .. Len(image)
  BY <1>1
<1>3. /\ Len(prev) = Len(image[Len(image) - 1])
      /\ \A i \in 1 .. Len(prev) : RunHeld(prev[i], <<Len(image) - 1, i>>, rho, own)
  BY <1>2 DEF RowsHeld, RowHeld
<1>4. /\ Len(cur) = Len(image[Len(image)])
      /\ \A i \in 1 .. Len(cur) : RunHeld(cur[i], <<Len(image), i>>, rho, own)
  BY <1>2 DEF RowsHeld, RowHeld
<1>5. NodeA \in Node /\ NodeB \in Node
  BY <1>1, <1>2, <1>3, <1>4 DEF Node, NodeA, NodeB
<1>6. NodeA # NodeB
  BY <1>1 DEF NodeA, NodeB
<1> QED BY <1>1, <1>3, <1>4, <1>5, <1>6 DEF NodeA, NodeB

\* yuv_run_row_union unites the two runs exactly when they touch.
LEMMA OverlapTouches ==
    ASSUME ScanInv, MorePairs, NEW rho, NEW own, RowsHeld(rho, own)
    PROVE  Overlap <=> <<NodeA, NodeB>> \in Contacts
<1>1. /\ NodeA \in Node /\ NodeB \in Node
      /\ RunHeld(prev[ai], NodeA, rho, own) /\ RunHeld(cur[bi], NodeB, rho, own)
      /\ Len(image) \in Nat
  BY PairHeld
<1>2. NodeB[1] = NodeA[1] + 1
  BY <1>1 DEF NodeA, NodeB
<1>3. ai \in 1 .. Len(prev) /\ bi \in 1 .. Len(cur) /\ RunsOK(prev) /\ RunsOK(cur)
  BY PairType DEF ScanInv
<1>4. /\ prev[ai].run_low \in Int /\ prev[ai].run_high \in Int /\ prev[ai].run_low < prev[ai].run_high
      /\ cur[bi].run_low \in Int /\ cur[bi].run_high \in Int /\ cur[bi].run_low < cur[bi].run_high
  BY <1>3, RunIsTyped, Sizes
<1>5. Overlap <=> prev[ai].run_low < cur[bi].run_high /\ cur[bi].run_low < prev[ai].run_high
  BY <1>4 DEF Overlap, Higher
<1>6. Touches(NodeA, NodeB) <=> prev[ai].run_low < cur[bi].run_high /\ cur[bi].run_low < prev[ai].run_high
  BY <1>1, <1>2 DEF Touches, RunHeld
<1>7. <<NodeA, NodeB>> \in Contacts <=> Touches(NodeA, NodeB)
  BY <1>1 DEF Contacts
<1> QED BY <1>5, <1>6, <1>7

\* Contacts are between a run of a row and one of the next.
LEMMA ContactRows ==
    ASSUME ImageOK, NEW e \in Contacts
    PROVE  /\ e = <<e[1], e[2]>> /\ e[1] \in Node /\ e[2] \in Node /\ e[2][1] = e[1][1] + 1
           /\ e[1][1] \in Nat /\ e[2][1] \in Nat /\ e[2][1] <= Len(image)
           /\ e[1][2] \in Nat /\ e[2][2] \in Nat
           /\ e[1] = <<e[1][1], e[1][2]>> /\ e[2] = <<e[2][1], e[2][2]>>
           /\ RunAt(e[1]).run_low < RunAt(e[2]).run_high /\ RunAt(e[2]).run_low < RunAt(e[1]).run_high
<1>1. e = <<e[1], e[2]>> /\ e[1] \in Node /\ e[2] \in Node /\ Touches(e[1], e[2])
  BY DEF Contacts
<1>2. /\ e[1] = <<e[1][1], e[1][2]>> /\ e[1][1] \in 1 .. Len(image) /\ e[1][2] \in 1 .. Len(image[e[1][1]])
      /\ e[2] = <<e[2][1], e[2][2]>> /\ e[2][1] \in 1 .. Len(image) /\ e[2][2] \in 1 .. Len(image[e[2][1]])
  BY <1>1, NodeType
<1>3. Len(image) \in Nat /\ Len(image[e[1][1]]) \in Nat /\ Len(image[e[2][1]]) \in Nat
  <2>1. image \in Seq(RowRuns)
    BY DEF ImageOK
  <2>2. image[e[1][1]] \in RowRuns /\ image[e[2][1]] \in RowRuns
    BY <1>2, <2>1, ElementOfSeq
  <2>3. image[e[1][1]] \in Seq(PlainRun) /\ image[e[2][1]] \in Seq(PlainRun)
    BY <2>2, RowRunsAssumption
  <2> QED BY <2>1, <2>3
<1> QED BY <1>1, <1>2, <1>3 DEF Touches

\* Runs of a row do not touch.
LEMMA RunsOfRowApart ==
    ASSUME ImageOK, NEW m \in Node, NEW n \in Node, m[1] = n[1], m[2] < n[2]
    PROVE  RunAt(m).run_high < RunAt(n).run_low
<1>1. m[1] \in 1 .. Len(image) /\ m[2] \in 1 .. Len(image[m[1]]) /\ n[2] \in 1 .. Len(image[m[1]])
  BY NodeType
<1>2. image[m[1]] \in RowRuns
  BY <1>1, ElementOfSeq DEF ImageOK
<1>3. image[m[1]][m[2]].run_high < image[m[1]][n[2]].run_low
  BY <1>1, <1>2, RowRunsAssumption
<1> QED BY <1>3 DEF RunAt

\* Going on past the run that ends first passes no other contact.
LEMMA AdvancePasses ==
    ASSUME ScanInv, MorePairs, Advance, NEW rho, NEW own, RowsHeld(rho, own),
           image' = image, pc \notin {"row", "done"}, pc' \notin {"row", "done"},
           NEW e \in Contacts, Passed(e)'
    PROVE  Passed(e) \/ e = <<NodeA, NodeB>>
<1> SUFFICES ASSUME ~Passed(e) PROVE e = <<NodeA, NodeB>>
  OBVIOUS
<1>0. ImageOK
  BY DEF ScanInv, ImageOK
<1>1. /\ e = <<e[1], e[2]>> /\ e[1] \in Node /\ e[2] \in Node /\ e[2][1] = e[1][1] + 1
      /\ e[1][1] \in Nat /\ e[2][1] \in Nat /\ e[2][1] <= Len(image)
      /\ e[1][2] \in Nat /\ e[2][2] \in Nat
      /\ e[1] = <<e[1][1], e[1][2]>> /\ e[2] = <<e[2][1], e[2][2]>>
      /\ RunAt(e[1]).run_low < RunAt(e[2]).run_high /\ RunAt(e[2]).run_low < RunAt(e[1]).run_high
  BY <1>0, ContactRows
<1>2. /\ NodeA \in Node /\ NodeB \in Node /\ Len(image) \in Nat
      /\ RunHeld(prev[ai], NodeA, rho, own) /\ RunHeld(cur[bi], NodeB, rho, own)
  BY PairHeld
<1>3. ai \in Nat /\ bi \in Nat
  BY PairType DEF ScanInv
<1>4. e[2][1] = Len(image) /\ e[1][2] >= ai /\ e[2][2] >= bi
  BY <1>1, <1>2, <1>3 DEF Passed
<1>5. e[1][1] = Len(image) - 1
  BY <1>1, <1>2, <1>4
<1>6. e[1][2] < ai' \/ e[2][2] < bi'
  BY <1>4 DEF Passed
<1>7. /\ RunAt(NodeA).run_high = prev[ai].run_high /\ RunAt(NodeB).run_high = cur[bi].run_high
      /\ NodeA[1] = Len(image) - 1 /\ NodeA[2] = ai /\ NodeB[1] = Len(image) /\ NodeB[2] = bi
  BY <1>2 DEF RunHeld, NodeA, NodeB
<1>8. \A n \in Node : RunAt(n).run_low \in Int /\ RunAt(n).run_high \in Int
  BY <1>0, NodeType, Sizes
<1>9. CASE prev[ai].run_high < cur[bi].run_high
  <2>1. ai' = ai + 1 /\ bi' = bi
    BY <1>9 DEF Advance
  <2>2. e[1][2] = ai
    BY <1>1, <1>3, <1>4, <1>6, <2>1
  <2>3. e[1] = NodeA
    BY <1>1, <1>5, <2>2 DEF NodeA
  <2>4. ~(bi < e[2][2])
    <3> SUFFICES ASSUME bi < e[2][2] PROVE FALSE
      OBVIOUS
    <3>1. RunAt(NodeB).run_high < RunAt(e[2]).run_low
      BY <1>0, <1>1, <1>2, <1>4, <1>7, RunsOfRowApart
    <3> QED BY <1>1, <1>2, <1>7, <1>8, <1>9, <2>3, <3>1
  <2>5. e[2] = NodeB
    BY <1>1, <1>3, <1>4, <2>4 DEF NodeB
  <2> QED BY <1>1, <2>3, <2>5
<1>10. CASE ~(prev[ai].run_high < cur[bi].run_high)
  <2>1. ai' = ai /\ bi' = bi + 1
    BY <1>10 DEF Advance
  <2>2. e[2][2] = bi
    BY <1>1, <1>3, <1>4, <1>6, <2>1
  <2>3. e[2] = NodeB
    BY <1>1, <1>4, <2>2 DEF NodeB
  <2>4. ~(ai < e[1][2])
    <3> SUFFICES ASSUME ai < e[1][2] PROVE FALSE
      OBVIOUS
    <3>1. RunAt(NodeA).run_high < RunAt(e[1]).run_low
      BY <1>0, <1>1, <1>2, <1>5, <1>7, RunsOfRowApart
    <3> QED BY <1>1, <1>2, <1>7, <1>8, <1>10, <2>3, <3>1
  <2>5. e[1] = NodeA
    BY <1>1, <1>3, <1>4, <1>5, <2>4 DEF NodeA
  <2> QED BY <1>1, <2>3, <2>5
<1> QED BY <1>9, <1>10

\* When one of the rows is at its end, all its contacts are passed.
LEMMA RowPassed ==
    ASSUME ScanInv, ~MorePairs, NEW rho, NEW own, RowsHeld(rho, own), NEW e \in Contacts
    PROVE  Passed(e)
<1>0. ImageOK
  BY DEF ScanInv, ImageOK
<1>1. /\ e[1] \in Node /\ e[2] \in Node /\ e[2][1] = e[1][1] + 1
      /\ e[1][1] \in Nat /\ e[2][1] \in Nat /\ e[2][1] <= Len(image)
      /\ e[1][2] \in Nat /\ e[2][2] \in Nat
  BY <1>0, ContactRows
<1>2. /\ e[1][1] \in 1 .. Len(image) /\ e[1][2] \in 1 .. Len(image[e[1][1]])
      /\ e[2][1] \in 1 .. Len(image) /\ e[2][2] \in 1 .. Len(image[e[2][1]])
  BY <1>0, <1>1, NodeType
<1>3. Len(image) \in Nat
  BY DEF ScanInv
<1>4. SUFFICES ASSUME e[2][1] = Len(image) PROVE e[1][2] < ai \/ e[2][2] < bi
  BY <1>1, <1>3 DEF Passed
<1>5. e[1][1] = Len(image) - 1
  BY <1>1, <1>3, <1>4
<1>6. Len(prev) = Len(image[e[1][1]]) /\ Len(cur) = Len(image[e[2][1]])
  BY <1>2, <1>4, <1>5 DEF RowsHeld, RowHeld
<1>7. /\ ai \in Nat /\ bi \in Nat /\ Len(prev) \in Nat /\ Len(cur) \in Nat
      /\ ai > Len(prev) \/ bi > Len(cur)
  BY DEF ScanInv, RunsOK, MorePairs
<1>8. e[1][2] <= Len(prev) /\ e[2][2] <= Len(cur)
  <2>1. e[1][2] \in 1 .. Len(prev)
    BY <1>2, <1>6
  <2>2. e[2][2] \in 1 .. Len(cur)
    BY <1>2, <1>6
  <2> QED BY <2>1, <2>2
<1> QED BY <1>1, <1>7, <1>8

\* Old runs keep their statistics.
LEMMA OldStats ==
    ASSUME ImageOK, ImageOK', \A n \in Node : n \in Node' /\ RunAt(n)' = RunAt(n)
    PROVE  \A c \in SUBSET Node : c # {} => StatsOfComponent(c)' = StatsOfComponent(c)
<1> DEFINE T == {c \in SUBSET Node : c # {} => StatsOfComponent(c)' = StatsOfComponent(c)}
<1>1. IsFiniteSet(Node)
  BY NodesFinite
<1>2. Totals /\ Totals'
  <2>1. ImageOK' => Totals'
    BY ImageTotals, PTL
  <2> QED BY <2>1, ImageTotals
<1>3. \A n \in Node : RunStats(n)' = RunStats(n)
  BY DEF RunStats
<1>4. Grows(T, Node)
  <2>1. {} \in T
    OBVIOUS
  <2>2. ASSUME NEW s \in SUBSET Node, NEW x \in Node, x \notin s,
               s # {} => StatsOfComponent(s)' = StatsOfComponent(s)
        PROVE  StatsOfComponent(s \cup {x})' = StatsOfComponent(s \cup {x})
    <3>1. StatsOfComponent({x})' = StatsOfComponent({x})
      BY <1>2, <1>3 DEF Totals
    <3>2. CASE s = {}
      <4>1. s \cup {x} = {x}
        BY <3>2
      <4> QED BY <3>1, <4>1
    <3>3. CASE s # {}
      <4>1. s \in SUBSET Node' /\ {x} \in SUBSET Node' /\ {x} \in SUBSET Node /\ {x} # {} /\ s \cap {x} = {}
        BY <2>2
      <4>2. StatsOfComponent(s \cup {x}) = StatsAdd(StatsOfComponent(s), StatsOfComponent({x}))
        BY <1>2, <3>3, <4>1 DEF Totals
      <4>3. StatsOfComponent(s \cup {x})' = StatsAdd(StatsOfComponent(s)', StatsOfComponent({x})')
        BY <1>2, <3>3, <4>1 DEF Totals
      <4> QED BY <2>2, <3>1, <3>3, <4>2, <4>3
    <3> QED BY <3>2, <3>3
  <2> QED BY <2>1, <2>2 DEF Grows
<1>5. SUBSET Node \subseteq T
  <2> HIDE DEF T
  <2> QED BY <1>1, <1>4, AllSubsets
<1> QED BY <1>5

-----------------------------------------------------------------------------
(* The steps that leave the image alone *)

\* What is computed of the image alone.
LEMMA SameImage ==
    ASSUME ImageOK, image' = image
    PROVE  /\ ImageOK' /\ Node' = Node /\ Contacts' = Contacts
           /\ \A n : RunAt(n)' = RunAt(n)
           /\ \A c \in SUBSET Node : c # {} => StatsOfComponent(c)' = StatsOfComponent(c)
<1>1. ImageOK' /\ Node' = Node /\ \A n : RunAt(n)' = RunAt(n)
  BY DEF ImageOK, Node, RunAt
<1>2. Contacts' = Contacts
  BY <1>1 DEF Contacts, Touches
<1>3. \A c \in SUBSET Node : c # {} => StatsOfComponent(c)' = StatsOfComponent(c)
  BY <1>1, OldStats
<1> QED BY <1>1, <1>2, <1>3

\* A root that keeps its class and its statistics.
LEMMA CountedStays ==
    ASSUME ImageOK, image' = image, NEW r, NEW class \in SUBSET Node, Counted(r, class),
           RootStats(r)' = RootStats(r)
    PROVE  Counted(r, class)'
<1>1. StatsOfComponent(class)' = StatsOfComponent(class)
  <2>1. class # {}
    BY DEF Counted
  <2> QED BY <2>1, SameImage
<1> QED BY <1>1 DEF Counted

\* The step says for itself what becomes of find_root and of the pairs passed.
LEMMA QuietKeeps ==
    ASSUME IInv, NEW rho, NEW own, Held(rho, own), UNCHANGED <<rowVars>>,
           Maps(rho)', Entry' = Entry, RootSet' = RootSet,
           \A r \in RootSet : RootStats(r)' = RootStats(r),
           FindHeld(rho)', AllJoined(rho, own)'
    PROVE  Held(rho, own)'
<1>0. ImageOK /\ image' = image /\ prev' = prev /\ cur' = cur
  BY DEF IInv, ScanInv, ImageOK, rowVars
<1>1. /\ Node' = Node /\ Contacts' = Contacts
      /\ \A n : RunAt(n)' = RunAt(n)
      /\ own \in [Node -> Entry \cup {0}]
      /\ RowsHeld(rho, own) /\ Connected(rho, own) /\ AllCounted(rho, own)
  BY <1>0, SameImage DEF Held
<1>2. own \in [Node' -> Entry' \cup {0}]
  BY <1>1
<1>3. RowsHeld(rho, own)'
  BY <1>0, <1>1 DEF RowsHeld, RowHeld, RunHeld
<1>4. Connected(rho, own)'
  BY <1>1 DEF Connected
<1>5. AllCounted(rho, own)'
  <2>1. ASSUME NEW r \in RootSet PROVE Counted(r, Class(rho, own, r))'
    <3>1. PICK c \in SUBSET Node : c = Class(rho, own, r) /\ c = Class(rho, own, r)'
      BY <1>1 DEF Class
    <3>2. Counted(r, c)
      BY <1>1, <3>1 DEF AllCounted
    <3>3. Counted(r, c)'
      BY <1>0, <3>2, CountedStays
    <3> QED BY <3>1, <3>3 DEF Counted
  <2> QED BY <2>1 DEF AllCounted
<1> QED BY <1>2, <1>3, <1>4, <1>5 DEF Held

\* The same when the forest stays as it is.
LEMMA SameForestKeeps ==
    ASSUME IInv, NEW rho, NEW own, Held(rho, own), UNCHANGED <<rowVars, forest>>,
           FindHeld(rho)', AllJoined(rho, own)'
    PROVE  Held(rho, own)'
<1>1. Maps(rho)' /\ Entry' = Entry /\ RootSet' = RootSet /\ \A r \in RootSet : RootStats(r)' = RootStats(r)
  BY DEF Maps, Entry, RootSet, RootsOf, RootStats, forest, Held
<1> QED BY <1>1, QuietKeeps

\* A step that passes no pair leaves all passed pairs joined.
LEMMA PassesNone ==
    ASSUME ImageOK, NEW rho, NEW own, AllJoined(rho, own), image' = image,
           NeverFull' => NeverFull, \A e \in Contacts : Passed(e)' => Passed(e)
    PROVE  AllJoined(rho, own)'
<1>1. Contacts' = Contacts
  BY SameImage
<1> QED BY <1>1 DEF AllJoined, Joined

\* A step past one pair, which is no contact or is joined.
LEMMA PassesPair ==
    ASSUME IInv, MorePairs, Advance, NEW rho, NEW own, Held(rho, own), image' = image,
           pc \notin {"row", "done"}, pc' \notin {"row", "done"}, NeverFull' => NeverFull,
           NeverFull' => (<<NodeA, NodeB>> \in Contacts => Joined(<<NodeA, NodeB>>, rho, own))
    PROVE  AllJoined(rho, own)'
<1>0. ImageOK /\ ScanInv /\ RowsHeld(rho, own) /\ AllJoined(rho, own)
  BY DEF IInv, ScanInv, ImageOK, Held
<1>1. Contacts' = Contacts
  BY <1>0, SameImage
<1>2. \A e \in Contacts : Passed(e)' => Passed(e) \/ e = <<NodeA, NodeB>>
  BY <1>0, AdvancePasses
<1> QED BY <1>0, <1>1, <1>2 DEF AllJoined, Joined

\* root_info has an entry for each root.
LEMMA RootCount ==
    ASSUME ForestInv
    PROVE  /\ IsFiniteSet(RootSet) /\ Cardinality(RootSet) = used_root_list_count
           /\ used_root_list_count <= used_blob_set_count - 1
<1> DEFINE m == used_root_list_count
           n == used_blob_set_count
           f == [rx \in 0 .. m - 1 |-> root_info[rx].set_index]
<1>1. m \in Nat /\ n \in Nat /\ n > 0 /\ 0 \in Int /\ 1 \in Int /\ m - 1 \in Int /\ n - 1 \in Int
  BY Sizes DEF ForestInv, ForestType
<1>2. Entry = 1 .. n - 1 /\ RootSet \in SUBSET Entry /\ \A r \in RootSet : r \in Entry /\ IsRoot(r)
  BY DEF Entry, RootSet, RootsOf, IsRoot
<1>3. \A rx \in 0 .. m - 1 :
         /\ root_info[rx].set_index \in RootSet
         /\ blob_set[root_info[rx].set_index].root_list_index = rx
  BY <1>2 DEF ForestInv, RootsListed, RootSet, RootsOf, IsRoot
<1>4. \A r \in RootSet : \E rx \in 0 .. m - 1 : root_info[rx].set_index = r
  BY <1>2, RootPlace DEF UsedRoot
<1>5. f \in Bijection(0 .. m - 1, RootSet)
  <2>1. \A rx \in 0 .. m - 1 : f[rx] = root_info[rx].set_index
    OBVIOUS
  <2>2. f \in [0 .. m - 1 -> RootSet]
    BY <1>3
  <2> HIDE DEF f
  <2>3. \A x, y \in 0 .. m - 1 : f[x] = f[y] => x = y
    BY <1>3, <2>1
  <2>4. \A r \in RootSet : \E x \in 0 .. m - 1 : f[x] = r
    BY <1>4, <2>1
  <2> QED BY <2>2, <2>3, <2>4 DEF Bijection, Injection, Surjection, IsInjective
<1> HIDE DEF f
<1>6. ExistsBijection(0 .. m - 1, RootSet)
  BY <1>5 DEF ExistsBijection
<1>7. IsFiniteSet(0 .. m - 1) /\ Cardinality(0 .. m - 1) = m
  <2>1. Cardinality(0 .. m - 1) = IF 0 > m - 1 THEN 0 ELSE m - 1 - 0 + 1
    BY <1>1, FS_Interval
  <2>2. IsFiniteSet(0 .. m - 1)
    BY <1>1, FS_Interval
  <2> QED BY <1>1, <2>1, <2>2
<1>8. IsFiniteSet(Entry) /\ Cardinality(Entry) = n - 1
  <2>1. Cardinality(1 .. n - 1) = IF 1 > n - 1 THEN 0 ELSE n - 1 - 1 + 1
    BY <1>1, FS_Interval
  <2>2. IsFiniteSet(1 .. n - 1)
    BY <1>1, FS_Interval
  <2>3. Cardinality(1 .. n - 1) = n - 1
    BY <1>1, <2>1
  <2> QED BY <1>2, <2>2, <2>3
<1>9. IsFiniteSet(RootSet) /\ Cardinality(RootSet) = m
  BY <1>6, <1>7, FS_Bijection
<1>10. Cardinality(RootSet) <= Cardinality(Entry)
  BY <1>2, <1>8, FS_Subset
<1> QED BY <1>8, <1>9, <1>10

\* make_set is refused only when one of the tables may be full.
LEMMA RefusedWhenFull ==
    ASSUME ForestInv, ~HasRoom
    PROVE  ~NeverFull
<1>1. used_root_list_count <= used_blob_set_count - 1
  BY RootCount
<1>2. used_root_list_count \in Nat /\ used_blob_set_count \in Nat
  BY Sizes DEF ForestInv, ForestType
<1> QED BY <1>1, <1>2, Sizes DEF HasRoom, NeverFull

\* The steps between two unions.
LEMMA BetweenKeeps ==
    ASSUME IInv, NEW rho, NEW own, Held(rho, own),
           EndImage \/ EndRow \/ SkipPair \/ UnionLost \/ UNCHANGED vars
    PROVE  Held(rho, own)'
<1>0. ImageOK /\ ScanInv /\ RowsHeld(rho, own) /\ AllJoined(rho, own) /\ FindHeld(rho) /\ FindPhase
  BY DEF IInv, ScanInv, ImageOK, Held, FindInv
<1>1. UNCHANGED <<rowVars, forest>> /\ UNCHANGED findVars
  BY DEF EndImage, EndRow, SkipPair, UnionLost, vars
<1>2. image' = image /\ prev' = prev /\ cur' = cur /\ (NeverFull' <=> NeverFull)
  BY <1>1 DEF rowVars, forest, NeverFull
<1>3. FindHeld(rho)'
  <2>1. CASE UNCHANGED vars
    BY <1>0, <1>1, <1>2, <2>1 DEF vars, FindHeld, findVars, a_parent, b_parent, Overlap
  <2>2. CASE EndImage \/ EndRow \/ SkipPair \/ UnionLost
    <3>1. finding = "none" /\ path = <<>>
      BY <1>0, <2>2 DEF EndImage, EndRow, SkipPair, UnionLost, FindPhase
    <3>2. finding' = "none" /\ path' = <<>> /\ Len(path') = 0
      BY <1>1, <3>1 DEF findVars
    <3> QED BY <3>2 DEF FindHeld
  <2> QED BY <2>1, <2>2
<1>4. AllJoined(rho, own)'
  <2>1. CASE EndImage \/ UNCHANGED vars
    <3>1. \A e \in Contacts : Passed(e)' => Passed(e)
      BY <1>2, <2>1 DEF EndImage, vars, Passed
    <3> QED BY <1>0, <1>2, <3>1, PassesNone
  <2>2. CASE EndRow
    <3>1. \A e \in Contacts : Passed(e)
      BY <1>0, <2>2, RowPassed DEF EndRow
    <3> QED BY <1>0, <1>2, <3>1, PassesNone
  <2>3. CASE SkipPair
    <3>1. <<NodeA, NodeB>> \notin Contacts
      BY <1>0, <2>3, OverlapTouches DEF SkipPair
    <3>2. MorePairs /\ Advance /\ pc \notin {"row", "done"} /\ pc' \notin {"row", "done"}
      BY <2>3 DEF SkipPair
    <3> QED BY <1>2, <3>1, <3>2, PassesPair
  <2>4. CASE UnionLost
    <3>1. ~NeverFull
      BY <2>4, RefusedWhenFull DEF UnionLost, IInv
    <3> QED BY <1>2, <3>1 DEF AllJoined
  <2> QED BY <2>1, <2>2, <2>3, <2>4
<1> QED BY <1>1, <1>3, <1>4, SameForestKeeps

\* find_root is called, goes up, or has found the first of two roots.
LEMMA CallKeeps ==
    ASSUME IInv, NEW rho, NEW own, Held(rho, own), UnionSingleton \/ UnionSets \/ Descend \/ FoundFirst
    PROVE  Held(rho, own)'
<1>0. ImageOK /\ Maps(rho) /\ FindHeld(rho) /\ FindPhase /\ AllJoined(rho, own)
  BY DEF IInv, ScanInv, ImageOK, Held, FindInv
<1>1. UNCHANGED <<rowVars, forest>> /\ UNCHANGED <<ai, bi>>
  BY DEF UnionSingleton, UnionSets, Descend, FoundFirst
<1>2. image' = image /\ prev' = prev /\ cur' = cur /\ a_parent' = a_parent /\ b_parent' = b_parent
      /\ (NeverFull' <=> NeverFull) /\ (Overlap' <=> Overlap)
  BY <1>1 DEF rowVars, forest, NeverFull, a_parent, b_parent, Overlap
<1>3. AllJoined(rho, own)'
  <2>1. pc \notin {"row", "done"} /\ pc' \notin {"row", "done"}
    BY DEF UnionSingleton, UnionSets, Descend, FoundFirst, Returned
  <2>2. \A e \in Contacts : Passed(e)' => Passed(e)
    BY <1>1, <1>2, <2>1 DEF Passed
  <2> QED BY <1>0, <1>2, <2>2, PassesNone
<1>4. FindHeld(rho)'
  <2>1. CASE UnionSingleton
    <3>1. /\ path = <<>> /\ path' = path /\ Len(path') = 0 /\ finding' = "singleton"
          /\ node' = (IF a_parent = 0 THEN b_parent ELSE a_parent) /\ Overlap
      BY <1>0, <2>1 DEF UnionSingleton, FindPhase
    <3> QED BY <1>2, <3>1 DEF FindHeld
  <2>2. CASE UnionSets
    <3>1. path = <<>> /\ path' = path /\ Len(path') = 0 /\ finding' = "first" /\ node' = a_parent
          /\ Overlap
      BY <1>0, <2>2 DEF UnionSets, FindPhase
    <3> QED BY <1>2, <3>1 DEF FindHeld
  <2>3. CASE FoundFirst
    <3>1. /\ path = <<>> /\ path' = path /\ Len(path') = 0 /\ finding = "first" /\ finding' = "second"
          /\ node' = b_parent /\ a_root' = node
      BY <2>3 DEF FoundFirst, Returned
    <3>2. rho[node] = node
      <4>1. node \in Entry /\ IsRoot(node)
        BY <1>0, <2>3 DEF FoundFirst, Returned, FindPhase
      <4> QED BY <1>0, <4>1 DEF Maps, RootMap, IsRoot, Entry
    <3>3. rho[node] = rho[a_parent] /\ Overlap
      BY <1>0, <3>1 DEF FindHeld
    <3> QED BY <1>2, <3>1, <3>2, <3>3 DEF FindHeld
  <2>4. CASE Descend /\ IsRoot(node)
    <3>1. UNCHANGED findVars
      BY <2>4 DEF Descend, findVars
    <3> QED BY <1>0, <1>2, <3>1 DEF FindHeld, findVars
  <2>5. CASE Descend /\ ~IsRoot(node)
    <3>1. /\ path' = Append(path, node) /\ node' = blob_set[node].parent_index
          /\ finding' = finding /\ a_root' = a_root
      BY <2>5 DEF Descend
    <3>2. rho[node'] = rho[node]
      <4>1. node \in Entry
        BY <1>0, <2>5 DEF Descend, FindPhase
      <4> QED BY <1>0, <2>5, <3>1, <4>1 DEF Maps, RootMap, IsRoot, Entry
    <3>3. ASSUME NEW k \in 1 .. Len(path') PROVE rho[path'[k]] = rho[node]
      <4>1. path \in Seq(Entry) /\ Len(path') = Len(path) + 1
        BY <1>0, <3>1 DEF FindPhase
      <4>2. CASE k = Len(path) + 1
        BY <3>1, <4>1, <4>2
      <4>3. CASE k \in 1 .. Len(path)
        <5>1. path'[k] = path[k]
          BY <3>1, <4>1, <4>3
        <5> QED BY <1>0, <4>3, <5>1 DEF FindHeld
      <4> QED BY <4>1, <4>2, <4>3
    <3> QED BY <1>0, <1>2, <3>1, <3>2, <3>3 DEF FindHeld
  <2> QED BY <2>1, <2>2, <2>3, <2>4, <2>5
<1> QED BY <1>1, <1>3, <1>4, SameForestKeeps

\* A return from find_root compresses the path.
LEMMA ReturnKeeps ==
    ASSUME IInv, NEW rho, NEW own, Held(rho, own), Unwind
    PROVE  Held(rho, own)'
<1>0. ImageOK /\ Maps(rho) /\ FindHeld(rho) /\ FindPhase /\ AllJoined(rho, own)
  BY DEF IInv, ScanInv, ImageOK, Held, FindInv
<1>1. /\ UNCHANGED <<rowVars, ai, bi, pc, finding, node, a_root, used_blob_set_count, root_info>>
      /\ path # <<>> /\ path' = SubSeq(path, 1, Len(path) - 1)
  BY DEF Unwind
<1>2. path \in Seq(Entry) /\ Len(path) \in 1 .. Len(path) /\ \A k \in 1 .. Len(path') : k \in 1 .. Len(path) /\ path'[k] = path[k]
  BY <1>0, <1>1 DEF FindPhase
<1>3. /\ Maps(rho)' /\ Entry' = Entry /\ RootSet' = RootSet
      /\ \A b \in Entry : blob_set'[b].root_list_index = blob_set[b].root_list_index
  <2>1. rho[path[Len(path)]] = rho[node]
    BY <1>0, <1>2 DEF FindHeld
  <2> QED BY <1>0, <2>1, UnwindForest
<1>4. \A r \in RootSet : RootStats(r)' = RootStats(r)
  <2>1. \A r \in RootSet : r \in Entry
    BY DEF RootSet, RootsOf, Entry
  <2> QED BY <1>1, <1>3, <2>1 DEF RootStats
<1>5. image' = image /\ prev' = prev /\ cur' = cur /\ a_parent' = a_parent /\ b_parent' = b_parent
      /\ (NeverFull' <=> NeverFull) /\ (Overlap' <=> Overlap)
  BY <1>1 DEF rowVars, NeverFull, a_parent, b_parent, Overlap
<1>6. FindHeld(rho)'
  BY <1>0, <1>1, <1>2, <1>5 DEF FindHeld
<1>7. AllJoined(rho, own)'
  <2>1. \A e \in Contacts : Passed(e)' => Passed(e)
    BY <1>1, <1>5 DEF Passed
  <2> QED BY <1>0, <1>5, <2>1, PassesNone
<1> QED BY <1>1, <1>3, <1>4, <1>6, <1>7, QuietKeeps

-----------------------------------------------------------------------------
(* A new row *)

\* The runs of a new row come to the old ones.
LEMMA RowAdded ==
    ASSUME ImageOK, ImageOK', NEW runs, image' = Append(image, runs)
    PROVE  /\ Len(image) \in Nat /\ Len(image') = Len(image) + 1
           /\ image'[Len(image')] = runs
           /\ \A r \in 1 .. Len(image) : image'[r] = image[r]
           /\ \A n \in Node : n \in Node' /\ RunAt(n)' = RunAt(n)
           /\ \A n \in Node' : n \in Node <=> n[1] <= Len(image)
           /\ \A e \in Contacts : e \in Contacts'
           /\ \A e \in Contacts' : e[2][1] <= Len(image) => e \in Contacts
<1>1. /\ Len(image) \in Nat /\ Len(image') = Len(image) + 1
      /\ image'[Len(image')] = runs
      /\ \A r \in 1 .. Len(image) : image'[r] = image[r]
  BY DEF ImageOK
<1>2. ASSUME NEW n \in Node PROVE n \in Node' /\ RunAt(n)' = RunAt(n) /\ n[1] <= Len(image)
  <2>1. n = <<n[1], n[2]>> /\ n[1] \in 1 .. Len(image) /\ n[2] \in 1 .. Len(image[n[1]])
    BY NodeType
  <2>2. n[1] \in 1 .. Len(image') /\ n[2] \in 1 .. Len(image'[n[1]])
    BY <1>1, <2>1
  <2>3. n \in Node'
    BY <2>1, <2>2 DEF Node
  <2> QED BY <1>1, <2>1, <2>3 DEF RunAt
<1>3. ASSUME NEW n \in Node', n[1] <= Len(image) PROVE n \in Node
  <2>1. n = <<n[1], n[2]>> /\ n[1] \in 1 .. Len(image') /\ n[2] \in 1 .. Len(image'[n[1]])
    BY DEF Node
  <2>2. n[1] \in 1 .. Len(image)
    BY <1>1, <1>3, <2>1
  <2>3. n[2] \in 1 .. Len(image[n[1]])
    BY <1>1, <2>1, <2>2
  <2> QED BY <2>1, <2>2, <2>3 DEF Node
<1>4. ASSUME NEW e \in Contacts PROVE e \in Contacts'
  <2>1. e = <<e[1], e[2]>> /\ e[1] \in Node /\ e[2] \in Node /\ Touches(e[1], e[2])
    BY DEF Contacts
  <2>2. Touches(e[1], e[2])'
    BY <1>2, <2>1 DEF Touches
  <2>3. e \in Node' \X Node'
    BY <1>2, <2>1
  <2> QED BY <2>2, <2>3 DEF Contacts
<1>5. ASSUME NEW e \in Contacts', e[2][1] <= Len(image) PROVE e \in Contacts
  <2>1. e = <<e[1], e[2]>> /\ e[1] \in Node' /\ e[2] \in Node' /\ Touches(e[1], e[2])'
    BY DEF Contacts
  <2>2. e[1][1] <= Len(image)
    <3>1. e[1][1] \in 1 .. Len(image') /\ e[2][1] \in 1 .. Len(image') /\ e[2][1] = e[1][1] + 1
      BY <2>1 DEF Node, Touches
    <3> QED BY <1>1, <1>5, <3>1
  <2>3. e[1] \in Node /\ e[2] \in Node
    BY <1>3, <1>5, <2>1, <2>2
  <2>4. Touches(e[1], e[2])
    BY <1>2, <2>1, <2>3 DEF Touches
  <2> QED BY <2>1, <2>3, <2>4 DEF Contacts
<1> QED BY <1>1, <1>2, <1>3, <1>4, <1>5

\* The next row is read: none of its runs is in a set.
LEMMA NextRowKeeps ==
    ASSUME IInv, IInv', NEW rho, NEW own, Held(rho, own), NextRow
    PROVE  \E new : Held(rho, new)'
<1>0. /\ ImageOK /\ ImageOK' /\ Maps(rho) /\ RowsHeld(rho, own) /\ Connected(rho, own)
      /\ AllCounted(rho, own) /\ AllJoined(rho, own) /\ own \in [Node -> Entry \cup {0}]
  BY DEF IInv, ScanInv, ImageOK, Held
<1>1. PICK runs \in RowRuns : image' = Append(image, runs) /\ cur' = Yuv(runs)
  BY DEF NextRow
<1>2. /\ prev' = cur /\ ai' = 1 /\ bi' = 1 /\ pc = "row" /\ pc' = "walk"
      /\ UNCHANGED forest /\ UNCHANGED findVars
  BY DEF NextRow
<1>3. /\ Len(image) \in Nat /\ Len(image') = Len(image) + 1
      /\ image'[Len(image')] = runs
      /\ \A r \in 1 .. Len(image) : image'[r] = image[r]
      /\ \A n \in Node : n \in Node' /\ RunAt(n)' = RunAt(n)
      /\ \A n \in Node' : n \in Node <=> n[1] <= Len(image)
      /\ \A e \in Contacts : e \in Contacts'
      /\ \A e \in Contacts' : e[2][1] <= Len(image) => e \in Contacts
  BY <1>0, <1>1, RowAdded
<1>4. PICK new : /\ new \in [Node' -> Entry \cup {0}]
                 /\ \A n \in Node : new[n] = own[n]
                 /\ \A n \in Node' : n \notin Node => new[n] = 0
  <2> DEFINE f == [n \in Node' |-> IF n \in Node THEN own[n] ELSE 0]
  <2>1. /\ f \in [Node' -> Entry \cup {0}]
        /\ \A n \in Node : f[n] = own[n]
        /\ \A n \in Node' : n \notin Node => f[n] = 0
    BY <1>0, <1>3
  <2> HIDE DEF f
  <2> QED BY <2>1
<1>5. Maps(rho)' /\ Entry' = Entry /\ RootSet' = RootSet /\ (NeverFull' <=> NeverFull)
      /\ \A r \in RootSet : RootStats(r)' = RootStats(r)
  BY <1>0, <1>2 DEF Maps, Entry, RootSet, RootsOf, RootStats, forest, NeverFull
<1>6. new \in [Node' -> Entry' \cup {0}]
  BY <1>4, <1>5
<1>7. RowsHeld(rho, new)'
  <2>1. ASSUME Len(image) \in 1 .. Len(image), NEW i \in 1 .. Len(cur)
        PROVE  RunHeld(prev[i], <<Len(image) - 1, i>>, rho, new)'
    <3>1. Len(cur) = Len(image[Len(image)]) /\ RunHeld(cur[i], <<Len(image), i>>, rho, own)
      BY <1>0, <2>1 DEF RowsHeld, RowHeld
    <3>2. PICK n \in Node : n = <<Len(image), i>> /\ n = <<Len(image') - 1, i>>
      BY <1>3, <2>1, <3>1 DEF Node
    <3>3. RunAt(n)' = RunAt(n) /\ new[n] = own[n] /\ prev'[i] = cur[i]
      BY <1>2, <1>3, <1>4
    <3> QED BY <3>1, <3>2, <3>3 DEF RunHeld
  <2>2. RowHeld(prev, Len(image) - 1, rho, new)'
    <3>1. prev' = cur /\ Len(image') - 1 = Len(image)
      BY <1>2, <1>3
    <3>2. Len(image) \in 1 .. Len(image) =>
             Len(cur) = Len(image[Len(image)]) /\ image'[Len(image)] = image[Len(image)]
      BY <1>0, <1>3 DEF RowsHeld, RowHeld
    <3>3. Len(image) \notin 1 .. Len(image) => cur = <<>>
      BY <1>0 DEF RowsHeld, RowHeld
    <3>4. Len(image) \in 1 .. Len(image') <=> Len(image) \in 1 .. Len(image)
      BY <1>3
    <3> QED BY <2>1, <3>1, <3>2, <3>3, <3>4 DEF RowHeld
  <2>3. runs \in Seq(PlainRun) /\ Len(runs) \in Nat
    BY RowRunsAssumption
  <2>4. /\ Len(cur') = Len(runs)
        /\ \A i \in 1 .. Len(runs) :
              /\ cur'[i].parent_index = 0
              /\ cur'[i].run_low = runs[i].run_low /\ cur'[i].run_high = runs[i].run_high
    BY <1>1, <2>3 DEF Yuv
  <2>5. ASSUME NEW i \in 1 .. Len(cur') PROVE RunHeld(cur[i], <<Len(image), i>>, rho, new)'
    <3>a. PICK n : n = <<Len(image'), i>>
      OBVIOUS
    <3>0. n = <<Len(image'), i>> /\ n[1] = Len(image') /\ n[2] = i
      BY <3>a
    <3>1. n \in Node'
      <4>1. Len(image') \in 1 .. Len(image') /\ i \in 1 .. Len(image'[Len(image')])
        BY <1>3, <2>4
      <4> QED BY <3>0, <4>1 DEF Node
    <3>2. n \notin Node
      <4>1. ~(n[1] <= Len(image))
        BY <1>3, <3>0
      <4> QED BY <1>3, <3>1, <4>1
    <3>3. new[n] = 0
      BY <1>4, <3>1, <3>2
    <3>4. RunAt(n)' = runs[i]
      BY <1>3, <3>0 DEF RunAt
    <3>5. /\ cur'[i].parent_index = 0
          /\ cur'[i].run_low = runs[i].run_low /\ cur'[i].run_high = runs[i].run_high
      BY <2>4
    <3> QED BY <3>0, <3>3, <3>4, <3>5 DEF RunHeld
  <2>6. RowHeld(cur, Len(image), rho, new)'
    <3>1. Len(image') \in 1 .. Len(image')
      BY <1>3
    <3> QED BY <1>3, <2>4, <2>5, <3>1 DEF RowHeld
  <2> QED BY <2>2, <2>6 DEF RowsHeld
<1>8. FindHeld(rho)'
  <2>1. finding = "none" /\ path = <<>>
    BY <1>2 DEF IInv, FindInv, FindPhase
  <2>2. finding' = "none" /\ path' = <<>> /\ Len(path') = 0
    BY <1>2, <2>1 DEF findVars
  <2> QED BY <2>2 DEF FindHeld
<1>9. Connected(rho, new)'
  <2> SUFFICES ASSUME NEW S, Shut(Contacts', S), NEW m \in Node', NEW n \in Node',
                      new[m] # 0, new[n] # 0, rho[new[m]] = rho[new[n]]
               PROVE  m \in S <=> n \in S
    BY DEF Connected
  <2>1. Shut(Contacts, S)
    BY <1>3 DEF Shut
  <2>2. m \in Node /\ n \in Node /\ new[m] = own[m] /\ new[n] = own[n]
    BY <1>4
  <2> QED BY <1>0, <2>1, <2>2 DEF Connected
<1>10. AllCounted(rho, new)'
  <2>1. ASSUME NEW r \in RootSet PROVE Counted(r, Class(rho, new, r))'
    <3>1. PICK c \in SUBSET Node : c = Class(rho, own, r) /\ c = Class(rho, new, r)'
      <4>1. ASSUME NEW n \in Node', new[n] # 0 PROVE n \in Node /\ new[n] = own[n]
        BY <1>4, <4>1
      <4>2. \A n \in Node : n \in Node' /\ new[n] = own[n]
        BY <1>3, <1>4
      <4> QED BY <4>1, <4>2 DEF Class
    <3>2. Counted(r, c)
      BY <1>0, <3>1 DEF AllCounted
    <3>3. StatsOfComponent(c)' = StatsOfComponent(c)
      <4>1. c # {}
        BY <3>2 DEF Counted
      <4> QED BY <1>0, <1>3, <4>1, OldStats
    <3>4. Counted(r, c)'
      BY <1>5, <3>2, <3>3 DEF Counted
    <3> QED BY <3>1, <3>4 DEF Counted
  <2> QED BY <1>5, <2>1 DEF AllCounted
<1>11. AllJoined(rho, new)'
  <2> SUFFICES ASSUME NeverFull', NEW e \in Contacts', Passed(e)'
               PROVE  Joined(e, rho, new)
    BY DEF AllJoined, Joined
  <2>1. /\ e[1] \in Node' /\ e[2] \in Node'
        /\ e[2][1] \in 1 .. Len(image')
        /\ e[1][2] \in Int /\ e[1][2] >= 1 /\ e[2][2] \in Int /\ e[2][2] >= 1
    <3>1. e[1] \in Node' /\ e[2] \in Node'
      BY DEF Contacts
    <3>2. \A n \in Node' : n[1] \in 1 .. Len(image') /\ n[2] \in Int /\ n[2] >= 1
      BY DEF Node
    <3> QED BY <3>1, <3>2
  <2>2. e[2][1] < Len(image')
    BY <1>2, <2>1 DEF Passed
  <2>3. e \in Contacts
    BY <1>3, <2>1, <2>2
  <2>4. Joined(e, rho, own)
    BY <1>0, <1>2, <1>5, <2>3 DEF AllJoined, Passed
  <2>5. e[1] \in Node /\ e[2] \in Node
    BY <2>3 DEF Contacts
  <2> QED BY <1>4, <2>4, <2>5 DEF Joined
<1>12. Held(rho, new)'
  BY <1>5, <1>6, <1>7, <1>8, <1>9, <1>10, <1>11 DEF Held
<1> QED BY <1>12

-----------------------------------------------------------------------------
(* Statistics up to max_y *)

\* NoBottom leaves out one field.
LEMMA NoBottomFields ==
    ASSUME NEW a \in Stats, NEW c \in Stats
    PROVE  NoBottom(a) = NoBottom(c) <=>
              /\ a.min_x = c.min_x /\ a.max_x = c.max_x /\ a.min_y = c.min_y
              /\ a.sum_x = c.sum_x /\ a.sum_y = c.sum_y /\ a.count = c.count
<1>1. \A s \in Stats : NoBottom(s) =
         [min_x |-> s.min_x, max_x |-> s.max_x, min_y |-> s.min_y, max_y |-> 0,
          sum_x |-> s.sum_x, sum_y |-> s.sum_y, count |-> s.count]
  BY DEF NoBottom, Stats
<1> QED BY <1>1

\* The sum of what is listed is listed for the sum.
LEMMA SumListed ==
    ASSUME NEW a \in Stats, NEW b \in Stats, NEW s \in Stats, NEW t \in Stats,
           Lists(a, s), Lists(b, t)
    PROVE  Lists(StatsAdd(a, b), StatsAdd(s, t))
<1>1. PICK x \in Stats : x = StatsAdd(a, b)
  BY StatsAddType
<1>2. PICK y \in Stats : y = StatsAdd(s, t)
  BY StatsAddType
<1>3. /\ a.min_x = s.min_x /\ a.max_x = s.max_x /\ a.min_y = s.min_y
      /\ a.sum_x = s.sum_x /\ a.sum_y = s.sum_y /\ a.count = s.count /\ a.max_y <= s.max_y
  BY NoBottomFields DEF Lists
<1>4. /\ b.min_x = t.min_x /\ b.max_x = t.max_x /\ b.min_y = t.min_y
      /\ b.sum_x = t.sum_x /\ b.sum_y = t.sum_y /\ b.count = t.count /\ b.max_y <= t.max_y
  BY NoBottomFields DEF Lists
<1>5. /\ x.min_x = Lower(a.min_x, b.min_x) /\ x.max_x = Higher(a.max_x, b.max_x)
      /\ x.min_y = Lower(a.min_y, b.min_y) /\ x.max_y = Higher(a.max_y, b.max_y)
      /\ x.sum_x = a.sum_x + b.sum_x /\ x.sum_y = a.sum_y + b.sum_y
      /\ x.count = a.count + b.count
  BY <1>1, StatsAddFields
<1>6. /\ y.min_x = Lower(s.min_x, t.min_x) /\ y.max_x = Higher(s.max_x, t.max_x)
      /\ y.min_y = Lower(s.min_y, t.min_y) /\ y.max_y = Higher(s.max_y, t.max_y)
      /\ y.sum_x = s.sum_x + t.sum_x /\ y.sum_y = s.sum_y + t.sum_y
      /\ y.count = s.count + t.count
  BY <1>2, StatsAddFields
<1>7. NoBottom(x) = NoBottom(y)
  BY <1>3, <1>4, <1>5, <1>6, NoBottomFields
<1>8. x.max_y <= y.max_y
  <2>1. a.max_y \in Int /\ b.max_y \in Int /\ s.max_y \in Int /\ t.max_y \in Int
    BY Sizes DEF Stats
  <2> QED BY <1>3, <1>4, <1>5, <1>6, <2>1 DEF Higher
<1> QED BY <1>1, <1>2, <1>7, <1>8 DEF Lists

\* stats_add_singleton is stats_add up to max_y.
LEMMA SingletonListed ==
    ASSUME NEW s \in Stats, NEW row \in 0 .. Rows - 1, NEW r, StatsOf(row, r) \in Stats
    PROVE  /\ StatsAddSingleton(s, row, r) \in Stats
           /\ Lists(StatsAddSingleton(s, row, r), StatsAdd(s, StatsOf(row, r)))
<1>1. PICK sum \in Stats : sum = StatsAdd(s, StatsOf(row, r))
  BY StatsAddType
<1>2. PICK y : y = IF row > sum.min_y THEN row ELSE s.max_y
  OBVIOUS
<1>3. PICK a : a = StatsAddSingleton(s, row, r)
  OBVIOUS
<1>4. a = [sum EXCEPT !.max_y = y]
  BY <1>1, <1>2, <1>3 DEF StatsAddSingleton
<1>5. s.max_y \in 0 .. Rows - 1
  BY DEF Stats
<1>6. y \in 0 .. Rows - 1 /\ (y = row \/ y = s.max_y)
  BY <1>2, <1>5
<1>7. a \in Stats /\ a.max_y = y
  BY <1>4, <1>6 DEF Stats
<1>8. NoBottom(a) = NoBottom(sum)
  <2>1. /\ a.min_x = sum.min_x /\ a.max_x = sum.max_x /\ a.min_y = sum.min_y
        /\ a.sum_x = sum.sum_x /\ a.sum_y = sum.sum_y /\ a.count = sum.count
    BY <1>4 DEF Stats
  <2> QED BY <1>7, <2>1, NoBottomFields
<1>9. a.max_y <= sum.max_y
  <2>1. sum.max_y = Higher(s.max_y, row)
    <3>1. sum.max_y = Higher(s.max_y, StatsOf(row, r).max_y)
      BY <1>1, StatsAddFields
    <3> QED BY <3>1 DEF StatsOf
  <2> QED BY <1>5, <1>6, <1>7, <2>1, Sizes DEF Higher
<1> QED BY <1>1, <1>3, <1>7, <1>8, <1>9 DEF Lists

\* A run that the scan holds has the statistics of its node.
LEMMA RunHeldStats ==
    ASSUME NEW run, NEW n, NEW rho, NEW own, RunHeld(run, n, rho, own), NEW row, row = n[1] - 1
    PROVE  StatsOf(row, run) = RunStats(n)
<1>1. run.run_low = RunAt(n).run_low /\ run.run_high = RunAt(n).run_high
  BY DEF RunHeld
<1> QED BY <1>1 DEF RunStats, StatsOf, RunCount

\* Both runs of the pair.
LEMMA PairStats ==
    ASSUME ScanInv, MorePairs, NEW rho, NEW own, RowsHeld(rho, own)
    PROVE  /\ StatsOf(ii - 1, prev[ai]) = RunStats(NodeA) /\ StatsOf(ii, cur[bi]) = RunStats(NodeB)
           /\ RunStats(NodeA) \in Stats /\ RunStats(NodeB) \in Stats
           /\ ii \in 0 .. Rows - 1 /\ ii - 1 \in 0 .. Rows - 1
<1>1. /\ NodeA \in Node /\ NodeB \in Node /\ Len(image) \in Nat
      /\ RunHeld(prev[ai], NodeA, rho, own) /\ RunHeld(cur[bi], NodeB, rho, own)
  BY PairHeld
<1>2. NodeA[1] - 1 = ii - 1 /\ NodeB[1] - 1 = ii
  BY <1>1 DEF NodeA, NodeB, ii
<1>3. RunStats(NodeA) \in Stats /\ RunStats(NodeB) \in Stats
  <2>1. ImageOK
    BY DEF ScanInv, ImageOK
  <2> QED BY <1>1, <2>1, NodeType
<1>4. ii \in 0 .. Rows - 1 /\ ii - 1 \in 0 .. Rows - 1
  BY PairType
<1> QED BY <1>1, <1>2, <1>3, <1>4, RunHeldStats

-----------------------------------------------------------------------------
(* A union of the two runs *)

\* A run of the pair, or one of the blob of either.
Near(n, rho, own) ==
    n \in {NodeA, NodeB} \/ Joined(<<n, NodeA>>, rho, own) \/ Joined(<<n, NodeB>>, rho, own)

\* The new maps put the runs of the pair in the blob of root, and join no other
\* runs than theirs.
Unites(rhoNew, new, rho, own, root) ==
    /\ new[NodeA] # 0 /\ rhoNew[new[NodeA]] = rhoNew[root]
    /\ new[NodeB] # 0 /\ rhoNew[new[NodeB]] = rhoNew[root]
    /\ \A n \in Node : own[n] # 0 \/ n \notin {NodeA, NodeB} => new[n] = own[n]
    /\ \A b, c \in Entry : rho[b] = rho[c] => rhoNew[b] = rhoNew[c]
    /\ \A m, n \in Node :
          Joined(<<m, n>>, rhoNew, new) =>
             Joined(<<m, n>>, rho, own) \/ (Near(m, rho, own) /\ Near(n, rho, own))

\* A run of a row is a node.
LEMMA NodeIs ==
    ASSUME NEW r \in 1 .. Len(image), NEW i \in 1 .. Len(image[r])
    PROVE  <<r, i>> \in Node
BY DEF Node

\* set_parent of the pair tells both runs the blob.
LEMMA PairTold ==
    ASSUME ScanInv, MorePairs, NEW root, SetParents(root), root # 0,
           NEW rho, NEW own, RowsHeld(rho, own), own \in [Node -> Entry \cup {0}],
           NEW rhoNew, NEW new, Unites(rhoNew, new, rho, own, root)
    PROVE  RowsHeld(rhoNew, new)'
<1>1. /\ NodeA \in Node /\ NodeB \in Node /\ NodeA # NodeB
      /\ RunHeld(prev[ai], NodeA, rho, own) /\ RunHeld(cur[bi], NodeB, rho, own)
      /\ Len(image) \in Nat /\ Len(image) >= 2
  BY PairHeld
<1>2. /\ prev' = [prev EXCEPT ![ai].parent_index = root]
      /\ cur' = [cur EXCEPT ![bi].parent_index = root]
      /\ image' = image /\ \A n : RunAt(n)' = RunAt(n)
  BY DEF SetParents, RunAt
<1>3. /\ ai \in 1 .. Len(prev) /\ bi \in 1 .. Len(cur)
      /\ prev \in Seq(YuvRun) /\ cur \in Seq(YuvRun)
  BY PairType DEF ScanInv, RunsOK
<1>4. /\ new[NodeA] # 0 /\ rhoNew[new[NodeA]] = rhoNew[root]
      /\ new[NodeB] # 0 /\ rhoNew[new[NodeB]] = rhoNew[root]
      /\ \A n \in Node : n \notin {NodeA, NodeB} => new[n] = own[n]
      /\ \A b, c \in Entry : rho[b] = rho[c] => rhoNew[b] = rhoNew[c]
  BY DEF Unites
<1>5. ASSUME NEW s, NEW i, s \in Seq(YuvRun), i \in 1 .. Len(s)
      PROVE  LET t == [s EXCEPT ![i].parent_index = root]
             IN  /\ Len(t) = Len(s)
                 /\ t[i].run_low = s[i].run_low /\ t[i].run_high = s[i].run_high
                 /\ t[i].parent_index = root
                 /\ \A j \in 1 .. Len(s) : j # i => t[j] = s[j]
  <2>1. s[i] \in YuvRun
    BY <1>5, ElementOfSeq
  <2>2. PICK told : told = [s[i] EXCEPT !.parent_index = root]
    OBVIOUS
  <2>3. told.run_low = s[i].run_low /\ told.run_high = s[i].run_high /\ told.parent_index = root
    BY <2>1, <2>2 DEF YuvRun
  <2>4. PICK t : t = [s EXCEPT ![i] = told]
    OBVIOUS
  <2>5. Len(t) = Len(s) /\ t[i] = told /\ \A j \in 1 .. Len(s) : j # i => t[j] = s[j]
    BY <1>5, <2>4
  <2>6. [s EXCEPT ![i].parent_index = root] = t
    BY <2>2, <2>4
  <2> QED BY <2>3, <2>5, <2>6
<1>6. ASSUME NEW run \in YuvRun, NEW n \in Node, n \notin {NodeA, NodeB}, RunHeld(run, n, rho, own)
      PROVE  /\ run.run_low = RunAt(n).run_low /\ run.run_high = RunAt(n).run_high
             /\ run.parent_index = 0 => new[n] = 0
             /\ run.parent_index # 0 => new[n] # 0 /\ rhoNew[new[n]] = rhoNew[run.parent_index]
  <2>1. run.parent_index \in Entry \cup {0} /\ own[n] \in Entry \cup {0}
    BY DEF YuvRun
  <2> QED BY <1>4, <1>6, <2>1 DEF RunHeld
<1>7. /\ Len(image) - 1 \in 1 .. Len(image) /\ Len(image) \in 1 .. Len(image)
      /\ Len(prev) = Len(image[Len(image) - 1]) /\ Len(cur) = Len(image[Len(image)])
      /\ \A i \in 1 .. Len(prev) : RunHeld(prev[i], <<Len(image) - 1, i>>, rho, own)
      /\ \A i \in 1 .. Len(cur) : RunHeld(cur[i], <<Len(image), i>>, rho, own)
  <2>1. Len(image) - 1 \in 1 .. Len(image) /\ Len(image) \in 1 .. Len(image)
    BY <1>1
  <2> QED BY <2>1 DEF RowsHeld, RowHeld
<1>8. ASSUME NEW i \in 1 .. Len(prev)
      PROVE  RunHeld(prev[i], <<Len(image) - 1, i>>, rhoNew, new)'
  <2>1. CASE i = ai
    <3>1. /\ prev'[i].run_low = prev[i].run_low /\ prev'[i].run_high = prev[i].run_high
          /\ prev'[i].parent_index = root
      BY <1>2, <1>3, <1>5, <2>1
    <3>2. <<Len(image) - 1, i>> = NodeA
      BY <2>1 DEF NodeA
    <3> QED BY <1>1, <1>2, <1>4, <2>1, <3>1, <3>2 DEF RunHeld
  <2>2. CASE i # ai
    <3>1. prev'[i] = prev[i]
      BY <1>2, <1>3, <1>5, <2>2
    <3>2. PICK n \in Node : n = <<Len(image) - 1, i>>
      BY <1>7, NodeIs
    <3>3. n \notin {NodeA, NodeB}
      <4>1. n[1] = Len(image) - 1 /\ n[2] = i
        BY <3>2
      <4>2. /\ NodeA[1] = Len(image) - 1 /\ NodeA[2] = ai
            /\ NodeB[1] = Len(image) /\ NodeB[2] = bi
        BY DEF NodeA, NodeB
      <4> QED BY <1>1, <2>2, <4>1, <4>2
    <3>4. PICK run \in YuvRun : run = prev[i] /\ RunHeld(run, n, rho, own)
      BY <1>3, <1>7, <3>2, ElementOfSeq
    <3>5. /\ run.run_low = RunAt(n).run_low /\ run.run_high = RunAt(n).run_high
          /\ run.parent_index = 0 => new[n] = 0
          /\ run.parent_index # 0 => new[n] # 0 /\ rhoNew[new[n]] = rhoNew[run.parent_index]
      BY <1>6, <3>3, <3>4
    <3>6. RunAt(n)' = RunAt(n) /\ prev'[i] = run
      BY <1>2, <3>1, <3>4
    <3>7. RunHeld(prev[i], n, rhoNew, new)'
      BY <3>5, <3>6 DEF RunHeld
    <3> QED BY <1>2, <3>2, <3>7
  <2> QED BY <2>1, <2>2
<1>9. ASSUME NEW i \in 1 .. Len(cur)
      PROVE  RunHeld(cur[i], <<Len(image), i>>, rhoNew, new)'
  <2>1. CASE i = bi
    <3>1. /\ cur'[i].run_low = cur[i].run_low /\ cur'[i].run_high = cur[i].run_high
          /\ cur'[i].parent_index = root
      BY <1>2, <1>3, <1>5, <2>1
    <3>2. <<Len(image), i>> = NodeB
      BY <2>1 DEF NodeB
    <3> QED BY <1>1, <1>2, <1>4, <2>1, <3>1, <3>2 DEF RunHeld
  <2>2. CASE i # bi
    <3>1. cur'[i] = cur[i]
      BY <1>2, <1>3, <1>5, <2>2
    <3>2. PICK n \in Node : n = <<Len(image), i>>
      BY <1>7, NodeIs
    <3>3. n \notin {NodeA, NodeB}
      <4>1. n[1] = Len(image) /\ n[2] = i
        BY <3>2
      <4>2. /\ NodeA[1] = Len(image) - 1 /\ NodeA[2] = ai
            /\ NodeB[1] = Len(image) /\ NodeB[2] = bi
        BY DEF NodeA, NodeB
      <4> QED BY <1>1, <2>2, <4>1, <4>2
    <3>4. PICK run \in YuvRun : run = cur[i] /\ RunHeld(run, n, rho, own)
      BY <1>3, <1>7, <3>2, ElementOfSeq
    <3>5. /\ run.run_low = RunAt(n).run_low /\ run.run_high = RunAt(n).run_high
          /\ run.parent_index = 0 => new[n] = 0
          /\ run.parent_index # 0 => new[n] # 0 /\ rhoNew[new[n]] = rhoNew[run.parent_index]
      BY <1>6, <3>3, <3>4
    <3>6. RunAt(n)' = RunAt(n) /\ cur'[i] = run
      BY <1>2, <3>1, <3>4
    <3>7. RunHeld(cur[i], n, rhoNew, new)'
      BY <3>5, <3>6 DEF RunHeld
    <3> QED BY <1>2, <3>2, <3>7
  <2> QED BY <2>1, <2>2
<1>10. Len(prev') = Len(prev) /\ Len(cur') = Len(cur)
  BY <1>2, <1>3, <1>5
<1> QED BY <1>2, <1>7, <1>8, <1>9, <1>10 DEF RowsHeld, RowHeld

\* A union that is told and listed keeps what relates runs and blobs.
LEMMA UnionKeeps ==
    ASSUME IInv, MorePairs, Overlap, Advance, NEW root, SetParents(root), root # 0,
           pc \notin {"row", "done"}, pc' = "walk", finding' = "none", path' = <<>>,
           NeverFull' => NeverFull,
           NEW rho, NEW own, Held(rho, own), NEW rhoNew, NEW new,
           Maps(rhoNew)', new \in [Node -> Entry' \cup {0}],
           Unites(rhoNew, new, rho, own, root), AllCounted(rhoNew, new)'
    PROVE  Held(rhoNew, new)'
<1>0. /\ ImageOK /\ ScanInv /\ RowsHeld(rho, own) /\ Connected(rho, own) /\ AllJoined(rho, own)
      /\ own \in [Node -> Entry \cup {0}] /\ image' = image
  BY DEF IInv, ScanInv, ImageOK, Held, SetParents
<1>1. /\ NodeA \in Node /\ NodeB \in Node
      /\ <<NodeA, NodeB>> \in Contacts
  BY <1>0, PairHeld, OverlapTouches
<1>2. Node' = Node /\ Contacts' = Contacts
  BY <1>0, SameImage
<1>3. RowsHeld(rhoNew, new)'
  BY <1>0, PairTold
<1>4. FindHeld(rhoNew)'
  <2>1. Len(path') = 0
    OBVIOUS
  <2> QED BY <2>1 DEF FindHeld
<1>5. Connected(rhoNew, new)'
  <2> SUFFICES ASSUME NEW S, Shut(Contacts, S), NEW m \in Node, NEW n \in Node,
                      Joined(<<m, n>>, rhoNew, new)
               PROVE  m \in S <=> n \in S
    BY <1>2 DEF Connected, Joined
  <2>1. \A x, y \in Node : Joined(<<x, y>>, rho, own) => (x \in S <=> y \in S)
    BY <1>0 DEF Connected, Joined
  <2>2. NodeA \in S <=> NodeB \in S
    BY <1>1 DEF Shut
  <2>3. \A x \in Node : Near(x, rho, own) => (x \in S <=> NodeA \in S)
    BY <1>1, <2>1, <2>2 DEF Near
  <2> QED BY <2>1, <2>3 DEF Unites
<1>6. AllJoined(rhoNew, new)'
  <2> SUFFICES ASSUME NeverFull', NEW e \in Contacts, Passed(e)' PROVE Joined(e, rhoNew, new)
    BY <1>2 DEF AllJoined, Joined
  <2>1. Passed(e) \/ e = <<NodeA, NodeB>>
    BY <1>0, AdvancePasses
  <2>2. CASE e = <<NodeA, NodeB>>
    BY <2>2 DEF Unites, Joined
  <2>3. CASE Passed(e)
    <3>1. /\ Joined(e, rho, own) /\ e[1] \in Node /\ e[2] \in Node
      BY <1>0, <2>3 DEF AllJoined, Contacts
    <3>2. own[e[1]] \in Entry /\ own[e[2]] \in Entry /\ rho[own[e[1]]] = rho[own[e[2]]]
      BY <1>0, <3>1 DEF Joined
    <3>3. new[e[1]] = own[e[1]] /\ new[e[2]] = own[e[2]]
      BY <3>1 DEF Unites, Joined
    <3>4. rhoNew[own[e[1]]] = rhoNew[own[e[2]]]
      BY <3>2 DEF Unites
    <3> QED BY <3>1, <3>3, <3>4 DEF Joined
  <2> QED BY <2>1, <2>2, <2>3
<1>7. new \in [Node' -> Entry' \cup {0}]
  BY <1>2
<1> QED BY <1>3, <1>4, <1>5, <1>6, <1>7 DEF Held

\* A root has what its class has, the image being the same.
LEMMA NowCounted ==
    ASSUME ImageOK, image' = image, NEW r, NEW class \in SUBSET Node,
           NEW m \in class, NEW n \in class, m # n, Lists(RootStats(r)', StatsOfComponent(class))
    PROVE  Counted(r, class)'
<1>1. StatsOfComponent(class)' = StatsOfComponent(class)
  BY SameImage
<1> QED BY <1>1 DEF Counted, Lists

\* make_set for two runs that are in no set.
LEMMA UnionNewKeeps ==
    ASSUME IInv, IInv', NEW rho, NEW own, Held(rho, own), UnionNew
    PROVE  \E rhoNew, new : Held(rhoNew, new)'
<1>0. /\ ImageOK /\ ScanInv /\ ForestInv /\ Maps(rho) /\ RowsHeld(rho, own)
      /\ AllCounted(rho, own) /\ own \in [Node -> Entry \cup {0}]
  BY DEF IInv, ScanInv, ImageOK, Held
<1>1. PICK n : n = used_blob_set_count
  OBVIOUS
<1>2. PICK s : s = StatsAddSingleton(StatsOf(ii - 1, prev[ai]), ii, cur[bi])
  OBVIOUS
<1>3. /\ MorePairs /\ Overlap /\ HasRoom /\ MakeSet(s) /\ SetParents(n) /\ Advance
      /\ a_parent = 0 /\ b_parent = 0 /\ pc = "walk" /\ pc' = "walk"
      /\ finding' = finding /\ path' = path /\ image' = image
  BY <1>1, <1>2 DEF UnionNew, findVars, SetParents
<1>4. finding = "none" /\ path = <<>>
  BY <1>3 DEF IInv, FindInv, FindPhase
<1>5. /\ NodeA \in Node /\ NodeB \in Node /\ NodeA # NodeB
      /\ own[NodeA] = 0 /\ own[NodeB] = 0
  <2>1. /\ NodeA \in Node /\ NodeB \in Node /\ NodeA # NodeB
        /\ RunHeld(prev[ai], NodeA, rho, own) /\ RunHeld(cur[bi], NodeB, rho, own)
    BY <1>0, <1>3, PairHeld
  <2> QED BY <1>3, <2>1 DEF RunHeld, a_parent, b_parent
<1>6. PICK rhoNew : rhoNew[n] = n /\ Agree(Entry, rhoNew, rho)
  <2> DEFINE map == [b \in Entry \cup {n} |-> IF b = n THEN n ELSE rho[b]]
  <2>1. n \notin Entry
    BY <1>1 DEF Entry
  <2>2. map[n] = n /\ \A b \in Entry : map[b] = rho[b]
    BY <2>1
  <2> HIDE DEF map
  <2> QED BY <2>2 DEF Agree
<1>7. PICK new : /\ new \in [Node -> Entry \cup {0, n}]
                 /\ new[NodeA] = n /\ new[NodeB] = n
                 /\ \A x \in Node : x \notin {NodeA, NodeB} => new[x] = own[x]
  <2> DEFINE f == [x \in Node |-> IF x \in {NodeA, NodeB} THEN n ELSE own[x]]
  <2>1. /\ f \in [Node -> Entry \cup {0, n}]
        /\ f[NodeA] = n /\ f[NodeB] = n
        /\ \A x \in Node : x \notin {NodeA, NodeB} => f[x] = own[x]
    BY <1>0, <1>5
  <2> HIDE DEF f
  <2> QED BY <2>1
<1>8. /\ n \notin Entry /\ n # 0 /\ Entry' = Entry \cup {n} /\ Maps(rhoNew)'
      /\ RootSet' = RootSet \cup {n}
      /\ RootStats(n)' = s
      /\ \A r \in RootSet : r \in Entry /\ RootStats(r)' = RootStats(r)
  BY <1>0, <1>1, <1>3, <1>6, MakeSetForest
<1>9. /\ \A b \in Entry : rhoNew[b] = rho[b] /\ rho[b] \in RootSet
      /\ \A r \in RootSet : r \in Entry /\ r # n
  BY <1>0, <1>6, <1>8, MapToRoots DEF Agree, RootsTo
<1>10. Unites(rhoNew, new, rho, own, n)
  <2>1. \A b, c \in Entry : rho[b] = rho[c] => rhoNew[b] = rhoNew[c]
    BY <1>9
  <2>2. ASSUME NEW x \in Node, NEW y \in Node, Joined(<<x, y>>, rhoNew, new)
        PROVE  Joined(<<x, y>>, rho, own) \/ (Near(x, rho, own) /\ Near(y, rho, own))
    <3>1. new[x] # 0 /\ new[y] # 0 /\ rhoNew[new[x]] = rhoNew[new[y]]
      BY <2>2 DEF Joined
    <3>2. ASSUME NEW z \in Node, new[z] # 0
          PROVE  IF z \in {NodeA, NodeB} THEN rhoNew[new[z]] = n
                 ELSE own[z] # 0 /\ rhoNew[new[z]] = rho[own[z]] /\ rho[own[z]] # n
      <4>1. CASE z \in {NodeA, NodeB}
        BY <1>6, <1>7, <4>1
      <4>2. CASE z \notin {NodeA, NodeB}
        <5>1. new[z] = own[z] /\ own[z] \in Entry
          BY <1>0, <1>7, <3>2, <4>2
        <5> QED BY <1>9, <3>2, <4>2, <5>1
      <4> QED BY <4>1, <4>2
    <3> QED BY <3>1, <3>2 DEF Joined, Near
  <2> QED BY <1>5, <1>6, <1>7, <1>8, <2>1, <2>2 DEF Unites
<1>11. new \in [Node -> Entry' \cup {0}]
  BY <1>7, <1>8
<1>12. Lists(s, StatsOfComponent({NodeA, NodeB}))
  <2>1. /\ StatsOf(ii - 1, prev[ai]) = RunStats(NodeA) /\ StatsOf(ii, cur[bi]) = RunStats(NodeB)
        /\ RunStats(NodeA) \in Stats /\ RunStats(NodeB) \in Stats /\ ii \in 0 .. Rows - 1
    BY <1>0, <1>3, PairStats
  <2>2. Lists(s, StatsAdd(RunStats(NodeA), RunStats(NodeB)))
    BY <1>2, <2>1, SingletonListed
  <2>3. StatsOfComponent({NodeA} \cup {NodeB})
           = StatsAdd(StatsOfComponent({NodeA}), StatsOfComponent({NodeB}))
    <3>1. /\ {NodeA} \in SUBSET Node /\ {NodeB} \in SUBSET Node
          /\ {NodeA} # {} /\ {NodeB} # {} /\ {NodeA} \cap {NodeB} = {}
      BY <1>5
    <3>2. Totals
      BY <1>0, ImageTotals
    <3> QED BY <3>1, <3>2 DEF Totals
  <2>4. StatsOfComponent({NodeA}) = RunStats(NodeA) /\ StatsOfComponent({NodeB}) = RunStats(NodeB)
    BY <1>0, <1>5, ImageTotals DEF Totals
  <2>5. {NodeA} \cup {NodeB} = {NodeA, NodeB}
    OBVIOUS
  <2> QED BY <2>2, <2>3, <2>4, <2>5
<1>13. AllCounted(rhoNew, new)'
  <2>0. Node' = Node
    BY <1>0, <1>3, SameImage
  <2>1. ASSUME NEW r \in RootSet PROVE Counted(r, Class(rhoNew, new, r))'
    <3>1. PICK c \in SUBSET Node : c = Class(rho, own, r) /\ c = Class(rhoNew, new, r)'
      <4>1. ASSUME NEW x \in Node
            PROVE  own[x] # 0 /\ rho[own[x]] = r <=> new[x] # 0 /\ rhoNew[new[x]] = r
        <5>1. CASE x \in {NodeA, NodeB}
          BY <1>5, <1>6, <1>7, <1>9, <5>1
        <5>2. CASE x \notin {NodeA, NodeB}
          <6>1. new[x] = own[x] /\ own[x] \in Entry \cup {0}
            BY <1>0, <1>7, <5>2
          <6> QED BY <1>9, <6>1
        <5> QED BY <5>1, <5>2
      <4> QED BY <2>0, <4>1 DEF Class
    <3>2. Counted(r, c)
      BY <1>0, <3>1 DEF AllCounted
    <3>3. Counted(r, c)'
      BY <1>0, <1>3, <1>8, <3>2, CountedStays
    <3> QED BY <3>1, <3>3 DEF Counted
  <2>2. Counted(n, Class(rhoNew, new, n))'
    <3>1. PICK c \in SUBSET Node : c = {NodeA, NodeB} /\ c = Class(rhoNew, new, n)'
      <4>1. ASSUME NEW x \in Node
            PROVE  x \in {NodeA, NodeB} <=> new[x] # 0 /\ rhoNew[new[x]] = n
        <5>1. CASE x \in {NodeA, NodeB}
          BY <1>6, <1>7, <1>8, <5>1
        <5>2. CASE x \notin {NodeA, NodeB}
          <6>1. new[x] = own[x] /\ own[x] \in Entry \cup {0}
            BY <1>0, <1>7, <5>2
          <6> QED BY <1>9, <5>2, <6>1
        <5> QED BY <5>1, <5>2
      <4> QED BY <1>5, <2>0, <4>1 DEF Class
    <3>2. Counted(n, c)'
      BY <1>0, <1>3, <1>5, <1>8, <1>12, <3>1, NowCounted
    <3> QED BY <3>1, <3>2 DEF Counted
  <2> QED BY <1>8, <2>1, <2>2 DEF AllCounted
<1>14. NeverFull' => NeverFull
  <2>1. used_blob_set_count' = used_blob_set_count + 1 /\ used_blob_set_count \in Int
    BY <1>3, Sizes DEF MakeSet, IInv, ForestInv, ForestType
  <2> QED BY <2>1, Sizes DEF NeverFull
<1>15. Held(rhoNew, new)'
  BY <1>3, <1>4, <1>8, <1>10, <1>11, <1>13, <1>14, UnionKeeps
<1> QED BY <1>15

\* A run that is in no set is added to one.
LEMMA FoundSingletonKeeps ==
    ASSUME IInv, IInv', NEW rho, NEW own, Held(rho, own), FoundSingleton
    PROVE  \E rhoNew, new : Held(rhoNew, new)'
<1>0. /\ ImageOK /\ ScanInv /\ ForestInv /\ Maps(rho) /\ RowsHeld(rho, own) /\ FindHeld(rho)
      /\ AllCounted(rho, own) /\ own \in [Node -> Entry \cup {0}]
  BY DEF IInv, ScanInv, ImageOK, Held
<1>1. /\ pc = "unwind" /\ path = <<>> /\ finding = "singleton" /\ AddSingleton /\ SetParents(node)
      /\ Advance /\ pc' = "walk" /\ finding' = "none" /\ path' = <<>> /\ image' = image
      /\ UNCHANGED <<blob_set, used_blob_set_count, used_root_list_count>>
  BY DEF FoundSingleton, Returned, UnionIsOver, SetParents
<1>2. /\ MorePairs /\ node \in Entry /\ IsRoot(node) /\ (a_parent = 0) # (b_parent = 0) /\ node # 0
  BY <1>1 DEF IInv, FindInv, FindPhase, Entry
<1>3. Overlap
  BY <1>0, <1>1 DEF FindHeld
<1>4. /\ NodeA \in Node /\ NodeB \in Node /\ NodeA # NodeB
      /\ RunHeld(prev[ai], NodeA, rho, own) /\ RunHeld(cur[bi], NodeB, rho, own)
  BY <1>0, <1>2, PairHeld
<1>5. PICK one : one = IF a_parent = 0 THEN NodeA ELSE NodeB
  OBVIOUS
<1>6. PICK two : two = IF a_parent = 0 THEN NodeB ELSE NodeA
  OBVIOUS
<1>15. PICK top : top = node
  OBVIOUS
<1>16. top \in Entry /\ IsRoot(top) /\ top # 0 /\ SetParents(top)
  BY <1>1, <1>2, <1>15
<1>7. rho[top] = top
  BY <1>0, <1>16 DEF Maps, RootMap, IsRoot, Entry
<1>8. /\ one \in Node /\ two \in Node /\ one # two /\ {one, two} = {NodeA, NodeB}
      /\ own[one] = 0 /\ own[two] # 0 /\ rho[own[two]] = top
  <2>1. rho[top] = rho[IF a_parent = 0 THEN b_parent ELSE a_parent]
    BY <1>0, <1>1, <1>15 DEF FindHeld
  <2>2. CASE a_parent = 0
    BY <1>2, <1>16, <1>4, <1>5, <1>6, <1>7, <2>1, <2>2 DEF RunHeld, a_parent, b_parent
  <2>3. CASE a_parent # 0
    BY <1>2, <1>16, <1>4, <1>5, <1>6, <1>7, <2>1, <2>3 DEF RunHeld, a_parent, b_parent
  <2> QED BY <2>2, <2>3
<1>9. PICK new : /\ new \in [Node -> Entry \cup {0}] /\ new[one] = top
                 /\ \A x \in Node : x # one => new[x] = own[x]
  <2> DEFINE f == [x \in Node |-> IF x = one THEN top ELSE own[x]]
  <2>1. /\ f \in [Node -> Entry \cup {0}] /\ f[one] = top
        /\ \A x \in Node : x # one => f[x] = own[x]
    BY <1>0, <1>2, <1>16, <1>8
  <2> HIDE DEF f
  <2> QED BY <2>1
<1>10. Unites(rho, new, rho, own, top)
  <2>1. new[two] = own[two]
    BY <1>8, <1>9
  <2>2. ASSUME NEW x \in {NodeA, NodeB} PROVE new[x] # 0 /\ rho[new[x]] = rho[top]
    BY <1>2, <1>16, <1>7, <1>8, <1>9, <2>1
  <2>3. \A n \in Node : own[n] # 0 \/ n \notin {NodeA, NodeB} => new[n] = own[n]
    BY <1>8, <1>9
  <2>4. ASSUME NEW x \in Node, NEW y \in Node, Joined(<<x, y>>, rho, new)
        PROVE  Joined(<<x, y>>, rho, own) \/ (Near(x, rho, own) /\ Near(y, rho, own))
    <3>1. new[x] # 0 /\ new[y] # 0 /\ rho[new[x]] = rho[new[y]]
      BY <2>4 DEF Joined
    <3>2. CASE x # one /\ y # one
      BY <1>9, <3>1, <3>2 DEF Joined
    <3>3. ASSUME NEW z \in Node, new[z] # 0, rho[new[z]] = top PROVE Near(z, rho, own)
      <4>1. CASE z = one
        BY <1>8, <4>1 DEF Near
      <4>2. CASE z # one
        <5>1. Joined(<<z, two>>, rho, own)
          BY <1>8, <1>9, <3>3, <4>2 DEF Joined
        <5> QED BY <1>8, <5>1 DEF Near
      <4> QED BY <4>1, <4>2
    <3>4. CASE x = one \/ y = one
      <4>1. rho[new[x]] = top /\ rho[new[y]] = top
        BY <1>7, <1>9, <3>1, <3>4
      <4> QED BY <3>1, <3>3, <4>1
    <3> QED BY <3>2, <3>4
  <2> QED BY <2>2, <2>3, <2>4 DEF Unites
<1>11. Entry' = Entry /\ RootSet' = RootSet /\ Maps(rho)' /\ (NeverFull' <=> NeverFull)
  BY <1>0, <1>1 DEF Entry, RootSet, RootsOf, Maps, NeverFull
<1>12. PICK row, r : /\ row \in 0 .. Rows - 1 /\ StatsOf(row, r) = RunStats(one) /\ RunStats(one) \in Stats
                     /\ RootStats(top)' = StatsAddSingleton(RootStats(top), row, r)
                     /\ \A q \in RootSet : q # top => RootStats(q)' = RootStats(q)
  <2>1. /\ StatsOf(ii - 1, prev[ai]) = RunStats(NodeA) /\ StatsOf(ii, cur[bi]) = RunStats(NodeB)
        /\ RunStats(NodeA) \in Stats /\ RunStats(NodeB) \in Stats
        /\ ii \in 0 .. Rows - 1 /\ ii - 1 \in 0 .. Rows - 1
    BY <1>0, <1>2, PairStats
  <2>2. PICK row, r : /\ row = (IF a_parent = 0 THEN ii - 1 ELSE ii)
                      /\ r = (IF a_parent = 0 THEN prev[ai] ELSE cur[bi])
    OBVIOUS
  <2>3. PICK rx : rx = blob_set[top].root_list_index
    OBVIOUS
  <2>4. PICK s : s = StatsAddSingleton(root_info[rx].stats, row, r)
    OBVIOUS
  <2>5. root_info' = [root_info EXCEPT ![rx].stats = s]
    BY <1>1, <1>15, <2>2, <2>3, <2>4 DEF AddSingleton
  <2>6. /\ rx \in 0 .. MaxBlobs - 1 /\ root_info[rx].set_index = top
        /\ root_info \in [0 .. MaxBlobs - 1 -> [stats : Stats, set_index : Entry \cup {0}]]
    <3>1. rx \in 0 .. used_root_list_count - 1 /\ root_info[rx].set_index = top
      BY <1>0, <1>2, <1>16, <2>3, RootPlace DEF UsedRoot
    <3> QED BY <1>0, <3>1, Sizes DEF ForestInv, ForestType
  <2>7. root_info'[rx].stats = s /\ \A x \in 0 .. MaxBlobs - 1 : x # rx => root_info'[x] = root_info[x]
    BY <2>5, <2>6
  <2>8. RootStats(top)' = StatsAddSingleton(RootStats(top), row, r)
    BY <1>1, <2>3, <2>4, <2>7 DEF RootStats
  <2>9. ASSUME NEW q \in RootSet, q # top PROVE RootStats(q)' = RootStats(q)
    <3>1. q \in Entry /\ IsRoot(q)
      BY DEF RootSet, RootsOf, IsRoot, Entry
    <3>2. /\ blob_set[q].root_list_index \in 0 .. used_root_list_count - 1
          /\ root_info[blob_set[q].root_list_index].set_index = q
      BY <1>0, <3>1, RootPlace DEF UsedRoot
    <3>3. blob_set[q].root_list_index \in 0 .. MaxBlobs - 1
      BY <1>0, <3>2, Sizes DEF ForestInv, ForestType
    <3> QED BY <1>1, <2>6, <2>7, <2>9, <3>2, <3>3 DEF RootStats
  <2>10. row \in 0 .. Rows - 1 /\ StatsOf(row, r) = RunStats(one) /\ RunStats(one) \in Stats
    BY <1>5, <2>1, <2>2
  <2> QED BY <2>8, <2>9, <2>10
<1>13. AllCounted(rho, new)'
  <2>0. Node' = Node
    BY <1>0, <1>1, SameImage
  <2>1. ASSUME NEW q \in RootSet, q # top PROVE Counted(q, Class(rho, new, q))'
    <3>1. PICK c \in SUBSET Node : c = Class(rho, own, q) /\ c = Class(rho, new, q)'
      <4>1. ASSUME NEW x \in Node
            PROVE  own[x] # 0 /\ rho[own[x]] = q <=> new[x] # 0 /\ rho[new[x]] = q
        BY <1>7, <1>8, <1>9, <2>1
      <4> QED BY <2>0, <4>1 DEF Class
    <3>2. Counted(q, c)
      BY <1>0, <3>1 DEF AllCounted
    <3>3. Counted(q, c)'
      BY <1>0, <1>1, <1>12, <2>1, <3>2, CountedStays
    <3> QED BY <3>1, <3>3 DEF Counted
  <2>2. Counted(top, Class(rho, new, top))'
    <3>1. PICK c \in SUBSET Node : c = Class(rho, own, top)
      BY DEF Class
    <3>2. PICK d \in SUBSET Node : d = c \cup {one} /\ d = Class(rho, new, top)'
      <4>1. ASSUME NEW x \in Node
            PROVE  x \in c \cup {one} <=> new[x] # 0 /\ rho[new[x]] = top
        BY <1>2, <1>16, <1>7, <1>8, <1>9, <3>1 DEF Class
      <4> QED BY <1>8, <2>0, <4>1 DEF Class
    <3>3. top \in RootSet
      BY <1>0, <1>2, <1>16, MapToRoots
    <3>4. Lists(RootStats(top), StatsOfComponent(c)) /\ c # {}
      BY <1>0, <3>1, <3>3 DEF AllCounted, Counted
    <3>5. one \notin c /\ two \in c
      BY <1>8, <3>1 DEF Class
    <3>6. Totals
      BY <1>0, ImageTotals
    <3>7. StatsOfComponent(d) = StatsAdd(StatsOfComponent(c), RunStats(one))
      <4>1. {one} \in SUBSET Node /\ {one} # {} /\ c \cap {one} = {}
        BY <1>8, <3>5
      <4>2. StatsOfComponent(c \cup {one}) = StatsAdd(StatsOfComponent(c), StatsOfComponent({one}))
        BY <3>4, <3>6, <4>1 DEF Totals
      <4>3. StatsOfComponent({one}) = RunStats(one)
        BY <1>8, <3>6 DEF Totals
      <4> QED BY <3>2, <4>2, <4>3
    <3>8. PICK s \in Stats : s = RootStats(top)
      <4>1. UsedRoot(top) /\ used_root_list_count \in 0 .. MaxBlobs
        BY <1>0, <1>2, <1>16, RootPlace DEF ForestInv, ForestType
      <4>2. blob_set[top].root_list_index \in 0 .. MaxBlobs - 1
        BY <4>1, Sizes DEF UsedRoot
      <4> QED BY <1>0, <4>2 DEF RootStats, ForestInv, ForestType
    <3>9. PICK t \in Stats : t = StatsOfComponent(c)
      BY <3>4, <3>6 DEF Totals
    <3>10. PICK u \in Stats : u = RunStats(one)
      BY <1>12
    <3>11. Lists(u, u)
      BY <3>10, Sizes DEF Lists, Stats
    <3>12. PICK a \in Stats : a = RootStats(top)'
      BY <1>12, <3>8, <3>10, SingletonListed
    <3>13. Lists(a, StatsAdd(s, u))
      BY <1>12, <3>8, <3>10, <3>12, SingletonListed
    <3>14. Lists(StatsAdd(s, u), StatsAdd(t, u))
      BY <3>4, <3>8, <3>9, <3>11, SumListed
    <3>15. Lists(a, StatsAdd(t, u))
      <4>1. PICK v \in Stats : v = StatsAdd(s, u)
        BY StatsAddType
      <4>2. PICK w \in Stats : w = StatsAdd(t, u)
        BY StatsAddType
      <4>3. a.max_y \in Int /\ v.max_y \in Int /\ w.max_y \in Int
        BY Sizes DEF Stats
      <4> QED BY <3>13, <3>14, <4>1, <4>2, <4>3 DEF Lists
    <3>16. Lists(RootStats(top)', StatsOfComponent(d))
      BY <3>7, <3>9, <3>10, <3>12, <3>15
    <3>17. Counted(top, d)'
      <4>1. one \in d /\ two \in d
        BY <3>2, <3>5
      <4> QED BY <1>0, <1>1, <1>8, <3>16, <4>1, NowCounted
    <3> QED BY <3>2, <3>17 DEF Counted
  <2> QED BY <1>11, <2>1, <2>2 DEF AllCounted
<1>14. Held(rho, new)'
  <2>1. new \in [Node -> Entry' \cup {0}] /\ (NeverFull' => NeverFull)
    BY <1>9, <1>11
  <2> QED BY <1>1, <1>2, <1>16, <1>3, <1>10, <1>11, <1>13, <2>1, UnionKeeps
<1> QED BY <1>14

\* Of two blobs that touch one takes in the other.
LEMMA AbsorbedKeeps ==
    ASSUME IInv, MorePairs, Overlap, Advance, NEW root, SetParents(root),
           pc \notin {"row", "done"}, pc' = "walk", finding' = "none", path' = <<>>,
           NEW rho, NEW own, Held(rho, own), a_parent # 0, b_parent # 0,
           NEW child \in Entry, NEW parent \in Entry, child # parent,
           IsRoot(child), IsRoot(parent), Absorbed(child, parent),
           {rho[a_parent], rho[b_parent]} = {child, parent}, root \in {child, parent}
    PROVE  \E rhoNew, new : Held(rhoNew, new)'
<1>0. /\ ImageOK /\ ScanInv /\ ForestInv /\ Maps(rho) /\ RowsHeld(rho, own)
      /\ AllCounted(rho, own) /\ own \in [Node -> Entry \cup {0}] /\ image' = image
  BY DEF IInv, ScanInv, ImageOK, Held, SetParents
<1>1. PICK rhoNew : Rehung(Entry, rhoNew, rho, child, parent)
  BY RehungExists
<1>2. /\ Maps(rhoNew)' /\ Entry' = Entry
      /\ RootSet' = RootSet \ {child} /\ child \in RootSet /\ parent \in RootSet
      /\ RootSet = {b \in Entry : IsRoot(b)}
  BY <1>0, <1>1, AbsorbedForest
<1>3. /\ \A b \in Entry : rhoNew[b] = IF rho[b] = child THEN parent ELSE rho[b]
      /\ \A b \in Entry : rho[b] \in RootSet
      /\ rho[child] = child /\ rho[parent] = parent
      /\ rhoNew[child] = parent /\ rhoNew[parent] = parent
  <2>1. \A b \in Entry : rhoNew[b] = IF rho[b] = child THEN parent ELSE rho[b]
    BY <1>1 DEF Rehung
  <2>2. RootsTo(Entry, RootSet, rho)
    BY <1>0, MapToRoots
  <2> QED BY <1>2, <2>1, <2>2 DEF RootsTo
<1>4. /\ NodeA \in Node /\ NodeB \in Node /\ NodeA # NodeB
      /\ own[NodeA] # 0 /\ own[NodeB] # 0
      /\ {rho[own[NodeA]], rho[own[NodeB]]} = {child, parent}
  <2>1. /\ NodeA \in Node /\ NodeB \in Node /\ NodeA # NodeB
        /\ RunHeld(prev[ai], NodeA, rho, own) /\ RunHeld(cur[bi], NodeB, rho, own)
    BY <1>0, PairHeld
  <2> QED BY <2>1 DEF RunHeld, a_parent, b_parent
<1>5. \A x \in Node : own[x] # 0 =>
         own[x] \in Entry /\ rhoNew[own[x]] = IF rho[own[x]] = child THEN parent ELSE rho[own[x]]
  BY <1>0, <1>3
<1>6. Unites(rhoNew, own, rho, own, root)
  <2>1. ASSUME NEW x \in {NodeA, NodeB} PROVE own[x] # 0 /\ rhoNew[own[x]] = rhoNew[root]
    BY <1>3, <1>4, <1>5
  <2>2. \A b, c \in Entry : rho[b] = rho[c] => rhoNew[b] = rhoNew[c]
    BY <1>3
  <2>3. ASSUME NEW x \in Node, NEW y \in Node, Joined(<<x, y>>, rhoNew, own)
        PROVE  Joined(<<x, y>>, rho, own) \/ (Near(x, rho, own) /\ Near(y, rho, own))
    <3>1. own[x] # 0 /\ own[y] # 0 /\ rhoNew[own[x]] = rhoNew[own[y]]
      BY <2>3 DEF Joined
    <3>2. CASE rho[own[x]] = rho[own[y]]
      BY <3>1, <3>2 DEF Joined
    <3>3. CASE rho[own[x]] # rho[own[y]]
      <4>1. rho[own[x]] \in {child, parent} /\ rho[own[y]] \in {child, parent}
        BY <1>5, <3>1, <3>3
      <4>2. \A z \in Node : own[z] # 0 /\ rho[own[z]] \in {child, parent} => Near(z, rho, own)
        BY <1>4 DEF Near, Joined
      <4> QED BY <3>1, <4>1, <4>2
    <3> QED BY <3>2, <3>3
  <2> QED BY <2>1, <2>2, <2>3 DEF Unites
<1>7. AllCounted(rhoNew, own)'
  <2>0. Node' = Node
    BY <1>0, SameImage
  <2>1. ASSUME NEW q \in RootSet, q # child, q # parent PROVE Counted(q, Class(rhoNew, own, q))'
    <3>1. PICK c \in SUBSET Node : c = Class(rho, own, q) /\ c = Class(rhoNew, own, q)'
      <4>1. ASSUME NEW x \in Node
            PROVE  own[x] # 0 /\ rho[own[x]] = q <=> own[x] # 0 /\ rhoNew[own[x]] = q
        BY <1>5, <2>1
      <4> QED BY <2>0, <4>1 DEF Class
    <3>2. Counted(q, c)
      BY <1>0, <3>1 DEF AllCounted
    <3>3. RootStats(q)' = RootStats(q)
      BY <1>2, <2>1 DEF Absorbed
    <3>4. Counted(q, c)'
      BY <1>0, <3>2, <3>3, CountedStays
    <3> QED BY <3>1, <3>4 DEF Counted
  <2>2. Counted(parent, Class(rhoNew, own, parent))'
    <3>1. PICK c \in SUBSET Node : c = Class(rho, own, parent)
      BY DEF Class
    <3>2. PICK d \in SUBSET Node : d = Class(rho, own, child)
      BY DEF Class
    <3>3. PICK e \in SUBSET Node : e = c \cup d /\ e = Class(rhoNew, own, parent)'
      <4>1. ASSUME NEW x \in Node
            PROVE  x \in c \cup d <=> own[x] # 0 /\ rhoNew[own[x]] = parent
        BY <1>5, <3>1, <3>2 DEF Class
      <4> QED BY <2>0, <4>1 DEF Class
    <3>4. Counted(parent, c) /\ Counted(child, d)
      BY <1>0, <1>2, <3>1, <3>2 DEF AllCounted
    <3>5. PICK m, n \in c : m # n
      BY <3>4 DEF Counted
    <3>6. c # {} /\ d # {} /\ c \cap d = {}
      BY <3>1, <3>2, <3>4 DEF Class, Counted
    <3>7. Totals
      BY <1>0, ImageTotals
    <3>8. StatsOfComponent(e) = StatsAdd(StatsOfComponent(c), StatsOfComponent(d))
      BY <3>3, <3>6, <3>7 DEF Totals
    <3>9. RootStats(parent)' = StatsAdd(RootStats(parent), RootStats(child))
      BY <1>2 DEF Absorbed
    <3>10. ASSUME NEW q \in RootSet PROVE RootStats(q) \in Stats
      <4>1. UsedRoot(q) /\ used_root_list_count \in 0 .. MaxBlobs
        BY <1>0, <1>2, RootPlace DEF ForestInv, ForestType
      <4>2. blob_set[q].root_list_index \in 0 .. MaxBlobs - 1
        BY <4>1, Sizes DEF UsedRoot
      <4> QED BY <1>0, <4>2 DEF RootStats, ForestInv, ForestType
    <3>11. StatsOfComponent(c) \in Stats /\ StatsOfComponent(d) \in Stats
      BY <3>6, <3>7 DEF Totals
    <3>12. Lists(StatsAdd(RootStats(parent), RootStats(child)),
                 StatsAdd(StatsOfComponent(c), StatsOfComponent(d)))
      <4>1. PICK a, b, s, t \in Stats :
               /\ a = RootStats(parent) /\ b = RootStats(child)
               /\ s = StatsOfComponent(c) /\ t = StatsOfComponent(d)
        BY <1>2, <3>10, <3>11
      <4>2. Lists(a, s) /\ Lists(b, t)
        BY <3>4, <4>1 DEF Counted
      <4>3. Lists(StatsAdd(a, b), StatsAdd(s, t))
        BY <4>2, SumListed
      <4> QED BY <4>1, <4>3
    <3>13. Counted(parent, e)'
      BY <1>0, <3>3, <3>5, <3>8, <3>9, <3>12, NowCounted
    <3> QED BY <3>3, <3>13 DEF Counted
  <2> QED BY <1>2, <2>1, <2>2 DEF AllCounted
<1>8. Held(rhoNew, own)'
  <2>1. own \in [Node -> Entry' \cup {0}]
    BY <1>0, <1>2
  <2>3. root # 0
    BY DEF Entry
  <2>2. NeverFull' => NeverFull
    BY DEF Absorbed, NeverFull
  <2> QED BY <1>2, <1>6, <1>7, <2>1, <2>2, <2>3, UnionKeeps
<1> QED BY <1>8

\* The second of the two roots is found.
LEMMA FoundSecondKeeps ==
    ASSUME IInv, IInv', NEW rho, NEW own, Held(rho, own), FoundSecond
    PROVE  \E rhoNew, new : Held(rhoNew, new)'
<1>0. /\ ImageOK /\ ScanInv /\ ForestInv /\ Maps(rho) /\ RowsHeld(rho, own) /\ FindHeld(rho)
      /\ AllJoined(rho, own)
  BY DEF IInv, ScanInv, ImageOK, Held
<1>1. /\ pc = "unwind" /\ path = <<>> /\ finding = "second"
      /\ Advance /\ pc' = "walk" /\ finding' = "none" /\ path' = <<>>
  BY DEF FoundSecond, Returned, UnionIsOver
<1>2. /\ MorePairs /\ Overlap /\ node \in Entry /\ IsRoot(node) /\ a_root \in Entry /\ IsRoot(a_root)
      /\ a_parent # 0 /\ b_parent # 0 /\ a_root = rho[a_parent] /\ rho[node] = rho[b_parent]
  BY <1>0, <1>1 DEF IInv, FindInv, FindPhase, FindHeld
<1>3. rho[node] = node
  BY <1>0, <1>2 DEF Maps, RootMap, IsRoot, Entry
<1>4. CASE a_root = node
  <2>1. UNCHANGED <<forest, rowVars>> /\ image' = image
    BY <1>4 DEF FoundSecond, rowVars
  <2>2. Joined(<<NodeA, NodeB>>, rho, own)
    <3>1. RunHeld(prev[ai], NodeA, rho, own) /\ RunHeld(cur[bi], NodeB, rho, own)
      BY <1>0, <1>2, PairHeld
    <3> QED BY <1>2, <1>3, <1>4, <3>1 DEF RunHeld, Joined, a_parent, b_parent
  <2>3. NeverFull' <=> NeverFull
    BY <2>1 DEF NeverFull, forest
  <2>4. AllJoined(rho, own)'
    BY <1>1, <1>2, <2>1, <2>2, <2>3, PassesPair
  <2>5. FindHeld(rho)'
    <3>1. Len(path') = 0
      BY <1>1
    <3> QED BY <1>1, <3>1 DEF FindHeld
  <2>6. Held(rho, own)'
    BY <2>1, <2>4, <2>5, SameForestKeeps
  <2> QED BY <2>6
<1>5. CASE a_root # node
  <2>1. PICK s, t \in Entry : s = a_root /\ t = node
    BY <1>2
  <2>2. PICK root : root = LinkRoot(s, t)
    OBVIOUS
  <2>3. Link(s, t) /\ SetParents(root) /\ root \in {s, t}
    BY <1>5, <2>1, <2>2 DEF FoundSecond, LinkRoot
  <2>4. Absorbed(s, t) \/ Absorbed(t, s)
    BY <1>0, <1>2, <1>5, <2>1, <2>3, LinkKeeps
  <2>5. {rho[a_parent], rho[b_parent]} = {s, t}
    BY <1>2, <1>3, <2>1
  <2>6. pc \notin {"row", "done"} /\ s # t /\ IsRoot(s) /\ IsRoot(t)
    BY <1>1, <1>2, <1>5, <2>1
  <2>7. CASE Absorbed(s, t)
    BY <1>1, <1>2, <2>3, <2>5, <2>6, <2>7, AbsorbedKeeps
  <2>8. CASE Absorbed(t, s)
    <3>1. {rho[a_parent], rho[b_parent]} = {t, s} /\ root \in {t, s} /\ t # s
      BY <2>3, <2>5, <2>6
    <3> QED BY <1>1, <1>2, <2>3, <2>6, <2>8, <3>1, AbsorbedKeeps
  <2> QED BY <2>4, <2>7, <2>8
<1> QED BY <1>4, <1>5

-----------------------------------------------------------------------------
(* All steps *)

HeldSome == \E rho, own : Held(rho, own)

\* Before the first row there is nothing to hold.
LEMMA InitHeld == Init => HeldSome
<1> SUFFICES ASSUME Init PROVE HeldSome
  OBVIOUS
<1>1. PICK own : own = [n \in Node |-> 0]
  OBVIOUS
<1>2. /\ Node = {} /\ Entry = {} /\ RootSet = {} /\ Len(image) = 0 /\ Len(path) = 0
      /\ prev = <<>> /\ cur = <<>> /\ finding = "none"
  BY DEF Init, Node, Entry, RootSet, RootsOf
<1>3. Contacts = {}
  BY <1>2 DEF Contacts
<1>4. own \in [Node -> Entry \cup {0}]
  BY <1>1
<1>5. Maps(own)
  BY <1>2 DEF Maps, RootMap, Entry
<1>6. RowsHeld(own, own) /\ FindHeld(own)
  BY <1>2 DEF RowsHeld, RowHeld, FindHeld
<1>7. Connected(own, own) /\ AllCounted(own, own) /\ AllJoined(own, own)
  BY <1>2, <1>3 DEF Connected, AllCounted, AllJoined
<1> QED BY <1>4, <1>5, <1>6, <1>7 DEF Held, HeldSome

\* Each step leaves or gives a pair of maps that holds.
LEMMA StepHeld == IInv /\ IInv' /\ HeldSome /\ [Next]_vars => HeldSome'
<1> SUFFICES ASSUME IInv, IInv', HeldSome, [Next]_vars PROVE HeldSome'
  OBVIOUS
<1>1. PICK rho, own : Held(rho, own)
  BY DEF HeldSome
<1>2. CASE NextRow
  BY <1>1, <1>2, NextRowKeeps DEF HeldSome
<1>3. CASE EndImage \/ EndRow \/ SkipPair \/ UnionLost \/ UNCHANGED vars
  BY <1>1, <1>3, BetweenKeeps DEF HeldSome
<1>4. CASE UnionNew
  BY <1>1, <1>4, UnionNewKeeps DEF HeldSome
<1>5. CASE UnionSingleton \/ UnionSets \/ Descend \/ FoundFirst
  BY <1>1, <1>5, CallKeeps DEF HeldSome
<1>6. CASE Unwind
  BY <1>1, <1>6, ReturnKeeps DEF HeldSome
<1>7. CASE FoundSingleton
  BY <1>1, <1>7, FoundSingletonKeeps DEF HeldSome
<1>8. CASE FoundSecond
  BY <1>1, <1>8, FoundSecondKeeps DEF HeldSome
<1> QED BY <1>2, <1>3, <1>4, <1>5, <1>6, <1>7, <1>8 DEF Next

-----------------------------------------------------------------------------
(* Between two rows *)

\* k has two elements, and stays together exactly where the edges hold it.
Block(C, k) ==
    /\ \E m, n \in k : m # n
    /\ Shut(C, k)
    /\ \A S : Shut(C, S) => \A m, n \in k : m \in S <=> n \in S

\* Two ways to say that a set has several elements.
LEMMA Several ==
    ASSUME NEW c, IsFiniteSet(c)
    PROVE  Cardinality(c) > 1 <=> \E m, n \in c : m # n
<1>1. Cardinality(c) \in Nat
  BY FS_CardinalityType
<1>2. ASSUME Cardinality(c) > 1 PROVE \E m, n \in c : m # n
  <2>1. SUFFICES ASSUME \A m, n \in c : m = n PROVE FALSE
    OBVIOUS
  <2>2. c # {}
    BY <1>2, FS_EmptySet
  <2>3. PICK x : c = {x}
    BY <2>1, <2>2
  <2> QED BY <1>2, <2>3, FS_Singleton
<1>3. ASSUME NEW m \in c, NEW n \in c, m # n PROVE Cardinality(c) > 1
  <2>1. Cardinality(c) # 0
    BY FS_EmptySet
  <2>2. Cardinality(c) # 1
    <3>1. SUFFICES ASSUME Cardinality(c) = 1 PROVE FALSE
      OBVIOUS
    <3>2. PICK x : c = {x}
      BY <3>1, FS_Singleton
    <3> QED BY <1>3, <3>2
  <2> QED BY <1>1, <2>1, <2>2
<1> QED BY <1>2, <1>3

\* The parts of several nodes are the blocks that meet all the edges.
LEMMA PartsAreBlocks ==
    ASSUME NEW N, NEW C, C \subseteq N \X N, NEW P, Parts(N, C, P),
           NEW K \in SUBSET (SUBSET N), \A k \in K : Block(C, k),
           \A e \in C : \E k \in K : e[1] \in k
    PROVE  {b \in P : \E m, n \in b : m # n} = K
<1>0. /\ P \in SUBSET (SUBSET N)
      /\ \A n \in N : \E b \in P : n \in b
      /\ \A b \in P : Shut(C, b)
      /\ \A S : Shut(C, S) => \A b \in P : \A m, n \in b : m \in S <=> n \in S
  BY DEF Parts
<1>1. ASSUME NEW b \in P, NEW k \in K, NEW n, n \in b, n \in k PROVE b = k
  <2>1. Shut(C, b) /\ Shut(C, k)
    BY <1>0 DEF Block
  <2>2. \A x \in b : x \in k
    BY <1>0, <1>1, <2>1
  <2>3. \A x \in k : x \in b
    BY <1>1, <2>1 DEF Block
  <2> QED BY <2>2, <2>3
<1>2. ASSUME NEW k \in K PROVE k \in P /\ \E m, n \in k : m # n
  <2>1. PICK m, n \in k : m # n
    BY DEF Block
  <2>2. PICK b \in P : m \in b
    BY <1>0, <2>1
  <2> QED BY <1>1, <2>1, <2>2
<1>3. ASSUME NEW b \in P, NEW m \in b, NEW n \in b, m # n PROVE b \in K
  <2>1. ~Shut(C, {m})
    BY <1>0, <1>3
  <2>2. PICK e \in C : ~(e[1] \in {m} <=> e[2] \in {m})
    BY <2>1 DEF Shut
  <2>3. PICK k \in K : e[1] \in k
    BY <2>2
  <2>4. e[2] \in k
    BY <2>3 DEF Block, Shut
  <2>5. m \in k
    BY <2>2, <2>3, <2>4
  <2> QED BY <1>1, <1>3, <2>5
<1> QED BY <1>2, <1>3

\* The classes of two roots have no run in common, and each class is a block.
LEMMA ClassesAreBlocks ==
    ASSUME IInv, NEW rho, NEW own, Held(rho, own), pc \in {"row", "done"}, NeverFull
    PROVE  /\ \A r \in RootSet : Class(rho, own, r) \in SUBSET Node /\ Block(Contacts, Class(rho, own, r))
           /\ \A e \in Contacts : \E r \in RootSet : e[1] \in Class(rho, own, r)
           /\ \A q, r \in RootSet : Class(rho, own, q) = Class(rho, own, r) => q = r
<1>0. /\ ForestInv /\ Maps(rho) /\ own \in [Node -> Entry \cup {0}]
      /\ Connected(rho, own) /\ AllCounted(rho, own)
  BY DEF IInv, Held
<1>1. \A b \in Entry : rho[b] \in RootSet
  <2>1. RootsTo(Entry, RootSet, rho)
    BY <1>0, MapToRoots
  <2> QED BY <2>1 DEF RootsTo
<1>2. \A e \in Contacts : e[1] \in Node /\ e[2] \in Node /\ Joined(e, rho, own)
  <2>1. \A e \in Contacts : e[1] \in Node /\ e[2] \in Node
    BY DEF Contacts
  <2>2. \A e \in Contacts : Joined(e, rho, own)
    BY DEF Held, AllJoined, Passed
  <2> QED BY <2>1, <2>2
<1>3. ASSUME NEW r \in RootSet
      PROVE  Class(rho, own, r) \in SUBSET Node /\ Block(Contacts, Class(rho, own, r))
  <2>1. PICK k \in SUBSET Node : k = Class(rho, own, r)
    BY DEF Class
  <2>2. \E m, n \in k : m # n
    BY <1>0, <2>1 DEF AllCounted, Counted
  <2>3. Shut(Contacts, k)
    BY <1>2, <2>1 DEF Shut, Class, Joined
  <2>4. ASSUME NEW S, Shut(Contacts, S), NEW m \in k, NEW n \in k PROVE m \in S <=> n \in S
    BY <1>0, <2>1, <2>4 DEF Connected, Class
  <2> QED BY <2>1, <2>2, <2>3, <2>4 DEF Block
<1>4. ASSUME NEW e \in Contacts PROVE \E r \in RootSet : e[1] \in Class(rho, own, r)
  <2>1. e[1] \in Node /\ own[e[1]] # 0
    BY <1>2 DEF Joined
  <2>2. own[e[1]] \in Entry
    BY <1>0, <2>1
  <2>3. rho[own[e[1]]] \in RootSet
    BY <1>1, <2>2
  <2> QED BY <2>1, <2>3 DEF Class
<1>5. ASSUME NEW q \in RootSet, NEW r \in RootSet, Class(rho, own, q) = Class(rho, own, r)
      PROVE  q = r
  <2>1. PICK n : n \in Class(rho, own, q)
    BY <1>0 DEF AllCounted, Counted
  <2> QED BY <1>5, <2>1 DEF Class
<1> QED BY <1>3, <1>4, <1>5

\* The components of the image are the classes of the roots.
LEMMA ComponentsAreClasses ==
    ASSUME IInv, NEW rho, NEW own, Held(rho, own), pc \in {"row", "done"}, NeverFull
    PROVE  Components = {Class(rho, own, r) : r \in RootSet}
<1> DEFINE K == {Class(rho, own, r) : r \in RootSet}
           P == FoldSet(MergeBlocks, {{n} : n \in Node}, Contacts)
<1>0. ImageOK /\ IsFiniteSet(Node) /\ IsFiniteSet(Contacts) /\ Contacts \subseteq Node \X Node
  <2>1. ImageOK
    BY DEF IInv, ScanInv, ImageOK
  <2> QED BY <2>1, NodesFinite DEF Contacts
<1>1. Parts(Node, Contacts, P)
  BY <1>0, FoldParts
<1>2. /\ K \in SUBSET (SUBSET Node) /\ \A k \in K : Block(Contacts, k)
      /\ \A e \in Contacts : \E k \in K : e[1] \in k
  BY ClassesAreBlocks
<1>3. Components = {c \in P : Cardinality(c) > 1}
  BY DEF Components
<1> HIDE DEF P, K
<1>4. {b \in P : \E m, n \in b : m # n} = K
  BY <1>0, <1>1, <1>2, PartsAreBlocks
<1>5. \A c \in P : Cardinality(c) > 1 <=> \E m, n \in c : m # n
  <2>1. ASSUME NEW c \in P PROVE IsFiniteSet(c)
    <3>1. c \in SUBSET Node
      BY <1>1 DEF Parts
    <3> QED BY <1>0, <3>1, FS_Subset
  <2> QED BY <2>1, Several
<1>6. Components = K
  BY <1>3, <1>4, <1>5
<1> QED BY <1>6 DEF K

\* The blobs are the components.
LEMMA HeldAreComponents == IInv /\ HeldSome => BlobsAreComponents
<1> SUFFICES ASSUME IInv, HeldSome, pc = "row", NeverFull
             PROVE  /\ Cardinality(Components) = used_root_list_count
                    /\ {NoBottom(Listed[rx]) : rx \in DOMAIN Listed}
                          = {NoBottom(StatsOfComponent(c)) : c \in Components}
  BY DEF BlobsAreComponents
<1>0. ForestInv
  BY DEF IInv
<1>1. PICK rho, own : Held(rho, own)
  BY DEF HeldSome
<1>2. PICK f : f = [r \in RootSet |-> Class(rho, own, r)]
  OBVIOUS
<1>3. \A r \in RootSet : f[r] = Class(rho, own, r)
  BY <1>2
<1>4. Components = {f[r] : r \in RootSet}
  <2>1. Components = {Class(rho, own, r) : r \in RootSet}
    BY <1>1, ComponentsAreClasses
  <2> QED BY <1>3, <2>1
<1>5. Cardinality(Components) = used_root_list_count
  <2>1. \A q, r \in RootSet : f[q] = f[r] => q = r
    BY <1>1, <1>3, ClassesAreBlocks
  <2>2. f \in [RootSet -> Components]
    BY <1>2, <1>3, <1>4
  <2>3. \A c \in Components : \E r \in RootSet : f[r] = c
    BY <1>4
  <2>4. f \in Bijection(RootSet, Components)
    BY <2>1, <2>2, <2>3 DEF Bijection, Injection, Surjection, IsInjective
  <2>5. ExistsBijection(RootSet, Components)
    BY <2>4 DEF ExistsBijection
  <2>6. IsFiniteSet(RootSet) /\ Cardinality(RootSet) = used_root_list_count
    BY <1>0, RootCount
  <2> QED BY <2>5, <2>6, FS_Bijection
<1>6. ASSUME NEW r \in RootSet PROVE NoBottom(RootStats(r)) = NoBottom(StatsOfComponent(f[r]))
  BY <1>1, <1>3 DEF Held, AllCounted, Counted, Lists
<1>7. DOMAIN Listed = 0 .. used_root_list_count - 1
      /\ \A rx \in DOMAIN Listed : Listed[rx] = root_info[rx].stats
  BY DEF Listed
<1>8. ASSUME NEW r \in RootSet
      PROVE  \E rx \in DOMAIN Listed : Listed[rx] = RootStats(r)
  <2>1. r \in Entry /\ IsRoot(r)
    BY DEF RootSet, RootsOf, Entry, IsRoot
  <2>2. blob_set[r].root_list_index \in 0 .. used_root_list_count - 1
    BY <1>0, <2>1, RootPlace DEF UsedRoot
  <2> QED BY <1>7, <2>2 DEF RootStats
<1>9. ASSUME NEW rx \in DOMAIN Listed
      PROVE  \E r \in RootSet : Listed[rx] = RootStats(r)
  <2>1. PICK r : r = root_info[rx].set_index
    OBVIOUS
  <2>2. r \in Entry /\ IsRoot(r) /\ blob_set[r].root_list_index = rx
    BY <1>0, <1>7, <2>1 DEF ForestInv, RootsListed
  <2>3. r \in RootSet
    BY <2>2 DEF RootSet, RootsOf, Entry, IsRoot
  <2> QED BY <1>7, <2>2, <2>3 DEF RootStats
<1>10. ASSUME NEW rx \in DOMAIN Listed
       PROVE  \E c \in Components : NoBottom(Listed[rx]) = NoBottom(StatsOfComponent(c))
  BY <1>4, <1>6, <1>9
<1>11. ASSUME NEW c \in Components
       PROVE  \E rx \in DOMAIN Listed : NoBottom(Listed[rx]) = NoBottom(StatsOfComponent(c))
  BY <1>4, <1>6, <1>8
<1>12. {NoBottom(Listed[rx]) : rx \in DOMAIN Listed} = {NoBottom(StatsOfComponent(c)) : c \in Components}
  BY <1>10, <1>11
<1> QED BY <1>5, <1>12

\* For every image and every capacity of the tables: as long as no set was
\* refused, the list of blobs has after each row one entry for each component of
\* the runs read so far, with its pixel count, its coordinate sums and its box
\* (the lower edge excepted).  So yuv_union_find loses no contact of two runs,
\* joins nothing that does not touch, and counts each run once.
THEOREM BlobsAlwaysComponents == Spec => []BlobsAreComponents
<1>1. Init => IInv /\ HeldSome
  BY InitHolds, InitHeld
<1>2. (IInv /\ HeldSome) /\ [Next]_vars => (IInv /\ HeldSome)'
  BY StepKeeps, StepHeld
<1>3. IInv /\ HeldSome => BlobsAreComponents
  BY HeldAreComponents
<1> QED BY <1>1, <1>2, <1>3, PTL DEF Spec

-----------------------------------------------------------------------------
(* Sums of numbers, as MapThenSumSet adds them up *)

SumsUp(it, S, w) ==
    it = [s \in SUBSET S |-> IF s = {} THEN 0
                             ELSE LET x == CHOOSE x \in s : TRUE IN w[x] + it[s \ {x}]]

Plus == [p \in Nat \X Nat |-> p[1] + p[2]]

\* Numbers add up in any order.
LEMMA PlusAdds == Adds(Nat, Plus)
<1>1. \A a, b \in Nat : Plus[<<a, b>>] = a + b
  BY DEF Plus
<1>2. Plus \in [Nat \X Nat -> Nat]
  BY DEF Plus
<1>3. \A a, b, c \in Nat : (a + b) + c = a + (b + c) /\ a + b \in Nat /\ b + c \in Nat /\ a + b = b + a
  OBVIOUS
<1> HIDE DEF Plus
<1> QED BY <1>1, <1>2, <1>3 DEF Adds

\* There is a sum.
LEMMA SumExists ==
    ASSUME NEW S, IsFiniteSet(S), NEW w \in [S -> Nat]
    PROVE  \E it : SumsUp(it, S, w)
<1>1. PICK ch : ch = Any(S)
  OBVIOUS
<1>2. PICK f : IsFold(f, S, 0, AddTo(S, Nat, Plus, w), ch)
  BY <1>1, AnyPicks, FoldedFolds
<1>3. /\ f[{}] = 0
      /\ \A s \in SUBSET S : f[s] \in Nat
      /\ \A s \in SUBSET S : s # {} => AddsLast(f, Plus, w, ch, s)
  BY <1>1, <1>2, AnyPicks, PlusAdds, FoldTyped
<1>4. PICK it : it = [s \in SUBSET S |-> f[s]]
  OBVIOUS
<1>5. ASSUME NEW s \in SUBSET S, s # {}
      PROVE  \E x \in s : x = (CHOOSE y \in s : TRUE) /\ f[s] = w[x] + it[s \ {x}]
  <2>1. PICK x \in s : x = ch[s] /\ f[s] = Plus[<<f[s \ {x}], w[x]>>]
    BY <1>3, <1>5 DEF AddsLast
  <2>2. x = CHOOSE y \in s : TRUE
    BY <1>1, <2>1 DEF Any
  <2>3. PICK m \in Nat : m = f[s \ {x}] /\ m = it[s \ {x}]
    BY <1>3, <1>4
  <2>4. Plus[<<m, w[x]>>] = w[x] + m
    BY DEF Plus
  <2> QED BY <2>1, <2>2, <2>3, <2>4
<1>6. ASSUME NEW s \in SUBSET S
      PROVE  f[s] = IF s = {} THEN 0
                    ELSE LET x == CHOOSE x \in s : TRUE IN w[x] + it[s \ {x}]
  BY <1>3, <1>5
<1>7. SumsUp(it, S, w)
  BY <1>4, <1>6 DEF SumsUp
<1> QED BY <1>7

SumsListed(it, S) ==
    it = [s \in SUBSET S |-> IF s = {} THEN 0
                             ELSE LET x == CHOOSE x \in s : TRUE IN Listed[x].count + it[s \ {x}]]

SumsWhole(it, S) ==
    it = [s \in SUBSET S |-> IF s = {} THEN 0
                             ELSE LET x == CHOOSE x \in s : TRUE
                                  IN  StatsOfComponent(x).count + it[s \ {x}]]

\* The two sums of FullListSound, as TLC's definition of them.
LEMMA ListedSum ==
    ASSUME NEW S
    PROVE  MapThenSumSet(LAMBDA rx : Listed[rx].count, S) = (CHOOSE it : SumsListed(it, S))[S]
BY DEF MapThenSumSet, MapThenFoldSet, SumsListed

\* The sum over the components.
LEMMA WholeSum ==
    ASSUME NEW S
    PROVE  MapThenSumSet(LAMBDA c : StatsOfComponent(c).count, S) = (CHOOSE it : SumsWhole(it, S))[S]
BY DEF MapThenSumSet, MapThenFoldSet, SumsWhole

\* The sum of the list is a sum of weights.
LEMMA ListedAdded ==
    ASSUME NEW S, IsFiniteSet(S), NEW w \in [S -> Nat], \A x \in S : w[x] = Listed[x].count
    PROVE  \E it : SumsUp(it, S, w) /\ MapThenSumSet(LAMBDA rx : Listed[rx].count, S) = it[S]
<1>1. ASSUME NEW it PROVE SumsUp(it, S, w) <=> SumsListed(it, S)
  <2>1. ASSUME NEW s \in SUBSET S
        PROVE  (IF s = {} THEN 0 ELSE LET x == CHOOSE x \in s : TRUE IN w[x] + it[s \ {x}])
                  = (IF s = {} THEN 0
                     ELSE LET x == CHOOSE x \in s : TRUE IN Listed[x].count + it[s \ {x}])
    OBVIOUS
  <2> QED BY <2>1 DEF SumsUp, SumsListed
<1>2. \E it : SumsListed(it, S)
  BY <1>1, SumExists
<1>3. PICK h : h = CHOOSE it : SumsListed(it, S)
  OBVIOUS
<1>4. SumsListed(h, S)
  BY <1>2, <1>3
<1> QED BY <1>1, <1>3, <1>4, ListedSum

\* The sum over the components is a sum of weights.
LEMMA WholeAdded ==
    ASSUME NEW S, IsFiniteSet(S), NEW w \in [S -> Nat], \A x \in S : w[x] = StatsOfComponent(x).count
    PROVE  \E it : SumsUp(it, S, w) /\ MapThenSumSet(LAMBDA c : StatsOfComponent(c).count, S) = it[S]
<1>1. ASSUME NEW it PROVE SumsUp(it, S, w) <=> SumsWhole(it, S)
  <2>1. ASSUME NEW s \in SUBSET S
        PROVE  (IF s = {} THEN 0 ELSE LET x == CHOOSE x \in s : TRUE IN w[x] + it[s \ {x}])
                  = (IF s = {} THEN 0
                     ELSE LET x == CHOOSE x \in s : TRUE IN StatsOfComponent(x).count + it[s \ {x}])
    OBVIOUS
  <2> QED BY <2>1 DEF SumsUp, SumsWhole
<1>2. \E it : SumsWhole(it, S)
  BY <1>1, SumExists
<1>3. PICK h : h = CHOOSE it : SumsWhole(it, S)
  OBVIOUS
<1>4. SumsWhole(h, S)
  BY <1>2, <1>3
<1> QED BY <1>1, <1>3, <1>4, WholeSum

-----------------------------------------------------------------------------
(* Sets of runs within one another *)

\* g names sets of runs that are not empty and have no run in common.
Apart(g, D) ==
    /\ g \in [D -> SUBSET Node]
    /\ \A x \in D : g[x] # {}
    /\ \A x, y \in D : x # y => g[x] \cap g[y] = {}

Together(g, s) == UNION {g[x] : x \in s}

\* Sets of runs together are a set of runs.
LEMMA TogetherRuns ==
    ASSUME NEW g, NEW s, \A x \in s : g[x] \in SUBSET Node
    PROVE  Together(g, s) \in SUBSET Node
BY DEF Together

\* What h sums up over s is the pixel count of the runs of s together.
CountsUp(h, g, s) ==
    IF s = {} THEN h[s] = 0 ELSE h[s] = StatsOfComponent(Together(g, s)).count

\* The pixel counts of sets that are apart add up to that of all together.
LEMMA CountsApart ==
    ASSUME Totals, NEW D, IsFiniteSet(D), NEW g, Apart(g, D),
           NEW w, \A x \in D : w[x] = StatsOfComponent(g[x]).count,
           NEW h, SumsUp(h, D, w)
    PROVE  \A s \in SUBSET D : CountsUp(h, g, s)
<1>0. \A s \in SUBSET D :
         h[s] = IF s = {} THEN 0 ELSE LET x == CHOOSE x \in s : TRUE IN w[x] + h[s \ {x}]
  BY DEF SumsUp
<1>1. PICK U : U = {s \in SUBSET D : CountsUp(h, g, s)}
  OBVIOUS
<1>2. {} \in U
  BY <1>0, <1>1 DEF CountsUp
<1>3. ASSUME NEW k \in Nat, \A s \in SUBSET D : Cardinality(s) = k => s \in U,
             NEW s \in SUBSET D, Cardinality(s) = k + 1
      PROVE  CountsUp(h, g, s)
  <2>1. IsFiniteSet(s) /\ s # {}
    BY <1>3, FS_Subset, FS_EmptySet
  <2>2. PICK x \in s : x = CHOOSE y \in s : TRUE
    BY <2>1
  <2>3. PICK z \in SUBSET D : z = s \ {x}
    OBVIOUS
  <2>4. h[s] = w[x] + h[z]
    BY <1>0, <2>1, <2>2, <2>3
  <2>5. CountsUp(h, g, z)
    <3>1. Cardinality(z) = Cardinality(s) - 1
      BY <2>1, <2>3, FS_RemoveElement
    <3>2. Cardinality(z) = k
      BY <1>3, <3>1
    <3> QED BY <1>1, <1>3, <3>2
  <2>6. PICK c \in SUBSET Node : c = g[x] /\ c # {}
    BY DEF Apart
  <2>7. StatsOfComponent(c) \in Stats /\ w[x] = StatsOfComponent(c).count
    BY <2>6 DEF Totals
  <2>8. CASE z = {}
    <3>1. Together(g, s) = c
      BY <2>3, <2>6, <2>8 DEF Together
    <3>2. h[z] = 0
      BY <2>5, <2>8 DEF CountsUp
    <3>3. StatsOfComponent(c).count \in Nat
      BY <2>7 DEF Stats
    <3> QED BY <2>1, <2>4, <2>7, <3>1, <3>2, <3>3 DEF CountsUp
  <2>9. CASE z # {}
    <3>1. PICK d \in SUBSET Node : d = Together(g, z)
      <4>1. \A y \in z : g[y] \in SUBSET Node
        BY DEF Apart
      <4> QED BY <4>1, TogetherRuns
    <3>2. d # {}
      BY <2>9, <3>1 DEF Together, Apart
    <3>3. c \cap d = {}
      BY <2>3, <2>6, <3>1 DEF Together, Apart
    <3>4. Together(g, s) = c \cup d
      BY <2>3, <2>6, <3>1 DEF Together
    <3>5. StatsOfComponent(c \cup d) = StatsAdd(StatsOfComponent(c), StatsOfComponent(d))
      BY <2>6, <3>2, <3>3 DEF Totals
    <3>6. StatsOfComponent(c \cup d).count = StatsOfComponent(c).count + StatsOfComponent(d).count
      <4>1. PICK a, b, u : a = StatsOfComponent(c) /\ b = StatsOfComponent(d) /\ u = StatsOfComponent(c \cup d)
        OBVIOUS
      <4>2. u = StatsAdd(a, b)
        BY <3>5, <4>1
      <4> QED BY <4>1, <4>2, StatsAddFields
    <3>7. h[z] = StatsOfComponent(d).count
      BY <2>5, <2>9, <3>1 DEF CountsUp
    <3> QED BY <2>1, <2>4, <2>7, <3>4, <3>6, <3>7 DEF CountsUp
  <2> QED BY <2>8, <2>9
<1>4. BySize(U, D)
  BY <1>1, <1>3 DEF BySize
<1>5. SUBSET D \subseteq U
  BY <1>2, <1>4, AllSizes
<1> QED BY <1>1, <1>5

\* Less is more inside.
Inside(a, b) ==
    /\ a.count <= b.count
    /\ b.min_x <= a.min_x /\ a.max_x <= b.max_x
    /\ b.min_y <= a.min_y /\ a.max_y <= b.max_y

\* Statistics lie inside their sum.
LEMMA SumInside ==
    ASSUME NEW a \in Stats, NEW b \in Stats
    PROVE  Inside(a, StatsAdd(a, b))
<1>1. PICK s : s = StatsAdd(a, b)
  OBVIOUS
<1>2. /\ s.min_x = Lower(a.min_x, b.min_x) /\ s.max_x = Higher(a.max_x, b.max_x)
      /\ s.min_y = Lower(a.min_y, b.min_y) /\ s.max_y = Higher(a.max_y, b.max_y)
      /\ s.count = a.count + b.count
  BY <1>1, StatsAddFields
<1>3. /\ a.min_x \in Nat /\ a.max_x \in Nat /\ a.min_y \in Nat /\ a.max_y \in Nat /\ a.count \in Nat
      /\ b.min_x \in Nat /\ b.max_x \in Nat /\ b.min_y \in Nat /\ b.max_y \in Nat /\ b.count \in Nat
  BY Sizes DEF Stats
<1>4. \A m, n \in Nat : Lower(m, n) <= m /\ m <= Higher(m, n) /\ m <= m + n
  BY DEF Lower, Higher
<1> QED BY <1>1, <1>2, <1>3, <1>4 DEF Inside

\* The statistics of some runs of a set lie inside those of the set.
LEMMA PartInside ==
    ASSUME Totals, NEW c \in SUBSET Node, c # {}, NEW d \in SUBSET Node, c \subseteq d
    PROVE  Inside(StatsOfComponent(c), StatsOfComponent(d))
<1>1. PICK a \in Stats : a = StatsOfComponent(c)
  BY DEF Totals
<1>2. CASE d = c
  <2>1. /\ a.min_x \in Int /\ a.max_x \in Int /\ a.min_y \in Int /\ a.max_y \in Int /\ a.count \in Int
    BY Sizes DEF Stats
  <2> QED BY <1>1, <1>2, <2>1 DEF Inside
<1>3. CASE d # c
  <2>1. PICK e \in SUBSET Node : e = d \ c
    OBVIOUS
  <2>2. e # {} /\ c \cap e = {} /\ d = c \cup e
    BY <1>3, <2>1
  <2>3. PICK b \in Stats : b = StatsOfComponent(e)
    BY <2>2 DEF Totals
  <2>4. StatsOfComponent(d) = StatsAdd(a, b)
    BY <1>1, <2>2, <2>3 DEF Totals
  <2> QED BY <1>1, <2>4, SumInside
<1> QED BY <1>2, <1>3

-----------------------------------------------------------------------------
(* The list between two rows, when sets may have been refused *)

\* The components are apart, and every class is part of one.
LEMMA ClassesInComponents ==
    ASSUME IInv, NEW rho, NEW own, Held(rho, own)
    PROVE  /\ IsFiniteSet(Components) /\ Components \in SUBSET (SUBSET Node)
           /\ \A c \in Components : c # {}
           /\ \A c, d \in Components : c # d => c \cap d = {}
           /\ \A r \in RootSet : \E c \in Components : Class(rho, own, r) \subseteq c
<1> DEFINE P == FoldSet(MergeBlocks, {{n} : n \in Node}, Contacts)
<1>0. ImageOK /\ IsFiniteSet(Node) /\ IsFiniteSet(Contacts) /\ Contacts \subseteq Node \X Node
  <2>1. ImageOK
    BY DEF IInv, ScanInv, ImageOK
  <2> QED BY <2>1, NodesFinite DEF Contacts
<1>1. Parts(Node, Contacts, P)
  BY <1>0, FoldParts
<1>2. Components = {c \in P : Cardinality(c) > 1}
  BY DEF Components
<1> HIDE DEF P
<1>3. /\ P \in SUBSET (SUBSET Node)
      /\ \A n \in Node : \E b \in P : n \in b
      /\ \A b \in P : b # {} /\ Shut(Contacts, b)
      /\ \A b, c \in P : \A n \in b : n \in c => b = c
  BY <1>1 DEF Parts
<1>4. IsFiniteSet(Components)
  <2>1. Components \in SUBSET (SUBSET Node)
    BY <1>2, <1>3
  <2>2. IsFiniteSet(SUBSET Node)
    BY <1>0, FS_SUBSET
  <2> QED BY <2>1, <2>2, FS_Subset
<1>5. ASSUME NEW r \in RootSet PROVE \E c \in Components : Class(rho, own, r) \subseteq c
  <2>1. PICK k \in SUBSET Node : k = Class(rho, own, r)
    BY DEF Class
  <2>2. PICK m, n \in k : m # n
    BY <2>1 DEF Held, AllCounted, Counted
  <2>3. PICK c \in P : m \in c
    BY <1>3, <2>2
  <2>4. \A x \in k : own[x] # 0 /\ rho[own[x]] = r /\ x \in Node
    BY <2>1 DEF Class
  <2>5. \A x \in k : x \in c
    BY <1>3, <2>2, <2>3, <2>4 DEF Held, Connected
  <2>6. Cardinality(c) > 1
    <3>1. c \in SUBSET Node
      BY <1>3
    <3>2. IsFiniteSet(c)
      BY <1>0, <3>1, FS_Subset
    <3> QED BY <2>2, <2>5, <3>2, Several
  <2> QED BY <1>2, <2>1, <2>3, <2>5, <2>6
<1> QED BY <1>2, <1>3, <1>4, <1>5

\* The counts of the list are those of classes of runs, one of each root.
LEMMA ListedCounts ==
    ASSUME IInv, NEW rho, NEW own, Held(rho, own)
    PROVE  \E g : /\ Apart(g, DOMAIN Listed)
                  /\ \A rx \in DOMAIN Listed :
                        /\ \E c \in Components : g[rx] \subseteq c
                        /\ Listed[rx] \in Stats
                        /\ Lists(Listed[rx], StatsOfComponent(g[rx]))
<1>0. ForestInv /\ AllCounted(rho, own)
  BY DEF IInv, Held
<1>1. PICK D : D = DOMAIN Listed
  OBVIOUS
<1>2. PICK root : root = [rx \in D |-> root_info[rx].set_index]
  OBVIOUS
<1>3. PICK g : g = [rx \in D |-> Class(rho, own, root[rx])]
  OBVIOUS
<1>4. D = 0 .. used_root_list_count - 1 /\ \A rx \in D : Listed[rx] = root_info[rx].stats
  BY <1>1 DEF Listed
<1>5. ASSUME NEW rx \in D
      PROVE  /\ root[rx] \in RootSet /\ Listed[rx] = RootStats(root[rx]) /\ Listed[rx] \in Stats
             /\ blob_set[root[rx]].root_list_index = rx
  <2>1. PICK r : r = root[rx] /\ r = root_info[rx].set_index
    BY <1>2
  <2>2. r \in Entry /\ IsRoot(r) /\ blob_set[r].root_list_index = rx
    BY <1>0, <1>4, <2>1 DEF ForestInv, RootsListed
  <2>3. r \in RootSet
    BY <2>2 DEF RootSet, RootsOf, Entry, IsRoot
  <2>4. Listed[rx] = RootStats(r)
    BY <1>4, <2>2 DEF RootStats
  <2>5. root_info[rx].stats \in Stats
    <3>1. rx \in 0 .. MaxBlobs - 1
      BY <1>0, <1>4, Sizes DEF ForestInv, ForestType
    <3> QED BY <1>0, <3>1 DEF ForestInv, ForestType
  <2> QED BY <1>4, <2>1, <2>2, <2>3, <2>4, <2>5
<1>6. ASSUME NEW rx \in D
      PROVE  /\ g[rx] \in SUBSET Node /\ g[rx] # {}
             /\ Lists(Listed[rx], StatsOfComponent(g[rx]))
             /\ \E c \in Components : g[rx] \subseteq c
  <2>1. PICK k \in SUBSET Node : k = g[rx] /\ k = Class(rho, own, root[rx])
    BY <1>3 DEF Class
  <2>2. Counted(root[rx], k)
    BY <1>0, <1>5, <2>1 DEF AllCounted
  <2>3. k # {} /\ Lists(RootStats(root[rx]), StatsOfComponent(k))
    BY <2>2 DEF Counted
  <2>4. \E c \in Components : k \subseteq c
    BY <1>5, <2>1, ClassesInComponents
  <2> QED BY <1>5, <2>1, <2>3, <2>4
<1>7. ASSUME NEW x \in D, NEW y \in D, x # y PROVE g[x] \cap g[y] = {}
  <2>1. root[x] # root[y]
    BY <1>5, <1>7
  <2> QED BY <1>3, <2>1 DEF Class
<1>8. g \in [D -> SUBSET Node]
  BY <1>3, <1>6
<1>9. Apart(g, D)
  BY <1>6, <1>7, <1>8 DEF Apart
<1> QED BY <1>1, <1>5, <1>6, <1>9

\* No blob reaches beyond its component, and no pixel counts twice.
LEMMA HeldIsSound == IInv /\ HeldSome => FullListSound
<1> SUFFICES ASSUME IInv, HeldSome
             PROVE  /\ MapThenSumSet(LAMBDA rx : Listed[rx].count, DOMAIN Listed)
                          <= MapThenSumSet(LAMBDA c : StatsOfComponent(c).count, Components)
                    /\ \A rx \in DOMAIN Listed : \E c \in Components :
                          LET whole == StatsOfComponent(c)
                          IN  /\ Listed[rx].count <= whole.count
                              /\ whole.min_x <= Listed[rx].min_x /\ Listed[rx].max_x <= whole.max_x
                              /\ whole.min_y <= Listed[rx].min_y /\ Listed[rx].max_y <= whole.max_y
  BY DEF FullListSound
<1>0. Totals
  <2>1. ImageOK
    BY DEF IInv, ScanInv, ImageOK
  <2> QED BY <2>1, ImageTotals
<1>1. PICK rho, own : Held(rho, own)
  BY DEF HeldSome
<1>2. PICK g : /\ Apart(g, DOMAIN Listed)
               /\ \A rx \in DOMAIN Listed :
                     /\ \E c \in Components : g[rx] \subseteq c
                     /\ Listed[rx] \in Stats
                     /\ Lists(Listed[rx], StatsOfComponent(g[rx]))
  BY <1>1, ListedCounts
<1>3. PICK D : D = DOMAIN Listed
  OBVIOUS
<1>4. /\ IsFiniteSet(Components) /\ Components \in SUBSET (SUBSET Node)
      /\ \A c \in Components : c # {}
      /\ \A c, d \in Components : c # d => c \cap d = {}
  BY <1>1, ClassesInComponents
<1>5. ASSUME NEW rx \in D
      PROVE  /\ Listed[rx].count = StatsOfComponent(g[rx]).count /\ Listed[rx].count \in Nat
             /\ \E c \in Components : Inside(Listed[rx], StatsOfComponent(c))
  <2>1. PICK k \in SUBSET Node : k = g[rx] /\ k # {}
    BY <1>2, <1>3 DEF Apart
  <2>2. PICK c \in Components : k \subseteq c
    BY <1>2, <1>3, <2>1
  <2>3. PICK a \in Stats : a = Listed[rx]
    BY <1>2, <1>3
  <2>4. PICK s \in Stats : s = StatsOfComponent(k)
    BY <1>0, <2>1 DEF Totals
  <2>5. PICK t \in Stats : t = StatsOfComponent(c)
    BY <1>0, <1>4 DEF Totals
  <2>6. Inside(s, t)
    BY <1>0, <1>4, <2>1, <2>2, <2>4, <2>5, PartInside
  <2>7. Lists(a, s)
    BY <1>2, <1>3, <2>1, <2>3, <2>4
  <2>8. /\ a.min_x = s.min_x /\ a.max_x = s.max_x /\ a.min_y = s.min_y
        /\ a.count = s.count /\ a.max_y <= s.max_y
    BY <2>7, NoBottomFields DEF Lists
  <2>9. a.count \in Nat /\ a.max_y \in Int /\ s.max_y \in Int /\ t.max_y \in Int
    BY Sizes DEF Stats
  <2>10. Inside(a, t)
    BY <2>6, <2>8, <2>9 DEF Inside
  <2> QED BY <2>1, <2>3, <2>4, <2>5, <2>8, <2>9, <2>10
<1>6. PICK v : v = [rx \in D |-> Listed[rx].count]
  OBVIOUS
<1>7. PICK w : w = [c \in Components |-> StatsOfComponent(c).count]
  OBVIOUS
<1>8. IsFiniteSet(D)
  <2>1. D = 0 .. used_root_list_count - 1 /\ used_root_list_count \in Nat
    BY <1>3, Sizes DEF Listed, IInv, ForestInv, ForestType
  <2> QED BY <2>1, FS_Interval
<1>9. v \in [D -> Nat] /\ \A x \in D : v[x] = Listed[x].count /\ v[x] = StatsOfComponent(g[x]).count
  BY <1>5, <1>6
<1>10. w \in [Components -> Nat] /\ \A x \in Components : w[x] = StatsOfComponent(x).count
  <2>1. ASSUME NEW c \in Components PROVE StatsOfComponent(c).count \in Nat
    <3>1. StatsOfComponent(c) \in Stats
      BY <1>0, <1>4 DEF Totals
    <3> QED BY <3>1 DEF Stats
  <2> QED BY <1>7, <2>1
<1>11. PICK h : SumsUp(h, D, v) /\ MapThenSumSet(LAMBDA rx : Listed[rx].count, D) = h[D]
  BY <1>8, <1>9, ListedAdded
<1>12. PICK j : SumsUp(j, Components, w)
                /\ MapThenSumSet(LAMBDA c : StatsOfComponent(c).count, Components) = j[Components]
  BY <1>4, <1>10, WholeAdded
<1>13. CountsUp(h, g, D)
  <2>1. Apart(g, D)
    BY <1>2, <1>3
  <2>2. D \in SUBSET D
    OBVIOUS
  <2> QED BY <1>0, <1>8, <1>9, <1>11, <2>1, <2>2, CountsApart
<1>14. PICK id : id = [c \in Components |-> c]
  OBVIOUS
<1>15. CountsUp(j, id, Components)
  <2>1. Apart(id, Components)
    BY <1>4, <1>14 DEF Apart
  <2>2. Components \in SUBSET Components
    OBVIOUS
  <2>3. \A x \in Components : w[x] = StatsOfComponent(id[x]).count
    BY <1>10, <1>14
  <2> QED BY <1>0, <1>4, <1>12, <2>1, <2>2, <2>3, CountsApart
<1>16. PICK d \in SUBSET Node : d = Together(id, Components)
  <2>1. \A c \in Components : id[c] \in SUBSET Node
    BY <1>4, <1>14
  <2> QED BY <2>1, TogetherRuns
<1>17. h[D] <= j[Components]
  <2>1. CASE D = {}
    <3>1. h[D] = 0
      BY <1>13, <2>1 DEF CountsUp
    <3>2. CASE Components = {}
      BY <1>15, <3>1, <3>2 DEF CountsUp
    <3>3. CASE Components # {}
      <4>1. d # {}
        BY <1>4, <1>14, <1>16, <3>3 DEF Together
      <4>2. StatsOfComponent(d).count \in Nat
        <5>1. StatsOfComponent(d) \in Stats
          BY <1>0, <4>1 DEF Totals
        <5> QED BY <5>1 DEF Stats
      <4>3. j[Components] = StatsOfComponent(d).count
        BY <1>15, <1>16, <3>3 DEF CountsUp
      <4> QED BY <3>1, <4>2, <4>3
    <3> QED BY <3>2, <3>3
  <2>2. CASE D # {}
    <3>1. PICK c \in SUBSET Node : c = Together(g, D)
      <4>1. \A x \in D : g[x] \in SUBSET Node
        BY <1>2, <1>3 DEF Apart
      <4> QED BY <4>1, TogetherRuns
    <3>2. c # {}
      BY <1>2, <1>3, <2>2, <3>1 DEF Together, Apart
    <3>3. c \subseteq d
      <4>1. ASSUME NEW rx \in D, NEW n \in g[rx] PROVE n \in d
        <5>1. PICK k \in Components : n \in k
          BY <1>2, <1>3
        <5> QED BY <1>14, <1>16, <5>1 DEF Together
      <4> QED BY <3>1, <4>1 DEF Together
    <3>4. Components # {}
      BY <1>2, <1>3, <2>2
    <3>5. h[D] = StatsOfComponent(c).count
      BY <1>13, <2>2, <3>1 DEF CountsUp
    <3>6. j[Components] = StatsOfComponent(d).count
      BY <1>15, <1>16, <3>4 DEF CountsUp
    <3>7. Inside(StatsOfComponent(c), StatsOfComponent(d))
      BY <1>0, <3>2, <3>3, PartInside
    <3> QED BY <3>5, <3>6, <3>7 DEF Inside
  <2> QED BY <2>1, <2>2
<1>18. \A rx \in D : \E c \in Components :
          LET whole == StatsOfComponent(c)
          IN  /\ Listed[rx].count <= whole.count
              /\ whole.min_x <= Listed[rx].min_x /\ Listed[rx].max_x <= whole.max_x
              /\ whole.min_y <= Listed[rx].min_y /\ Listed[rx].max_y <= whole.max_y
  BY <1>5 DEF Inside
<1> QED BY <1>3, <1>11, <1>12, <1>17, <1>18

\* For every image and every capacity, whatever make_set has refused: no pixel
\* is counted twice and no blob of the list is larger than the component it
\* lies in, or reaches beyond its box.
THEOREM FullListAlwaysSound == Spec => []FullListSound
<1>1. Init => IInv /\ HeldSome
  BY InitHolds, InitHeld
<1>2. (IInv /\ HeldSome) /\ [Next]_vars => (IInv /\ HeldSome)'
  BY StepKeeps, StepHeld
<1>3. IInv /\ HeldSome => FullListSound
  BY HeldIsSound
<1> QED BY <1>1, <1>2, <1>3, PTL DEF Spec

-----------------------------------------------------------------------------
(* From the list of blobs to the report *)

LastRoot == used_root_list_count - 1

\* The entries of root_info at the places I are those of different components,
\* all the large ones among them.
Named(of, I) ==
    /\ \A i \in I :
          /\ of[i] \in Components
          /\ NoBottom(root_info[i].stats) = NoBottom(StatsOfComponent(of[i]))
          /\ root_info[i].stats.count = StatsOfComponent(of[i]).count
    /\ \A i, j \in I : of[i] = of[j] => i = j
    /\ \A c \in Components : StatsOfComponent(c).count >= MinPixels => \E i \in I : of[i] = c

Names(I) == NeverFull => \E of : Named(of, I)

AllLarge(n) == \A rx \in 0 .. n - 1 : Large(rx)

InfoOK ==
    /\ root_info \in [0 .. MaxBlobs - 1 -> [stats : Stats, set_index : Entry \cup {0}]]
    /\ used_root_list_count \in 0 .. MaxBlobs
    /\ ImageOK
    /\ \A c \in Components : c \in SUBSET Node /\ c # {}

NothingSent == bbox = <<>> /\ blob = <<>> /\ blob_count = 0

\* What has been written so far is the beginning of the list.
BoxesCopied ==
    /\ bbox \in Seq([min_x : Int, min_y : Int, max_x : Int, max_y : Int])
    /\ Len(bbox) <= used_root_list_count /\ Len(bbox) <= MaxBoxes
    /\ \A i \in 1 .. Len(bbox) : bbox[i] = Box(root_info[i - 1].stats)

StatsCopied ==
    /\ blob \in Seq(Stats) /\ blob_count \in Nat /\ blob_count <= Len(blob)
    /\ blob_count <= used_root_list_count /\ blob_count <= MaxUdpBlobs
    /\ \A i \in 1 .. blob_count : blob[i] = root_info[i - 1].stats

Sorted ==
    \A i, j \in 0 .. LastRoot : i < j => root_info[i].stats.count >= root_info[j].stats.count

Counting ==
    /\ step = "count"
    /\ ok_count \in Nat /\ ok_count <= used_root_list_count
    /\ AllLarge(ok_count) /\ Names(0 .. LastRoot) /\ NothingSent

Compacting ==
    /\ step = "compact"
    /\ ok_count \in Nat /\ at \in Nat /\ ok_count <= at /\ at <= used_root_list_count
    /\ AllLarge(ok_count) /\ Names((0 .. ok_count - 1) \cup (at .. LastRoot)) /\ NothingSent

Sorting == step = "sort" /\ AllLarge(used_root_list_count) /\ Names(0 .. LastRoot) /\ NothingSent

Copying ==
    /\ step \in {"boxes", "stats", "sent"}
    /\ AllLarge(used_root_list_count) /\ Names(0 .. LastRoot) /\ Sorted
    /\ BoxesCopied /\ StatsCopied
    /\ step = "boxes" => blob = <<>> /\ blob_count = 0
    /\ step # "boxes" => Len(bbox) = Lower(used_root_list_count, MaxBoxes)
    /\ step = "stats" => Len(blob) = blob_count
    /\ step = "sent" => blob_count = Lower(used_root_list_count, MaxUdpBlobs)

ReportPhase == Counting \/ Compacting \/ Sorting \/ Copying

\* The scan comes first, with its own invariant.
DetectorIInv ==
    IF step = "scan" THEN IInv /\ HeldSome /\ ok_count = 0 /\ NothingSent
                     ELSE pc = "done" /\ InfoOK /\ ReportPhase

-----------------------------------------------------------------------------
(* The list when the scan is over *)

\* After the last row the list names the components.
LEMMA ScanNames ==
    ASSUME IInv, HeldSome, pc = "done"
    PROVE  Names(0 .. LastRoot)
<1> SUFFICES ASSUME NeverFull PROVE \E of : Named(of, 0 .. LastRoot)
  BY DEF Names
<1>0. ForestInv
  BY DEF IInv
<1>1. PICK rho, own : Held(rho, own)
  BY DEF HeldSome
<1>2. PICK of : of = [rx \in 0 .. LastRoot |-> Class(rho, own, root_info[rx].set_index)]
  OBVIOUS
<1>3. ASSUME NEW rx \in 0 .. LastRoot
      PROVE  \E r \in RootSet : /\ r = root_info[rx].set_index /\ of[rx] = Class(rho, own, r)
                                /\ root_info[rx].stats = RootStats(r)
                                /\ blob_set[r].root_list_index = rx
  <2>1. PICK r : r = root_info[rx].set_index
    OBVIOUS
  <2>2. r \in Entry /\ IsRoot(r) /\ blob_set[r].root_list_index = rx
    BY <1>0, <2>1 DEF ForestInv, RootsListed, LastRoot
  <2>3. r \in RootSet
    BY <2>2 DEF RootSet, RootsOf, Entry, IsRoot
  <2> QED BY <1>2, <2>1, <2>2, <2>3 DEF RootStats
<1>4. Components = {Class(rho, own, r) : r \in RootSet}
  BY <1>1, ComponentsAreClasses
<1>5. \A q, r \in RootSet : Class(rho, own, q) = Class(rho, own, r) => q = r
  BY <1>1, ClassesAreBlocks
<1>6. Totals /\ \A c \in Components : c \in SUBSET Node /\ c # {}
  <2>1. ImageOK
    BY DEF IInv, ScanInv, ImageOK
  <2> QED BY <1>1, <2>1, ImageTotals, ClassesInComponents
<1>7. ASSUME NEW i \in 0 .. LastRoot
      PROVE  /\ of[i] \in Components
             /\ NoBottom(root_info[i].stats) = NoBottom(StatsOfComponent(of[i]))
             /\ root_info[i].stats.count = StatsOfComponent(of[i]).count
  <2>1. PICK r \in RootSet : of[i] = Class(rho, own, r) /\ root_info[i].stats = RootStats(r)
    BY <1>3
  <2>2. of[i] \in Components
    BY <1>4, <2>1
  <2>3. Counted(r, of[i])
    BY <1>1, <2>1 DEF Held, AllCounted
  <2>4. NoBottom(root_info[i].stats) = NoBottom(StatsOfComponent(of[i]))
    BY <2>1, <2>3 DEF Counted, Lists
  <2>5. root_info[i].stats \in Stats
    BY <1>0, Sizes DEF ForestInv, ForestType, LastRoot
  <2>6. StatsOfComponent(of[i]) \in Stats
    BY <1>6, <2>2 DEF Totals
  <2> QED BY <2>2, <2>4, <2>5, <2>6, NoBottomFields
<1>8. ASSUME NEW i \in 0 .. LastRoot, NEW j \in 0 .. LastRoot, of[i] = of[j] PROVE i = j
  BY <1>3, <1>5, <1>8
<1>9. ASSUME NEW c \in Components PROVE \E i \in 0 .. LastRoot : of[i] = c
  <2>1. PICK r \in RootSet : c = Class(rho, own, r)
    BY <1>4
  <2>2. r \in Entry /\ IsRoot(r)
    BY DEF RootSet, RootsOf, Entry, IsRoot
  <2>3. PICK i \in 0 .. LastRoot : root_info[i].set_index = r
    BY <1>0, <2>2, RootPlace DEF UsedRoot, LastRoot
  <2> QED BY <1>2, <2>1, <2>3
<1> QED BY <1>7, <1>8, <1>9 DEF Named

\* The image and the list stay: so do its components and what is computed of them.
LEMMA SameComponents ==
    ASSUME InfoOK, image' = image, used_blob_set_count' = used_blob_set_count
    PROVE  /\ ImageOK' /\ Components' = Components /\ (NeverFull' <=> NeverFull)
           /\ \A c \in Components : StatsOfComponent(c)' = StatsOfComponent(c)
           /\ \A c \in Components' : c \in SUBSET Node' /\ c # {}
<1>1. /\ ImageOK' /\ Node' = Node /\ Contacts' = Contacts
      /\ \A c \in SUBSET Node : c # {} => StatsOfComponent(c)' = StatsOfComponent(c)
  BY SameImage DEF InfoOK
<1>2. Components' = Components
  BY <1>1 DEF Components
<1>3. NeverFull' <=> NeverFull
  BY DEF NeverFull
<1> QED BY <1>1, <1>2, <1>3 DEF InfoOK

\* Entries move, and only small ones are left behind: the others are still
\* those of different components.
LEMMA NamesMove ==
    ASSUME InfoOK, image' = image, used_blob_set_count' = used_blob_set_count,
           NEW I, NEW J, NEW g, Names(I),
           \A j \in J : g[j] \in I /\ root_info'[j].stats = root_info[g[j]].stats,
           \A j, k \in J : g[j] = g[k] => j = k,
           \A i \in I : (\E j \in J : g[j] = i) \/ ~ (root_info[i].stats.count >= MinPixels)
    PROVE  Names(J)'
<1> SUFFICES ASSUME NeverFull' PROVE \E of : Named(of, J)'
  BY DEF Names
<1>1. /\ Components' = Components /\ NeverFull
      /\ \A c \in Components : StatsOfComponent(c)' = StatsOfComponent(c)
  BY SameComponents
<1>2. PICK of : Named(of, I)
  BY <1>1 DEF Names
<1>3. PICK now : now = [j \in J |-> of[g[j]]]
  OBVIOUS
<1>4. ASSUME NEW j \in J
      PROVE  /\ now[j] \in Components'
             /\ NoBottom(root_info'[j].stats) = NoBottom(StatsOfComponent(now[j])')
             /\ root_info'[j].stats.count = StatsOfComponent(now[j])'.count
  <2>1. PICK i \in I : i = g[j] /\ root_info'[j].stats = root_info[i].stats
    OBVIOUS
  <2>2. PICK c \in Components : c = of[i] /\ c = now[j]
    BY <1>2, <1>3, <2>1 DEF Named
  <2>3. /\ NoBottom(root_info[i].stats) = NoBottom(StatsOfComponent(c))
        /\ root_info[i].stats.count = StatsOfComponent(c).count
    BY <1>2, <2>2 DEF Named
  <2>4. StatsOfComponent(c)' = StatsOfComponent(c)
    BY <1>1
  <2> QED BY <1>1, <2>1, <2>2, <2>3, <2>4
<1>5. ASSUME NEW j \in J, NEW k \in J, now[j] = now[k] PROVE j = k
  BY <1>2, <1>3, <1>5 DEF Named
<1>6. ASSUME NEW c \in Components', StatsOfComponent(c)'.count >= MinPixels
      PROVE  \E j \in J : now[j] = c
  <2>1. c \in Components /\ StatsOfComponent(c).count >= MinPixels
    BY <1>1, <1>6
  <2>2. PICK i \in I : of[i] = c
    BY <1>2, <2>1 DEF Named
  <2>3. root_info[i].stats.count >= MinPixels
    BY <1>2, <2>1, <2>2 DEF Named
  <2> QED BY <1>3, <2>2, <2>3
<1> QED BY <1>4, <1>5, <1>6 DEF Named, NoBottom

\* What a step that leaves the scan's variables alone keeps.
LEMMA InfoStays ==
    ASSUME InfoOK, UNCHANGED vars
    PROVE  /\ InfoOK' /\ LastRoot' = LastRoot
           /\ \A n : AllLarge(n) => AllLarge(n)'
           /\ \A i : Names(i) => Names(i)'
<1>1. image' = image /\ used_blob_set_count' = used_blob_set_count /\ root_info' = root_info
      /\ used_root_list_count' = used_root_list_count
  BY DEF vars, rowVars, forest
<1>2. InfoOK'
  BY <1>1, SameComponents DEF InfoOK, Entry
<1>3. LastRoot' = LastRoot
  BY <1>1 DEF LastRoot
<1>4. \A n : AllLarge(n) => AllLarge(n)'
  BY <1>1 DEF AllLarge, Large
<1>5. ASSUME NEW I, Names(I) PROVE Names(I)'
  <2>1. PICK g : g = [i \in I |-> i]
    OBVIOUS
  <2> QED BY <1>1, <1>5, <2>1, NamesMove
<1> QED BY <1>2, <1>3, <1>4, <1>5

\* Numbers of the list.
LEMMA InfoSizes ==
    ASSUME InfoOK
    PROVE  /\ used_root_list_count \in Nat /\ used_root_list_count <= MaxBlobs
           /\ MaxBlobs \in Nat /\ MinPixels \in Nat /\ MaxBoxes \in Nat /\ MaxUdpBlobs \in Nat
           /\ LastRoot \in Int /\ LastRoot = used_root_list_count - 1
           /\ \A rx \in 0 .. LastRoot : /\ rx \in 0 .. MaxBlobs - 1 /\ rx \in Nat
                                        /\ rx < used_root_list_count
                                        /\ root_info[rx].stats \in Stats
                                        /\ root_info[rx].stats.count \in Nat
<1>1. /\ used_root_list_count \in Nat /\ used_root_list_count <= MaxBlobs /\ MaxBlobs \in Nat
      /\ MinPixels \in Nat /\ MaxBoxes \in Nat /\ MaxUdpBlobs \in Nat
  BY Sizes, DetectorAssumption DEF InfoOK
<1>2. LastRoot \in Int /\ LastRoot = used_root_list_count - 1
  BY <1>1 DEF LastRoot
<1>3. ASSUME NEW rx \in 0 .. LastRoot
      PROVE  /\ rx \in 0 .. MaxBlobs - 1 /\ rx \in Nat /\ rx < used_root_list_count
             /\ root_info[rx].stats \in Stats /\ root_info[rx].stats.count \in Nat
  <2>1. rx \in 0 .. MaxBlobs - 1 /\ rx \in Nat /\ rx < used_root_list_count
    BY <1>1, <1>2
  <2>2. root_info[rx].stats \in Stats
    BY <2>1 DEF InfoOK
  <2> QED BY <2>1, <2>2 DEF Stats
<1> QED BY <1>1, <1>2, <1>3

\* The scan is over: its list names the components.
LEMMA EndScanKeeps == DetectorIInv /\ EndScan => DetectorIInv'
<1> SUFFICES ASSUME DetectorIInv, EndScan PROVE DetectorIInv'
  OBVIOUS
<1>1. /\ IInv /\ HeldSome /\ ok_count = 0 /\ NothingSent /\ pc = "done"
      /\ step' = "count" /\ ok_count' = 0 /\ UNCHANGED vars
      /\ bbox' = bbox /\ blob' = blob /\ blob_count' = blob_count
  BY DEF DetectorIInv, EndScan
<1>2. pc' = "done" /\ used_root_list_count' = used_root_list_count
  BY <1>1 DEF vars, forest
<1>3. InfoOK
  <2>1. /\ root_info \in [0 .. MaxBlobs - 1 -> [stats : Stats, set_index : Entry \cup {0}]]
        /\ used_root_list_count \in 0 .. MaxBlobs /\ ImageOK
    BY <1>1 DEF IInv, ForestInv, ForestType, ScanInv, ImageOK
  <2>2. PICK rho, own : Held(rho, own)
    BY <1>1 DEF HeldSome
  <2>3. \A c \in Components : c \in SUBSET Node /\ c # {}
    BY <1>1, <2>2, ClassesInComponents
  <2> QED BY <2>1, <2>3 DEF InfoOK
<1>4. Names(0 .. LastRoot)
  BY <1>1, ScanNames
<1>5. InfoOK' /\ LastRoot' = LastRoot /\ Names(0 .. LastRoot)'
  BY <1>1, <1>3, <1>4, InfoStays
<1>6. used_root_list_count' \in Nat
  BY <1>2, <1>3, InfoSizes
<1>7. AllLarge(ok_count)'
  BY <1>1 DEF AllLarge
<1>8. NothingSent'
  BY <1>1 DEF NothingSent
<1>9. Counting'
  BY <1>1, <1>5, <1>6, <1>7, <1>8 DEF Counting
<1> QED BY <1>1, <1>2, <1>5, <1>9 DEF DetectorIInv, ReportPhase

\* The front of the list is counted.
LEMMA CountLargeKeeps == DetectorIInv /\ CountLarge => DetectorIInv'
<1> SUFFICES ASSUME DetectorIInv, CountLarge PROVE DetectorIInv'
  OBVIOUS
<1>1. /\ pc = "done" /\ InfoOK /\ Counting /\ UNCHANGED vars
      /\ bbox' = bbox /\ blob' = blob /\ blob_count' = blob_count
  BY DEF DetectorIInv, CountLarge, ReportPhase, Counting, Compacting, Sorting, Copying
<1>2. pc' = "done" /\ used_root_list_count' = used_root_list_count
  BY <1>1 DEF vars, forest
<1>3. /\ InfoOK' /\ LastRoot' = LastRoot /\ Names(0 .. LastRoot)'
      /\ \A n : AllLarge(n) => AllLarge(n)'
  BY <1>1, InfoStays DEF Counting
<1>4. NothingSent'
  BY <1>1 DEF NothingSent, Counting
<1>5. /\ ok_count \in Nat /\ ok_count <= used_root_list_count /\ used_root_list_count \in Nat
      /\ AllLarge(ok_count) /\ LastRoot = used_root_list_count - 1
  BY <1>1, InfoSizes DEF Counting
<1>6. CASE ok_count < used_root_list_count /\ Large(ok_count)
  <2>1. step' = "count" /\ ok_count' = ok_count + 1
    BY <1>1, <1>6 DEF CountLarge, Counting
  <2>2. AllLarge(ok_count + 1)
    BY <1>5, <1>6 DEF AllLarge
  <2>3. PICK n : n = ok_count + 1
    OBVIOUS
  <2>4. AllLarge(n)'
    BY <1>3, <2>2, <2>3
  <2>5. AllLarge(ok_count)'
    BY <2>1, <2>3, <2>4 DEF AllLarge
  <2>6. Counting'
    BY <1>2, <1>3, <1>4, <1>5, <1>6, <2>1, <2>5 DEF Counting
  <2> QED BY <1>2, <1>3, <2>1, <2>6 DEF DetectorIInv, ReportPhase
<1>7. CASE ~ (ok_count < used_root_list_count /\ Large(ok_count))
  <2>1. step' = "compact" /\ ok_count' = ok_count /\ at' = ok_count
    BY <1>1, <1>7 DEF CountLarge, Counting
  <2>2. AllLarge(ok_count)'
    BY <1>3, <1>5, <2>1 DEF AllLarge
  <2>3. (0 .. ok_count - 1) \cup (ok_count .. LastRoot) = 0 .. LastRoot
    BY <1>5
  <2>4. Names((0 .. ok_count - 1) \cup (at .. LastRoot))'
    <3>1. ((0 .. ok_count - 1) \cup (at .. LastRoot))' = (0 .. LastRoot)'
      BY <1>3, <2>1, <2>3
    <3> QED BY <1>3, <3>1 DEF Names, Named
  <2>5. Compacting'
    BY <1>2, <1>4, <1>5, <2>1, <2>2, <2>4 DEF Compacting
  <2> QED BY <1>2, <1>3, <2>1, <2>5 DEF DetectorIInv, ReportPhase
<1> QED BY <1>6, <1>7

\* A large entry moves to the end of those kept; a small one is passed by.
LEMMA CompactKeeps == DetectorIInv /\ Compact => DetectorIInv'
<1> SUFFICES ASSUME DetectorIInv, Compact PROVE DetectorIInv'
  OBVIOUS
<1>1. /\ pc = "done" /\ InfoOK /\ Compacting /\ at < used_root_list_count
      /\ at' = at + 1 /\ step' = "compact"
      /\ used_root_list_count' = used_root_list_count /\ UNCHANGED unchangedByReport
      /\ bbox' = bbox /\ blob' = blob /\ blob_count' = blob_count
  BY DEF DetectorIInv, Compact, ReportPhase, Counting, Compacting, Sorting, Copying
<1>2. /\ pc' = "done" /\ image' = image /\ used_blob_set_count' = used_blob_set_count
      /\ Entry' = Entry
  BY <1>1 DEF unchangedByReport, rowVars, Entry
<1>3. /\ ok_count \in Nat /\ at \in Nat /\ ok_count <= at /\ used_root_list_count \in Nat
      /\ used_root_list_count <= MaxBlobs /\ MaxBlobs \in Nat /\ MinPixels \in Nat
      /\ LastRoot = used_root_list_count - 1 /\ LastRoot' = LastRoot
      /\ AllLarge(ok_count) /\ root_info[at].stats.count \in Nat
  <2>1. /\ ok_count \in Nat /\ at \in Nat /\ ok_count <= at /\ used_root_list_count \in Nat
        /\ used_root_list_count <= MaxBlobs /\ MaxBlobs \in Nat /\ MinPixels \in Nat
        /\ LastRoot = used_root_list_count - 1 /\ AllLarge(ok_count)
    BY <1>1, InfoSizes DEF Compacting
  <2>2. at \in 0 .. LastRoot
    BY <1>1, <2>1
  <2> QED BY <1>1, <2>1, <2>2, InfoSizes DEF LastRoot
<1>4. NothingSent'
  BY <1>1 DEF NothingSent, Compacting
<1>5. PICK I : I = (0 .. ok_count - 1) \cup (at .. LastRoot)
  OBVIOUS
<1>6. Names(I)
  BY <1>1, <1>5 DEF Compacting
<1>7. PICK J : J = ((0 .. ok_count - 1) \cup (at .. LastRoot))'
  OBVIOUS
<1>8. /\ InfoOK' /\ AllLarge(ok_count)' /\ Names(J)'
      /\ ok_count' \in Nat /\ ok_count' <= at'
  <2>1. CASE Large(at)
    <3>1. /\ root_info' = [root_info EXCEPT ![ok_count] = root_info[at]]
          /\ ok_count' = ok_count + 1
      BY <1>1, <2>1 DEF Compact
    <3>2. /\ ok_count \in 0 .. MaxBlobs - 1 /\ at \in 0 .. MaxBlobs - 1
          /\ DOMAIN root_info = 0 .. MaxBlobs - 1
      BY <1>1, <1>3 DEF InfoOK
    <3>3. \A j \in 0 .. MaxBlobs - 1 :
             root_info'[j] = IF j = ok_count THEN root_info[at] ELSE root_info[j]
      BY <3>1, <3>2
    <3>4. root_info' \in [0 .. MaxBlobs - 1 -> [stats : Stats, set_index : Entry \cup {0}]]
      BY <1>1, <3>1, <3>2 DEF InfoOK
    <3>5. InfoOK'
      BY <1>1, <1>2, <3>4, SameComponents DEF InfoOK
    <3>6. AllLarge(ok_count)'
      <4>1. ASSUME NEW rx \in 0 .. ok_count PROVE root_info'[rx].stats.count >= MinPixels
        <5>1. rx \in 0 .. MaxBlobs - 1
          BY <1>3, <3>2
        <5>2. CASE rx = ok_count
          BY <2>1, <3>3, <5>1, <5>2 DEF Large
        <5>3. CASE rx # ok_count
          <6>1. rx \in 0 .. ok_count - 1
            BY <1>3, <5>3
          <6> QED BY <1>3, <3>3, <5>1, <5>3, <6>1 DEF AllLarge, Large
        <5> QED BY <5>2, <5>3
      <4>2. 0 .. ok_count' - 1 = 0 .. ok_count
        BY <1>3, <3>1
      <4> QED BY <4>1, <4>2 DEF AllLarge, Large
    <3>7. J = (0 .. ok_count) \cup (at + 1 .. LastRoot)
      <4>1. ok_count' - 1 = ok_count
        BY <1>3, <3>1
      <4> QED BY <1>1, <1>3, <1>7, <4>1
    <3>8. PICK g : g = [j \in J |-> IF j = ok_count THEN at ELSE j]
      OBVIOUS
    <3>9. ASSUME NEW j \in J PROVE g[j] \in I /\ root_info'[j].stats = root_info[g[j]].stats
      <4>1. j \in 0 .. MaxBlobs - 1 /\ g[j] = IF j = ok_count THEN at ELSE j
        BY <1>1, <1>3, <3>2, <3>7, <3>8
      <4>2. g[j] \in I
        BY <1>1, <1>3, <1>5, <3>7, <4>1
      <4> QED BY <3>3, <4>1, <4>2
    <3>10. ASSUME NEW j \in J, NEW k \in J, g[j] = g[k] PROVE j = k
      <4>1. \A i \in J : i = at => i = ok_count
        BY <1>1, <1>3, <3>7
      <4> QED BY <3>8, <3>10, <4>1
    <3>11. ASSUME NEW i \in I PROVE \E j \in J : g[j] = i
      <4>1. CASE i = at
        <5>1. ok_count \in J
          BY <1>3, <3>7
        <5> QED BY <3>8, <4>1, <5>1
      <4>2. CASE i # at
        <5>1. i \in J /\ i # ok_count
          BY <1>1, <1>3, <1>5, <3>7, <4>2
        <5> QED BY <3>8, <5>1
      <4> QED BY <4>1, <4>2
    <3>12. Names(J)'
      BY <1>1, <1>2, <1>6, <3>9, <3>10, <3>11, NamesMove
    <3> QED BY <1>1, <1>3, <3>1, <3>5, <3>6, <3>12
  <2>2. CASE ~ Large(at)
    <3>1. root_info' = root_info /\ ok_count' = ok_count
      BY <1>1, <2>2 DEF Compact
    <3>2. InfoOK'
      BY <1>1, <1>2, <3>1, SameComponents DEF InfoOK
    <3>3. AllLarge(ok_count)'
      BY <1>3, <3>1 DEF AllLarge, Large
    <3>4. J = (0 .. ok_count - 1) \cup (at + 1 .. LastRoot)
      BY <1>1, <1>3, <1>7, <3>1
    <3>5. PICK g : g = [j \in J |-> j]
      OBVIOUS
    <3>6. ASSUME NEW j \in J PROVE g[j] \in I /\ root_info'[j].stats = root_info[g[j]].stats
      BY <1>3, <1>5, <3>1, <3>4, <3>5
    <3>7. ASSUME NEW j \in J, NEW k \in J, g[j] = g[k] PROVE j = k
      BY <3>5, <3>7
    <3>8. ASSUME NEW i \in I
          PROVE  (\E j \in J : g[j] = i) \/ ~ (root_info[i].stats.count >= MinPixels)
      <4>1. CASE i = at
        BY <2>2, <4>1 DEF Large
      <4>2. CASE i # at
        <5>1. i \in J
          BY <1>3, <1>5, <3>4, <4>2
        <5> QED BY <3>5, <5>1
      <4> QED BY <4>1, <4>2
    <3>9. Names(J)'
      BY <1>1, <1>2, <1>6, <3>6, <3>7, <3>8, NamesMove
    <3> QED BY <1>1, <1>3, <3>1, <3>2, <3>3, <3>9
  <2> QED BY <2>1, <2>2
<1>9. Names((0 .. ok_count - 1) \cup (at .. LastRoot))'
  BY <1>7, <1>8 DEF Names, Named
<1>10. at' \in Nat /\ at' <= used_root_list_count'
  BY <1>1, <1>3
<1>11. Compacting'
  BY <1>1, <1>4, <1>8, <1>9, <1>10 DEF Compacting
<1> QED BY <1>1, <1>2, <1>8, <1>11 DEF DetectorIInv, ReportPhase

\* The list is cut behind the large ones.
LEMMA EndPurgeKeeps == DetectorIInv /\ EndPurge => DetectorIInv'
<1> SUFFICES ASSUME DetectorIInv, EndPurge PROVE DetectorIInv'
  OBVIOUS
<1>1. /\ pc = "done" /\ InfoOK /\ Compacting /\ at = used_root_list_count
      /\ step' = "sort" /\ used_root_list_count' = ok_count
      /\ root_info' = root_info /\ UNCHANGED unchangedByReport
      /\ bbox' = bbox /\ blob' = blob /\ blob_count' = blob_count
  BY DEF DetectorIInv, EndPurge, ReportPhase, Counting, Compacting, Sorting, Copying
<1>2. /\ pc' = "done" /\ image' = image /\ used_blob_set_count' = used_blob_set_count
      /\ Entry' = Entry
  BY <1>1 DEF unchangedByReport, rowVars, Entry
<1>3. /\ ok_count \in Nat /\ ok_count <= used_root_list_count /\ used_root_list_count \in Nat
      /\ used_root_list_count <= MaxBlobs /\ MaxBlobs \in Nat
      /\ LastRoot = used_root_list_count - 1 /\ LastRoot' = ok_count - 1
      /\ AllLarge(ok_count)
  BY <1>1, InfoSizes DEF Compacting, LastRoot
<1>4. NothingSent'
  BY <1>1 DEF NothingSent, Compacting
<1>5. InfoOK'
  BY <1>1, <1>2, <1>3, SameComponents DEF InfoOK
<1>6. AllLarge(used_root_list_count)'
  BY <1>1, <1>3 DEF AllLarge, Large
<1>7. PICK I : I = 0 .. ok_count - 1
  OBVIOUS
<1>8. Names(I)
  <2>1. I = (0 .. ok_count - 1) \cup (at .. LastRoot)
    BY <1>1, <1>3, <1>7
  <2> QED BY <1>1, <2>1 DEF Compacting
<1>9. Names(I)'
  <2>1. PICK g : g = [i \in I |-> i]
    OBVIOUS
  <2> QED BY <1>1, <1>2, <1>8, <2>1, NamesMove
<1>10. Names(0 .. LastRoot)'
  BY <1>3, <1>7, <1>9 DEF Names, Named
<1>11. Sorting'
  BY <1>1, <1>4, <1>6, <1>10 DEF Sorting
<1> QED BY <1>1, <1>2, <1>5, <1>11 DEF DetectorIInv, ReportPhase

\* A one-to-one map of the places to themselves reaches every place.
LEMMA AllPlaces ==
    ASSUME NEW n \in Int, NEW f \in [0 .. n -> 0 .. n],
           \A i, j \in 0 .. n : i # j => f[i] # f[j]
    PROVE  \A k \in 0 .. n : \E i \in 0 .. n : f[i] = k
<1>1. f \in Injection(0 .. n, 0 .. n)
  BY DEF Injection, IsInjective
<1>2. IsFiniteSet(0 .. n)
  BY FS_Interval
<1>3. f \in Surjection(0 .. n, 0 .. n)
  BY <1>1, <1>2, FS_Injection
<1> QED BY <1>3 DEF Surjection

\* The sort gives every entry another place.
LEMMA SortBlobsKeeps == DetectorIInv /\ SortBlobs => DetectorIInv'
<1> SUFFICES ASSUME DetectorIInv, SortBlobs PROVE DetectorIInv'
  OBVIOUS
<1>1. /\ pc = "done" /\ InfoOK /\ Sorting /\ step' = "boxes"
      /\ used_root_list_count' = used_root_list_count /\ UNCHANGED unchangedByReport
      /\ bbox' = bbox /\ blob' = blob /\ blob_count' = blob_count
  BY DEF DetectorIInv, SortBlobs, ReportPhase, Counting, Compacting, Sorting, Copying
<1>2. /\ pc' = "done" /\ image' = image /\ used_blob_set_count' = used_blob_set_count
      /\ Entry' = Entry
  BY <1>1 DEF unchangedByReport, rowVars, Entry
<1>3. /\ used_root_list_count \in Nat /\ used_root_list_count <= MaxBlobs /\ MaxBlobs \in Nat
      /\ MaxBoxes \in Nat /\ MaxUdpBlobs \in Nat
      /\ LastRoot \in Int /\ LastRoot = used_root_list_count - 1 /\ LastRoot' = LastRoot
  BY <1>1, InfoSizes DEF LastRoot
<1>4. PICK I : I = 0 .. used_root_list_count - 1 /\ I = 0 .. LastRoot
  BY DEF LastRoot
<1>5. PICK f \in [I -> I] :
        /\ \A i, j \in I : i # j => f[i] # f[j]
        /\ root_info' = [rx \in DOMAIN root_info |-> root_info[IF rx \in I THEN f[rx] ELSE rx]]
        /\ \A i, j \in I : i < j => root_info'[i].stats.count >= root_info'[j].stats.count
  BY <1>4, Zenon DEF SortBlobs
<1>6. DOMAIN root_info = 0 .. MaxBlobs - 1 /\ I \subseteq 0 .. MaxBlobs - 1
  BY <1>1, <1>3, <1>4 DEF InfoOK
<1>7. \A i \in I : f[i] \in I /\ root_info'[i] = root_info[f[i]]
  BY <1>5, <1>6
<1>8. InfoOK'
  <2>1. \A rx \in 0 .. MaxBlobs - 1 : (IF rx \in I THEN f[rx] ELSE rx) \in 0 .. MaxBlobs - 1
    BY <1>5, <1>6
  <2>2. root_info' \in [0 .. MaxBlobs - 1 -> [stats : Stats, set_index : Entry \cup {0}]]
    BY <1>1, <1>5, <1>6, <2>1 DEF InfoOK
  <2> QED BY <1>1, <1>2, <2>2, SameComponents DEF InfoOK
<1>9. Names(I)'
  <2>1. Names(I)
    BY <1>1, <1>4 DEF Sorting
  <2>2. \A i \in I : \E j \in I : f[j] = i
    <3>1. f \in [0 .. LastRoot -> 0 .. LastRoot]
      BY <1>4
    <3>2. \A i, j \in 0 .. LastRoot : i # j => f[i] # f[j]
      BY <1>4, <1>5
    <3>3. \A k \in 0 .. LastRoot : \E i \in 0 .. LastRoot : f[i] = k
      BY <1>3, <3>1, <3>2, AllPlaces
    <3> QED BY <1>4, <3>3
  <2>3. \A j, k \in I : f[j] = f[k] => j = k
    BY <1>5
  <2>4. \A i \in I : (\E j \in I : f[j] = i) \/ ~ (root_info[i].stats.count >= MinPixels)
    BY <2>2
  <2>5. \A j \in I : f[j] \in I /\ root_info'[j].stats = root_info[f[j]].stats
    BY <1>7
  <2> QED BY <1>1, <1>2, <2>1, <2>3, <2>4, <2>5, NamesMove
<1>10. Names(0 .. LastRoot)'
  <2>1. I = 0 .. LastRoot'
    BY <1>3, <1>4
  <2> QED BY <1>9, <2>1 DEF Names, Named
<1>11. AllLarge(used_root_list_count)'
  <2>1. AllLarge(used_root_list_count)
    BY <1>1 DEF Sorting
  <2>2. \A i \in I : root_info[i].stats.count >= MinPixels
    BY <1>3, <1>4, <2>1 DEF AllLarge, Large
  <2>3. \A i \in I : root_info'[i].stats.count >= MinPixels
    BY <1>7, <2>2
  <2> QED BY <1>1, <1>3, <1>4, <2>3 DEF AllLarge, Large
<1>12. Sorted'
  BY <1>3, <1>4, <1>5 DEF Sorted
<1>13. bbox' = <<>> /\ blob' = <<>> /\ blob_count' = 0
  BY <1>1 DEF Sorting, NothingSent
<1>14. BoxesCopied'
  <2>1. Len(bbox)' = 0
    BY <1>13
  <2> QED BY <1>1, <1>3, <1>13, <2>1 DEF BoxesCopied
<1>15. StatsCopied'
  <2>1. Len(blob)' = 0
    BY <1>13
  <2> QED BY <1>1, <1>3, <1>13, <2>1 DEF StatsCopied
<1>16. Copying'
  BY <1>1, <1>10, <1>11, <1>12, <1>13, <1>14, <1>15 DEF Copying
<1> QED BY <1>1, <1>2, <1>8, <1>16 DEF DetectorIInv, ReportPhase

\* A sequence that grows by what belongs at its end.
LEMMA OneMore ==
    ASSUME NEW S, NEW T, NEW s \in Seq(S), NEW e \in S, NEW g,
           \A i \in 1 .. Len(s) : s[i] = g[i - 1], e = g[Len(s)], T = Append(s, e)
    PROVE  /\ T \in Seq(S) /\ Len(T) = Len(s) + 1 /\ Len(s) \in Nat
           /\ \A i \in 1 .. Len(T) : T[i] = g[i - 1]
<1>1. T \in Seq(S) /\ Len(T) = Len(s) + 1 /\ Len(s) \in Nat
  OBVIOUS
<1>2. ASSUME NEW i \in 1 .. Len(s) + 1 PROVE T[i] = g[i - 1]
  <2>1. CASE i = Len(s) + 1
    BY <1>1, <2>1
  <2>2. CASE i # Len(s) + 1
    <3>1. i \in 1 .. Len(s)
      BY <1>1, <2>2
    <3> QED BY <1>1, <3>1
  <2> QED BY <2>1, <2>2
<1> QED BY <1>1, <1>2

\* What the copying leaves alone.
LEMMA CopyingStays ==
    ASSUME InfoOK, pc = "done", Copying, UNCHANGED vars
    PROVE  /\ pc' = "done" /\ InfoOK' /\ root_info' = root_info
           /\ used_root_list_count' = used_root_list_count
           /\ AllLarge(used_root_list_count)' /\ Names(0 .. LastRoot)' /\ Sorted'
<1>1. /\ pc' = "done" /\ root_info' = root_info
      /\ used_root_list_count' = used_root_list_count
  BY DEF vars, forest
<1>2. /\ InfoOK' /\ LastRoot' = LastRoot /\ Names(0 .. LastRoot)'
  BY InfoStays DEF Copying
<1>3. AllLarge(used_root_list_count)'
  BY <1>1 DEF Copying, AllLarge, Large
<1>4. Sorted'
  BY <1>1, <1>2 DEF Copying, Sorted
<1> QED BY <1>1, <1>2, <1>3, <1>4

\* A box more, or the boxes are all there.
LEMMA CopyBoxKeeps == DetectorIInv /\ CopyBox => DetectorIInv'
<1> SUFFICES ASSUME DetectorIInv, CopyBox PROVE DetectorIInv'
  OBVIOUS
<1>1. /\ pc = "done" /\ InfoOK /\ Copying /\ step = "boxes" /\ UNCHANGED vars
      /\ blob' = blob /\ blob_count' = blob_count
  BY DEF DetectorIInv, CopyBox, ReportPhase, Counting, Compacting, Sorting, Copying
<1>2. /\ pc' = "done" /\ InfoOK' /\ root_info' = root_info
      /\ used_root_list_count' = used_root_list_count
      /\ AllLarge(used_root_list_count)' /\ Names(0 .. LastRoot)' /\ Sorted'
  BY <1>1, CopyingStays
<1>3. /\ used_root_list_count \in Nat /\ MaxBoxes \in Nat /\ MaxUdpBlobs \in Nat
      /\ LastRoot = used_root_list_count - 1
  BY <1>1, InfoSizes
<1>4. /\ bbox \in Seq([min_x : Int, min_y : Int, max_x : Int, max_y : Int])
      /\ Len(bbox) \in Nat /\ Len(bbox) <= used_root_list_count /\ Len(bbox) <= MaxBoxes
      /\ \A i \in 1 .. Len(bbox) : bbox[i] = Box(root_info[i - 1].stats)
      /\ blob = <<>> /\ blob_count = 0
  BY <1>1 DEF Copying, BoxesCopied
<1>5. StatsCopied'
  <2>1. blob' = <<>> /\ blob_count' = 0 /\ Len(blob)' = 0
    BY <1>1, <1>4
  <2> QED BY <1>2, <1>3, <2>1 DEF StatsCopied
<1>6. CASE MoreBoxes
  <2>1. /\ bbox' = Append(bbox, Box(root_info[Len(bbox)].stats)) /\ step' = "boxes"
        /\ Len(bbox) < used_root_list_count /\ Len(bbox) < MaxBoxes
    BY <1>1, <1>6 DEF CopyBox, MoreBoxes
  <2>2. PICK g : g = [rx \in 0 .. LastRoot |-> Box(root_info[rx].stats)]
    OBVIOUS
  <2>3. Len(bbox) \in 0 .. LastRoot /\ \A i \in 1 .. Len(bbox) : i - 1 \in 0 .. LastRoot
    BY <1>3, <1>4, <2>1
  <2>4. g[Len(bbox)] \in [min_x : Int, min_y : Int, max_x : Int, max_y : Int]
    <3>1. root_info[Len(bbox)].stats \in Stats
      BY <1>1, <2>3, InfoSizes
    <3> QED BY <2>2, <2>3, <3>1, Sizes DEF Box, Stats
  <2>5. \A i \in 1 .. Len(bbox) : bbox[i] = g[i - 1]
    BY <1>4, <2>2, <2>3
  <2>6. bbox' = Append(bbox, g[Len(bbox)])
    BY <2>1, <2>2, <2>3
  <2>7. /\ bbox' \in Seq([min_x : Int, min_y : Int, max_x : Int, max_y : Int])
        /\ Len(bbox') = Len(bbox) + 1
        /\ \A i \in 1 .. Len(bbox') : bbox'[i] = g[i - 1]
    <3>1. PICK S : S = [min_x : Int, min_y : Int, max_x : Int, max_y : Int]
      OBVIOUS
    <3>2. PICK e \in S : e = g[Len(bbox)]
      BY <2>4, <3>1
    <3>3. PICK T : T = Append(bbox, e)
      OBVIOUS
    <3>4. bbox \in Seq(S)
      BY <1>4, <3>1
    <3>5. T \in Seq(S) /\ Len(T) = Len(bbox) + 1 /\ \A i \in 1 .. Len(T) : T[i] = g[i - 1]
      BY <2>5, <3>2, <3>3, <3>4, OneMore
    <3>6. T = bbox'
      BY <2>6, <3>2, <3>3
    <3> QED BY <3>1, <3>5, <3>6
  <2>8. ASSUME NEW i \in 1 .. Len(bbox') PROVE bbox'[i] = Box(root_info'[i - 1].stats)
    <3>1. i - 1 \in 0 .. LastRoot
      BY <1>3, <1>4, <2>1, <2>7
    <3> QED BY <1>2, <2>2, <2>7, <3>1
  <2>9. BoxesCopied'
    <3>1. Len(bbox') <= used_root_list_count /\ Len(bbox') <= MaxBoxes
      BY <1>3, <1>4, <2>1, <2>7
    <3> QED BY <1>2, <2>7, <2>8, <3>1, Zenon DEF BoxesCopied
  <2>10. Copying'
    BY <1>1, <1>2, <1>4, <1>5, <2>1, <2>9 DEF Copying
  <2> QED BY <1>2, <2>1, <2>10 DEF DetectorIInv, ReportPhase
<1>7. CASE ~ MoreBoxes
  <2>1. step' = "stats" /\ bbox' = bbox
    BY <1>1, <1>7 DEF CopyBox
  <2>2. Len(bbox)' = Lower(used_root_list_count, MaxBoxes)'
    BY <1>2, <1>3, <1>4, <1>7, <2>1 DEF MoreBoxes, Lower
  <2>3. BoxesCopied'
    BY <1>2, <1>4, <2>1 DEF BoxesCopied
  <2>4. Len(blob)' = blob_count'
    BY <1>1, <1>4
  <2>5. Copying'
    BY <1>2, <1>5, <2>1, <2>2, <2>3, <2>4 DEF Copying
  <2> QED BY <1>2, <2>1, <2>5 DEF DetectorIInv, ReportPhase
<1> QED BY <1>6, <1>7

\* An entry of the message more, or the message is ready.
LEMMA CopyStatsKeeps == DetectorIInv /\ CopyStats => DetectorIInv'
<1> SUFFICES ASSUME DetectorIInv, CopyStats PROVE DetectorIInv'
  OBVIOUS
<1>1. /\ pc = "done" /\ InfoOK /\ Copying /\ step = "stats" /\ UNCHANGED vars
      /\ bbox' = bbox
  BY DEF DetectorIInv, CopyStats, ReportPhase, Counting, Compacting, Sorting, Copying
<1>2. /\ pc' = "done" /\ InfoOK' /\ root_info' = root_info
      /\ used_root_list_count' = used_root_list_count
      /\ AllLarge(used_root_list_count)' /\ Names(0 .. LastRoot)' /\ Sorted'
  BY <1>1, CopyingStays
<1>3. /\ used_root_list_count \in Nat /\ MaxBoxes \in Nat /\ MaxUdpBlobs \in Nat
      /\ LastRoot = used_root_list_count - 1
  BY <1>1, InfoSizes
<1>4. /\ blob \in Seq(Stats) /\ Len(blob) = blob_count /\ blob_count \in Nat
      /\ blob_count <= used_root_list_count /\ blob_count <= MaxUdpBlobs
      /\ \A i \in 1 .. blob_count : blob[i] = root_info[i - 1].stats
      /\ Len(bbox) = Lower(used_root_list_count, MaxBoxes)
  BY <1>1 DEF Copying, StatsCopied
<1>5. BoxesCopied' /\ Len(bbox)' = Lower(used_root_list_count, MaxBoxes)'
  <2>1. BoxesCopied'
    BY <1>1, <1>2 DEF Copying, BoxesCopied
  <2> QED BY <1>1, <1>2, <1>4, <2>1
<1>6. CASE blob_count < used_root_list_count
  <2>1. blob' = Append(blob, root_info[blob_count].stats)
    BY <1>1, <1>6 DEF CopyStats
  <2>2. PICK g : g = [rx \in 0 .. LastRoot |-> root_info[rx].stats]
    OBVIOUS
  <2>3. blob_count \in 0 .. LastRoot /\ \A i \in 1 .. blob_count : i - 1 \in 0 .. LastRoot
    BY <1>3, <1>4, <1>6
  <2>4. g[blob_count] \in Stats /\ blob' = Append(blob, g[blob_count])
    BY <1>1, <2>1, <2>2, <2>3, InfoSizes
  <2>5. \A i \in 1 .. Len(blob) : blob[i] = g[i - 1]
    BY <1>4, <2>2, <2>3
  <2>6. /\ blob' \in Seq(Stats) /\ Len(blob') = blob_count + 1
        /\ \A i \in 1 .. Len(blob') : blob'[i] = g[i - 1]
    <3>1. PICK T : T = blob'
      OBVIOUS
    <3>2. PICK e \in Stats : e = g[Len(blob)] /\ T = Append(blob, e)
      BY <1>4, <2>4, <3>1
    <3>3. T \in Seq(Stats) /\ Len(T) = Len(blob) + 1 /\ \A i \in 1 .. Len(T) : T[i] = g[i - 1]
      BY <1>4, <2>5, <3>2, OneMore
    <3> QED BY <1>4, <3>1, <3>3
  <2>7. ASSUME NEW i \in 1 .. blob_count + 1 PROVE blob'[i] = root_info'[i - 1].stats
    <3>1. i \in 1 .. Len(blob') /\ i - 1 \in 0 .. LastRoot
      BY <1>3, <1>4, <1>6, <2>6
    <3> QED BY <1>2, <2>2, <2>6, <3>1
  <2>8. CASE blob_count >= MaxUdpBlobs
    <3>1. step' = "sent" /\ blob_count' = blob_count
      BY <1>1, <1>6, <2>8 DEF CopyStats
    <3>2. StatsCopied'
      BY <1>2, <1>4, <2>6, <2>7, <3>1 DEF StatsCopied
    <3>3. blob_count' = Lower(used_root_list_count, MaxUdpBlobs)'
      BY <1>2, <1>3, <1>4, <1>6, <2>8, <3>1 DEF Lower
    <3>4. Copying'
      BY <1>2, <1>5, <3>1, <3>2, <3>3 DEF Copying
    <3> QED BY <1>2, <3>1, <3>4 DEF DetectorIInv, ReportPhase
  <2>9. CASE ~ (blob_count >= MaxUdpBlobs)
    <3>1. step' = "stats" /\ blob_count' = blob_count + 1
      BY <1>1, <1>6, <2>9 DEF CopyStats
    <3>2. StatsCopied'
      BY <1>2, <1>3, <1>4, <1>6, <2>6, <2>7, <2>9, <3>1 DEF StatsCopied
    <3>3. Len(blob)' = blob_count'
      BY <2>6, <3>1
    <3>4. Copying'
      BY <1>2, <1>5, <3>1, <3>2, <3>3 DEF Copying
    <3> QED BY <1>2, <3>1, <3>4 DEF DetectorIInv, ReportPhase
  <2> QED BY <2>8, <2>9
<1>7. CASE ~ (blob_count < used_root_list_count)
  <2>1. step' = "sent" /\ blob' = blob /\ blob_count' = blob_count
    BY <1>1, <1>7 DEF CopyStats
  <2>2. StatsCopied'
    BY <1>1, <1>2, <1>4, <2>1 DEF StatsCopied
  <2>3. blob_count' = Lower(used_root_list_count, MaxUdpBlobs)'
    BY <1>2, <1>3, <1>4, <1>7, <2>1 DEF Lower
  <2>4. Copying'
    BY <1>2, <1>5, <2>1, <2>2, <2>3 DEF Copying
  <2> QED BY <1>2, <2>1, <2>4 DEF DetectorIInv, ReportPhase
<1> QED BY <1>6, <1>7

\* After the scan only the report moves.
LEMMA ScanStepKeeps == DetectorIInv /\ [Next]_vars /\ UNCHANGED report => DetectorIInv'
<1> SUFFICES ASSUME DetectorIInv, [Next]_vars, UNCHANGED report PROVE DetectorIInv'
  OBVIOUS
<1>1. /\ step' = step /\ ok_count' = ok_count /\ at' = at
      /\ bbox' = bbox /\ blob' = blob /\ blob_count' = blob_count
  BY DEF report
<1>2. CASE step = "scan"
  <2>1. IInv /\ HeldSome /\ ok_count = 0 /\ NothingSent
    BY <1>2 DEF DetectorIInv
  <2>2. IInv'
    BY <2>1, StepKeeps
  <2>3. HeldSome'
    BY <2>1, <2>2, StepHeld
  <2>4. NothingSent'
    BY <1>1, <2>1 DEF NothingSent
  <2> QED BY <1>1, <1>2, <2>1, <2>2, <2>3, <2>4 DEF DetectorIInv
<1>3. CASE step # "scan"
  <2>1. pc = "done" /\ InfoOK /\ ReportPhase
    BY <1>3 DEF DetectorIInv
  <2>2. UNCHANGED vars
    <3>1. ~ Next
      BY <2>1 DEF Next, NextRow, EndImage, EndRow, SkipPair, UnionNew, UnionLost,
                  UnionSingleton, UnionSets, Descend, Unwind, FoundSingleton, FoundFirst,
                  FoundSecond, Returned
    <3> QED BY <3>1
  <2>3. pc' = pc /\ root_info' = root_info /\ used_root_list_count' = used_root_list_count
    BY <2>2 DEF vars, forest
  <2>4. /\ InfoOK' /\ LastRoot' = LastRoot
        /\ \A n : AllLarge(n) => AllLarge(n)'
        /\ \A i : Names(i) => Names(i)'
    BY <2>1, <2>2, InfoStays
  <2>5. NothingSent => NothingSent'
    BY <1>1 DEF NothingSent
  <2>6. ASSUME Counting PROVE ReportPhase'
    <3>1. AllLarge(ok_count)'
      BY <1>1, <2>3, <2>6 DEF Counting, AllLarge, Large
    <3>2. Names(0 .. LastRoot)'
      BY <2>4, <2>6 DEF Counting
    <3>3. Counting'
      BY <1>1, <2>3, <2>5, <2>6, <3>1, <3>2 DEF Counting
    <3> QED BY <3>3 DEF ReportPhase
  <2>7. ASSUME Compacting PROVE ReportPhase'
    <3>1. PICK I : I = (0 .. ok_count - 1) \cup (at .. LastRoot)
      OBVIOUS
    <3>2. Names(I)'
      BY <2>4, <2>7, <3>1 DEF Compacting
    <3>3. Names((0 .. ok_count - 1) \cup (at .. LastRoot))'
      BY <1>1, <2>4, <3>1, <3>2 DEF Names, Named
    <3>4. AllLarge(ok_count)'
      BY <1>1, <2>3, <2>7 DEF Compacting, AllLarge, Large
    <3>5. Compacting'
      BY <1>1, <2>3, <2>5, <2>7, <3>3, <3>4 DEF Compacting
    <3> QED BY <3>5 DEF ReportPhase
  <2>8. ASSUME Sorting PROVE ReportPhase'
    <3>1. AllLarge(used_root_list_count)'
      BY <2>3, <2>8 DEF Sorting, AllLarge, Large
    <3>2. Names(0 .. LastRoot)'
      BY <2>4, <2>8 DEF Sorting
    <3>3. Sorting'
      BY <1>1, <2>5, <2>8, <3>1, <3>2 DEF Sorting
    <3> QED BY <3>3 DEF ReportPhase
  <2>9. ASSUME Copying PROVE ReportPhase'
    <3>1. AllLarge(used_root_list_count)' /\ Names(0 .. LastRoot)' /\ Sorted'
      BY <2>1, <2>2, <2>9, CopyingStays
    <3>2. BoxesCopied'
      BY <1>1, <2>3, <2>9 DEF Copying, BoxesCopied
    <3>3. StatsCopied'
      BY <1>1, <2>3, <2>9 DEF Copying, StatsCopied
    <3>4. Copying'
      BY <1>1, <2>3, <2>9, <3>1, <3>2, <3>3 DEF Copying
    <3> QED BY <3>4 DEF ReportPhase
  <2>10. ReportPhase'
    BY <2>1, <2>6, <2>7, <2>8, <2>9 DEF ReportPhase
  <2> QED BY <1>1, <1>3, <2>1, <2>3, <2>4, <2>10 DEF DetectorIInv
<1> QED BY <1>2, <1>3

\* The list of a finished report is the best one.
LEMMA DetectorIsBest == DetectorIInv => ReportIsBest
<1> SUFFICES ASSUME DetectorIInv, step = "sent", NeverFull
             PROVE  LET large == {c \in Components : StatsOfComponent(c).count >= MinPixels}
                        n == Cardinality(large)
                        sent == 1 .. blob_count
                    IN  /\ blob_count = Lower(n, MaxUdpBlobs) /\ Len(bbox) = Lower(n, MaxBoxes)
                        /\ \A i \in 1 .. Len(bbox) : i <= blob_count => bbox[i] = Box(blob[i])
                        /\ \E of \in [sent -> large] :
                              /\ \A i, j \in sent : of[i] = of[j] => i = j
                              /\ \A i \in sent : NoBottom(blob[i]) = NoBottom(StatsOfComponent(of[i]))
                              /\ \A c \in large : (\E i \in sent : of[i] = c)
                                    \/ \A i \in sent : blob[i].count >= StatsOfComponent(c).count
  BY Zenon DEF ReportIsBest
<1>1. InfoOK /\ Copying
  BY DEF DetectorIInv, ReportPhase, Counting, Compacting, Sorting, Copying
<1>2. /\ used_root_list_count \in Nat /\ MaxBoxes \in Nat /\ MaxUdpBlobs \in Nat
      /\ MinPixels \in Nat /\ LastRoot \in Int /\ LastRoot = used_root_list_count - 1
  BY <1>1, InfoSizes
<1>3. /\ blob_count \in Nat /\ blob_count = Lower(used_root_list_count, MaxUdpBlobs)
      /\ blob_count <= used_root_list_count
      /\ \A i \in 1 .. blob_count : blob[i] = root_info[i - 1].stats
  BY <1>1 DEF Copying, StatsCopied
<1>4. /\ Len(bbox) = Lower(used_root_list_count, MaxBoxes)
      /\ \A i \in 1 .. Len(bbox) : bbox[i] = Box(root_info[i - 1].stats)
  BY <1>1 DEF Copying, BoxesCopied
<1>5. PICK P : P = 0 .. LastRoot
  OBVIOUS
<1>6. PICK of : Named(of, P)
  BY <1>1, <1>5 DEF Copying, Names
<1>7. PICK large : large = {c \in Components : StatsOfComponent(c).count >= MinPixels}
  OBVIOUS
<1>8. PICK sent : sent = 1 .. blob_count
  OBVIOUS
<1>9. ASSUME NEW i \in P PROVE of[i] \in large /\ root_info[i].stats.count = StatsOfComponent(of[i]).count
  <2>1. of[i] \in Components /\ root_info[i].stats.count = StatsOfComponent(of[i]).count
    BY <1>6 DEF Named
  <2>2. root_info[i].stats.count >= MinPixels
    BY <1>1, <1>2, <1>5 DEF Copying, AllLarge, Large
  <2> QED BY <1>7, <2>1, <2>2
<1>10. \A c \in large : \E i \in P : of[i] = c
  BY <1>6, <1>7 DEF Named
<1>11. Cardinality(large) = used_root_list_count
  <2>1. PICK h : h = [i \in P |-> of[i]]
    OBVIOUS
  <2>2. h \in Bijection(P, large)
    <3>1. h \in [P -> large]
      BY <1>9, <2>1
    <3>2. \A i, j \in P : h[i] = h[j] => i = j
      BY <1>6, <2>1 DEF Named
    <3>3. \A c \in large : \E i \in P : h[i] = c
      BY <1>10, <2>1
    <3> QED BY <3>1, <3>2, <3>3 DEF Bijection, Injection, Surjection, IsInjective
  <2>3. IsFiniteSet(P) /\ Cardinality(P) = used_root_list_count
    BY <1>2, <1>5, FS_Interval
  <2>4. ExistsBijection(P, large)
    BY <2>2 DEF ExistsBijection
  <2> QED BY <2>3, <2>4, FS_Bijection
<1>12. ASSUME NEW i \in 1 .. Len(bbox), i <= blob_count PROVE bbox[i] = Box(blob[i])
  BY <1>3, <1>4, <1>12
<1>13. PICK now : now = [i \in sent |-> of[i - 1]]
  OBVIOUS
<1>14. \A i \in sent : i \in Int /\ i - 1 \in P /\ now[i] = of[i - 1] /\ blob[i] = root_info[i - 1].stats
  BY <1>2, <1>3, <1>5, <1>8, <1>13
<1>15. now \in [sent -> large]
  BY <1>9, <1>13, <1>14
<1>16. ASSUME NEW i \in sent, NEW j \in sent, now[i] = now[j] PROVE i = j
  <2>1. i - 1 = j - 1
    BY <1>6, <1>14, <1>16 DEF Named
  <2> QED BY <1>14, <2>1
<1>17. \A i \in sent : NoBottom(blob[i]) = NoBottom(StatsOfComponent(now[i]))
  <2>1. \A i \in P : NoBottom(root_info[i].stats) = NoBottom(StatsOfComponent(of[i]))
    BY <1>6 DEF Named
  <2> HIDE DEF NoBottom
  <2> QED BY <1>14, <2>1
<1>18. ASSUME NEW c \in large
       PROVE  (\E i \in sent : now[i] = c) \/ \A i \in sent : blob[i].count >= StatsOfComponent(c).count
  <2>1. PICK k \in P : of[k] = c
    BY <1>10
  <2>2. k \in Nat /\ k <= LastRoot /\ root_info[k].stats.count = StatsOfComponent(c).count
    BY <1>2, <1>5, <1>9, <2>1
  <2>3. CASE k < blob_count
    <3>1. k + 1 \in sent /\ (k + 1) - 1 = k
      BY <1>3, <1>8, <2>2, <2>3
    <3> QED BY <1>14, <2>1, <3>1
  <2>4. CASE ~ (k < blob_count)
    <3>1. ASSUME NEW i \in sent PROVE blob[i].count >= StatsOfComponent(c).count
      <4>1. i - 1 \in P /\ i - 1 < k
        BY <1>3, <1>8, <1>14, <2>2, <2>4
      <4>2. root_info[i - 1].stats.count >= root_info[k].stats.count
        BY <1>1, <1>5, <4>1 DEF Copying, Sorted
      <4> QED BY <1>14, <2>2, <4>2
    <3> QED BY <3>1
  <2> QED BY <2>3, <2>4
<1>19. \E o \in [sent -> large] :
          /\ \A i, j \in sent : o[i] = o[j] => i = j
          /\ \A i \in sent : NoBottom(blob[i]) = NoBottom(StatsOfComponent(o[i]))
          /\ \A c \in large : (\E i \in sent : o[i] = c)
                \/ \A i \in sent : blob[i].count >= StatsOfComponent(c).count
  BY <1>15, <1>16, <1>17, <1>18
<1> QED BY <1>3, <1>4, <1>7, <1>8, <1>11, <1>12, <1>19

\* For every image, whatever the sort does with equal counts and whatever the
\* sizes of the arrays: what is announced and drawn is the best that could be.
THEOREM ReportAlwaysBest == DetectorSpec => []ReportIsBest
<1>1. DetectorInit => DetectorIInv
  <2>1. Init => IInv /\ HeldSome
    BY InitHolds, InitHeld
  <2> QED BY <2>1 DEF DetectorInit, DetectorIInv, NothingSent
<1>2. DetectorIInv /\ [DetectorNext]_<<vars, report>> => DetectorIInv'
  <2> SUFFICES ASSUME DetectorIInv, [DetectorNext]_<<vars, report>> PROVE DetectorIInv'
    OBVIOUS
  <2>1. CASE Next /\ UNCHANGED report
    BY <2>1, ScanStepKeeps
  <2>2. CASE Report
    BY <2>2, EndScanKeeps, CountLargeKeeps, CompactKeeps, EndPurgeKeeps, SortBlobsKeeps,
       CopyBoxKeeps, CopyStatsKeeps DEF Report
  <2>3. CASE UNCHANGED <<vars, report>>
    BY <2>3, ScanStepKeeps
  <2> QED BY <2>1, <2>2, <2>3 DEF DetectorNext
<1>3. DetectorIInv => ReportIsBest
  BY DetectorIsBest
<1> QED BY <1>1, <1>2, <1>3, PTL DEF DetectorSpec
=============================================================================
