------------------------------- MODULE BlobList -------------------------------
(***************************************************************************)
(* detect_color_blobs: one scan of an image, row by row, building the      *)
(* disjoint-set forest blob_set and the dense list root_info of its roots  *)
(* with their statistics (detect_color_blobs.c).                           *)
(*                                                                         *)
(* A row enters as the list of runs detect_yuv_runs_in_row returns for it: *)
(* any element of RowRuns (module YuvRuns shows what those lists are).     *)
(* The walk over two neighbouring rows makes one step per pair of runs it  *)
(* looks at; find_root makes one step per node on the way to the root and  *)
(* one per set_parent on the way back.  Indices are the code's, from 0,    *)
(* except in the run lists, which are sequences.                           *)
(***************************************************************************)
EXTENDS Integers, Sequences

CONSTANTS
    Cols,       \* width of the image
    Rows,       \* height of the image
    RowRuns,    \* the run lists a row may have
    MaxRuns,    \* max_runs of blob_list_init
    MaxBlobs    \* max_blobs of blob_list_init

\* USHRT_MAX
NOT_A_ROOT_LIST_INDEX == 65535

PlainRun == [run_low : 0 .. Cols - 1, run_high : 1 .. Cols]

\* Both counts are unsigned shorts, and USHRT_MAX is not an index.
ASSUME SizeAssumption ==
    /\ Cols \in Nat \ {0} /\ Rows \in Nat \ {0}
    /\ MaxRuns \in Nat \ {0} /\ MaxRuns < NOT_A_ROOT_LIST_INDEX
    /\ MaxBlobs \in Nat \ {0} /\ MaxBlobs <= NOT_A_ROOT_LIST_INDEX

\* What YuvRuns guarantees of a row: non-empty runs that never touch.
ASSUME RowRunsAssumption ==
    /\ RowRuns \subseteq Seq(PlainRun)
    /\ \A s \in RowRuns :
          /\ \A i \in 1 .. Len(s) : s[i].run_low < s[i].run_high
          /\ \A i, j \in 1 .. Len(s) : i < j => s[i].run_high < s[j].run_low

VARIABLES
    blob_set,               \* index -> [parent_index, root_list_index, rank]
    used_blob_set_count,
    root_info,              \* index -> [stats, set_index]
    used_root_list_count,
    image,                  \* the rows read so far
    prev, cur,              \* yuv_run0 and yuv_run1, the runs of two rows
    ai, bi,                 \* positions in prev and cur
    pc,                     \* "row", "walk", "descend", "unwind" or "done"
    finding,                \* what the running find_root is for
    node,                   \* where find_root is
    path,                   \* its recursion: nodes whose set_parent is due
    a_root                  \* result of the first find_root of a union

forest == <<blob_set, used_blob_set_count, root_info, used_root_list_count>>
rowVars == <<image, prev, cur>>
findVars == <<finding, node, path, a_root>>
vars == <<forest, rowVars, ai, bi, pc, findVars>>

-----------------------------------------------------------------------------
(* Blob_Stats *)

RunCount(r) == r.run_high - r.run_low

\* stats_init
StatsOf(row, r) ==
    [min_x |-> r.run_low, max_x |-> r.run_high - 1, min_y |-> row, max_y |-> row,
     sum_x |-> ((r.run_low + r.run_high - 1) * RunCount(r)) \div 2,
     sum_y |-> row * RunCount(r), count |-> RunCount(r)]

Lower(m, n)  == IF n < m THEN n ELSE m
Higher(m, n) == IF n > m THEN n ELSE m

\* stats_add
StatsAdd(a, b) ==
    [min_x |-> Lower(a.min_x, b.min_x), max_x |-> Higher(a.max_x, b.max_x),
     min_y |-> Lower(a.min_y, b.min_y), max_y |-> Higher(a.max_y, b.max_y),
     sum_x |-> a.sum_x + b.sum_x, sum_y |-> a.sum_y + b.sum_y,
     count |-> a.count + b.count]

\* stats_add_singleton: max_y is set to the row whenever the row is below the
\* top of the blob, min_y having been updated before.
StatsAddSingleton(s, row, r) ==
    LET sum == StatsAdd(s, StatsOf(row, r))
    IN  [sum EXCEPT !.max_y = IF row > sum.min_y THEN row ELSE s.max_y]

-----------------------------------------------------------------------------
(* The forest and the list of its roots *)

IsRoot(bx) == blob_set[bx].parent_index = bx

RootStats(bx) == root_info[blob_set[bx].root_list_index].stats

HasRoom == used_blob_set_count < MaxRuns + 1 /\ used_root_list_count < MaxBlobs

\* make_set, with room for it: a self-rooted entry and its root_info entry.
\* What becomes of stats is up to the caller, who adds the second run at once.
MakeSet(stats) ==
    /\ blob_set' = [blob_set EXCEPT ![used_blob_set_count] =
                      [parent_index |-> used_blob_set_count,
                       root_list_index |-> used_root_list_count, rank |-> 0]]
    /\ root_info' = [root_info EXCEPT ![used_root_list_count] =
                      [stats |-> stats, set_index |-> used_blob_set_count]]
    /\ used_blob_set_count' = used_blob_set_count + 1
    /\ used_root_list_count' = used_root_list_count + 1

\* Mutant of AbsorbRoot: the moved root_info entry's node is not told.
AbsorbRootUnlinked(ranked, child, parent) ==
    LET crx == blob_set[child].root_list_index
        prx == blob_set[parent].root_list_index
        last == used_root_list_count - 1
        added == [root_info EXCEPT ![prx].stats =
                     StatsAdd(root_info[prx].stats, root_info[crx].stats)]
    IN  /\ root_info' = [added EXCEPT ![crx] = added[last]]
        /\ used_root_list_count' = last
        /\ blob_set' = [ranked EXCEPT ![child].root_list_index = NOT_A_ROOT_LIST_INDEX,
                                      ![child].parent_index = parent]
        /\ UNCHANGED used_blob_set_count

\* Mutant of AbsorbRoot: the child's statistics are dropped with its entry.
AbsorbRootForgets(ranked, child, parent) ==
    LET crx == blob_set[child].root_list_index
        last == used_root_list_count - 1
        moved == root_info[last].set_index
    IN  /\ root_info' = [root_info EXCEPT ![crx] = root_info[last]]
        /\ used_root_list_count' = last
        /\ blob_set' =
             [[ranked EXCEPT ![moved].root_list_index = crx]
                     EXCEPT ![child].root_list_index = NOT_A_ROOT_LIST_INDEX,
                            ![child].parent_index = parent]
        /\ UNCHANGED used_blob_set_count

\* set_parent of a child that is a root: its statistics go to the parent's
\* entry, delete_root_list_entry moves the last root_info entry into its place
\* and tells that entry's blob_set node, and then the child stops being a root.
\* ranked is blob_set as link leaves it for set_parent.
AbsorbRoot(ranked, child, parent) ==
    LET crx == blob_set[child].root_list_index
        prx == blob_set[parent].root_list_index
        last == used_root_list_count - 1
        added == [root_info EXCEPT ![prx].stats =
                     StatsAdd(root_info[prx].stats, root_info[crx].stats)]
        moved == added[last].set_index
    IN  /\ root_info' = [added EXCEPT ![crx] = added[last]]
        /\ used_root_list_count' = last
        /\ blob_set' =
             [[ranked EXCEPT ![moved].root_list_index = crx]
                     EXCEPT ![child].root_list_index = NOT_A_ROOT_LIST_INDEX,
                            ![child].parent_index = parent]
        /\ UNCHANGED used_blob_set_count

\* Mutant of Link: equal ranks, but the winner's is not raised.
LinkUnranked(s, t) ==
    IF blob_set[s].rank > blob_set[t].rank THEN AbsorbRoot(blob_set, t, s)
                                           ELSE AbsorbRoot(blob_set, s, t)

\* link: union by rank.
Link(s, t) ==
    IF blob_set[s].rank > blob_set[t].rank
    THEN AbsorbRoot(blob_set, t, s)
    ELSE AbsorbRoot(IF blob_set[s].rank = blob_set[t].rank
                    THEN [blob_set EXCEPT ![t].rank = @ + 1] ELSE blob_set,
                    s, t)

LinkRoot(s, t) == IF blob_set[s].rank > blob_set[t].rank THEN s ELSE t

-----------------------------------------------------------------------------
(* The walk *)

NoEntry == [parent_index |-> 0, root_list_index |-> NOT_A_ROOT_LIST_INDEX, rank |-> 0]
NoInfo == [stats |-> StatsOf(0, [run_low |-> 0, run_high |-> 1]), set_index |-> 0]

\* blob_list_init and blob_list_clear.  Entries behind the used counts are
\* malloc'ed memory or left over from the last image: never read, any value.
Init ==
    /\ blob_set = [bx \in 0 .. MaxRuns |-> NoEntry] /\ used_blob_set_count = 1
    /\ root_info = [rx \in 0 .. MaxBlobs - 1 |-> NoInfo] /\ used_root_list_count = 0
    /\ image = <<>> /\ prev = <<>> /\ cur = <<>>
    /\ ai = 1 /\ bi = 1
    /\ pc = "row"
    /\ finding = "none" /\ node = 0 /\ path = <<>> /\ a_root = 0

\* ii of the row being worked on.
ii == Len(image) - 1

Yuv(runs) ==
    [i \in 1 .. Len(runs) |->
        [parent_index |-> 0, run_low |-> runs[i].run_low, run_high |-> runs[i].run_high]]

(* The next row of the image, or the end of it. *)
NextRow ==
    /\ pc = "row" /\ Len(image) < Rows
    /\ \E runs \in RowRuns : image' = Append(image, runs) /\ cur' = Yuv(runs)
    /\ prev' = cur
    /\ ai' = 1 /\ bi' = 1 /\ pc' = "walk"
    /\ UNCHANGED <<forest, findVars>>

EndImage ==
    /\ pc = "row" /\ Len(image) = Rows
    /\ pc' = "done"
    /\ UNCHANGED <<forest, rowVars, ai, bi, findVars>>

MorePairs == ai <= Len(prev) /\ bi <= Len(cur)

EndRow ==
    /\ pc = "walk" /\ ~MorePairs
    /\ pc' = "row"
    /\ UNCHANGED <<forest, rowVars, ai, bi, findVars>>

\* x, the larger run_low, lies in both runs: they have a column in common.
Overlap ==
    LET x == Higher(prev[ai].run_low, cur[bi].run_low)
    IN  x < prev[ai].run_high /\ x < cur[bi].run_high

\* Mutant of Advance: past the run that ends last.
AdvanceLongest ==
    IF prev[ai].run_high < cur[bi].run_high THEN bi' = bi + 1 /\ ai' = ai
                                            ELSE ai' = ai + 1 /\ bi' = bi

\* Past the run that ends first.  In both branches of yuv_run_row_union that
\* skip without a union it is also the one that ends first.
Advance ==
    IF prev[ai].run_high < cur[bi].run_high THEN ai' = ai + 1 /\ bi' = bi
                                            ELSE bi' = bi + 1 /\ ai' = ai

SkipPair ==
    /\ pc = "walk" /\ MorePairs /\ ~Overlap
    /\ Advance
    /\ UNCHANGED <<forest, rowVars, pc, findVars>>

a_parent == prev[ai].parent_index
b_parent == cur[bi].parent_index

SetParents(root) ==
    /\ prev' = [prev EXCEPT ![ai].parent_index = root]
    /\ cur' = [cur EXCEPT ![bi].parent_index = root]
    /\ UNCHANGED image

(* yuv_run_union of two runs that are in no set yet. *)
UnionNew ==
    /\ pc = "walk" /\ MorePairs /\ Overlap
    /\ a_parent = 0 /\ b_parent = 0
    /\ HasRoom
    /\ MakeSet(StatsAddSingleton(StatsOf(ii - 1, prev[ai]), ii, cur[bi]))
    /\ SetParents(used_blob_set_count)
    /\ Advance
    /\ UNCHANGED <<pc, findVars>>

(* The same when make_set returns 0: the pixels are lost. *)
UnionLost ==
    /\ pc = "walk" /\ MorePairs /\ Overlap
    /\ a_parent = 0 /\ b_parent = 0
    /\ ~HasRoom
    /\ Advance
    /\ UNCHANGED <<forest, rowVars, pc, findVars>>

(* The other cases begin with find_root: of the one run that has a set ...  *)
UnionSingleton ==
    /\ pc = "walk" /\ MorePairs /\ Overlap
    /\ (a_parent = 0) # (b_parent = 0)
    /\ pc' = "descend" /\ finding' = "singleton"
    /\ node' = IF a_parent = 0 THEN b_parent ELSE a_parent
    /\ UNCHANGED <<forest, rowVars, ai, bi, path, a_root>>

(* ... or of a, and then of b.                                              *)
UnionSets ==
    /\ pc = "walk" /\ MorePairs /\ Overlap
    /\ a_parent # 0 /\ b_parent # 0
    /\ pc' = "descend" /\ finding' = "first" /\ node' = a_parent
    /\ UNCHANGED <<forest, rowVars, ai, bi, path, a_root>>

\* Mutant of Descend: takes the parent for the root, as if trees were flat.
DescendOnce ==
    /\ pc = "descend"
    /\ node' = blob_set[node].parent_index /\ pc' = "unwind"
    /\ UNCHANGED <<forest, rowVars, ai, bi, finding, path, a_root>>

(* find_root, find_root_recursive: the call for the parent. *)
Descend ==
    /\ pc = "descend"
    /\ IF IsRoot(node) THEN pc' = "unwind" /\ UNCHANGED <<node, path>>
                       ELSE /\ path' = Append(path, node)
                            /\ node' = blob_set[node].parent_index
                            /\ UNCHANGED pc
    /\ UNCHANGED <<forest, rowVars, ai, bi, finding, a_root>>

(* A call returns: set_parent of a node that is no root. *)
Unwind ==
    /\ pc = "unwind" /\ path # <<>>
    /\ blob_set' = [blob_set EXCEPT ![path[Len(path)]].parent_index = node]
    /\ path' = SubSeq(path, 1, Len(path) - 1)
    /\ UNCHANGED <<used_blob_set_count, root_info, used_root_list_count,
                   rowVars, ai, bi, pc, finding, node, a_root>>

\* Run b after the swap of yuv_run_union: the one without a set, and its row.
AddSingleton ==
    LET rx == blob_set[node].root_list_index
        s  == root_info[rx].stats
    IN  root_info' = [root_info EXCEPT ![rx].stats =
            IF a_parent = 0 THEN StatsAddSingleton(s, ii - 1, prev[ai])
                            ELSE StatsAddSingleton(s, ii, cur[bi])]

Returned(what) == pc = "unwind" /\ path = <<>> /\ finding = what

UnionIsOver == pc' = "walk" /\ finding' = "none" /\ node' = 0 /\ a_root' = 0 /\ UNCHANGED path

FoundSingleton ==
    /\ Returned("singleton")
    /\ AddSingleton /\ SetParents(node) /\ Advance /\ UnionIsOver
    /\ UNCHANGED <<blob_set, used_blob_set_count, used_root_list_count>>

FoundFirst ==
    /\ Returned("first")
    /\ a_root' = node /\ node' = b_parent
    /\ pc' = "descend" /\ finding' = "second"
    /\ UNCHANGED <<forest, rowVars, ai, bi, path>>

\* Mutant of FoundSecond: a set is linked with itself when both runs are in it.
FoundSecondUnchecked ==
    /\ Returned("second")
    /\ root_info' = [root_info EXCEPT ![blob_set[node].root_list_index].stats = StatsAdd(@, @)]
    /\ UNCHANGED <<blob_set, used_blob_set_count, used_root_list_count>>
    /\ SetParents(node)
    /\ Advance /\ UnionIsOver

FoundSecond ==
    /\ Returned("second")
    /\ IF a_root = node THEN UNCHANGED <<forest, rowVars>>
                        ELSE Link(a_root, node) /\ SetParents(LinkRoot(a_root, node))
    /\ Advance /\ UnionIsOver

Next == NextRow \/ EndImage \/ EndRow \/ SkipPair
        \/ UnionNew \/ UnionLost \/ UnionSingleton \/ UnionSets
        \/ Descend \/ Unwind \/ FoundSingleton \/ FoundFirst \/ FoundSecond

Spec == Init /\ [][Next]_vars /\ WF_vars(Next)

-----------------------------------------------------------------------------
(* Properties *)

Stats == [min_x : 0 .. Cols - 1, max_x : 0 .. Cols - 1,
          min_y : 0 .. Rows - 1, max_y : 0 .. Rows - 1,
          sum_x : Nat, sum_y : Nat, count : Nat]

\* Indices into blob_set that are in use; entry 0 stands for "no set".
Entry == 1 .. used_blob_set_count - 1

YuvRun == [parent_index : Entry \cup {0}, run_low : 0 .. Cols - 1, run_high : 1 .. Cols]

TypeOK ==
    /\ used_blob_set_count \in 1 .. MaxRuns + 1
    /\ used_root_list_count \in 0 .. MaxBlobs
    /\ blob_set \in [0 .. MaxRuns -> [parent_index : Entry \cup {0}, rank : Nat,
                                      root_list_index : 0 .. NOT_A_ROOT_LIST_INDEX]]
    /\ root_info \in [0 .. MaxBlobs - 1 -> [stats : Stats, set_index : Entry \cup {0}]]
    /\ image \in Seq(RowRuns) /\ Len(image) <= Rows
    /\ prev \in Seq(YuvRun) /\ cur \in Seq(YuvRun)
    /\ ai \in 1 .. Len(prev) + 1 /\ bi \in 1 .. Len(cur) + 1
    /\ pc \in {"row", "walk", "descend", "unwind", "done"}
    /\ finding \in {"none", "singleton", "first", "second"}
    /\ node \in Entry \cup {0} /\ a_root \in Entry \cup {0} /\ path \in Seq(Entry)

RootsListed ==
    /\ \A rx \in 0 .. used_root_list_count - 1 :
          LET bx == root_info[rx].set_index
          IN  bx \in Entry /\ IsRoot(bx) /\ blob_set[bx].root_list_index = rx
    /\ \A bx \in Entry :
          IF IsRoot(bx)
          THEN /\ blob_set[bx].root_list_index \in 0 .. used_root_list_count - 1
               /\ root_info[blob_set[bx].root_list_index].set_index = bx
          ELSE blob_set[bx].root_list_index = NOT_A_ROOT_LIST_INDEX

\* set_root_list_entry's contract: throughout the scan of an image, root_info
\* lists exactly the roots of the forest, densely, each once, and each root knows
\* its place in the list.  (The purge that comes later removes small blobs.)
RootListConsistent == pc # "done" => RootsListed

\* The asserts of find_root, set_parent, link and yuv_run_union: every node on
\* the way is a used one and below the root, what find_root returns is a root,
\* and the first of two roots is still one when the second has been found.
AssertsHold ==
    /\ pc \in {"descend", "unwind"} => node \in Entry
    /\ pc = "unwind" =>
          IsRoot(node) /\ blob_set[node].root_list_index # NOT_A_ROOT_LIST_INDEX
    /\ \A k \in 1 .. Len(path) :
          blob_set[path[k]].root_list_index = NOT_A_ROOT_LIST_INDEX
    /\ finding = "second" =>
          /\ a_root \in Entry /\ IsRoot(a_root)
          /\ blob_set[a_root].root_list_index \in 0 .. used_root_list_count - 1

\* Ranks grow towards the root, whatever link and path compression do: the
\* parent pointers have no cycle, so find_root comes to an end.
RanksIncrease ==
    \A bx \in Entry :
        ~IsRoot(bx) => blob_set[bx].rank < blob_set[blob_set[bx].parent_index].rank

-----------------------------------------------------------------------------
(* The forest implements Blobs *)

\* Where the parents of an entry lead, in as many steps as there are entries.
Root(bx) ==
    LET up[k \in 0 .. used_blob_set_count] ==
            IF k = 0 THEN bx ELSE blob_set[up[k - 1]].parent_index
    IN  up[used_blob_set_count]

ForestBlobs ==
    {[members |-> {bx \in Entry : Root(bx) = r}, count |-> RootStats(r).count] :
        r \in {bx \in Entry : IsRoot(bx)}}

Abstract == INSTANCE Blobs
                WITH blobs <- (IF pc = "done" THEN {} ELSE ForestBlobs), open <- (pc # "done")

\* Every step of the scan begins, grows or merges blobs or leaves all of them
\* alone: in particular path compression never moves an entry to another blob
\* and link never splits one.  The end of the image hands the list over.
ImplementsBlobs == Abstract!Spec
=============================================================================
