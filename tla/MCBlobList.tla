------------------------------ MODULE MCBlobList ------------------------------
(***************************************************************************)
(* BlobList and BlobComponents for TLC: the rows of small images.          *)
(***************************************************************************)
EXTENDS BlobComponents

\* The run list of a row whose detected columns are S.
RunsOf(S) ==
    LET starts == {c \in S : c - 1 \notin S}
        stop(c) == Min({e \in 1 .. Cols : e > c /\ e \notin S})
        nth(i) == CHOOSE c \in starts : Cardinality({d \in starts : d < c}) = i - 1
    IN  [i \in 1 .. Cardinality(starts) |->
            [run_low |-> nth(i), run_high |-> stop(nth(i))]]

\* Every row of n columns ...
RowsOf(n) == {RunsOf(S) : S \in SUBSET (0 .. n - 1)}

\* ... and rows of 15 columns from which trees of depth 2 grow: a wide bar and
\* six narrow ones, two of which are joined, and four pairwise and then all,
\* before a row leaves the wide bar's run on a node that is no root any more.
Wide == 0 .. 2
TreeRows == {RunsOf(Wide \cup {4, 6, 8, 10, 12, 14}),
             RunsOf(Wide \cup (4 .. 6) \cup (8 .. 10) \cup (12 .. 14)),
             RunsOf(Wide \cup (4 .. 6) \cup (8 .. 14)),
             RunsOf({0} \cup (2 .. 4) \cup (6 .. 8))}
=============================================================================
