------------------------------ MODULE Dataset ------------------------------
(***************************************************************************)
(* The data set behind the canvas (MLDemos/datasetManager.cpp): samples,     *)
(* and beside them, in vectors of their own, a label and a flag for each;    *)
(* sequences, the ranges of samples that form a trajectory; and obstacles.   *)
(* Every operation has to keep the vectors in step and the ranges on the     *)
(* samples they were made for.                                               *)
(*                                                                           *)
(* This module holds the state and the operations that the program calls,    *)
(* as parts of the actions of module Drawing.                                *)
(*                                                                           *)
(* Abstractions of the data:                                                 *)
(*  - indices count from 1 (from 0 in the code);                             *)
(*  - a sample is where it lies and, as history, the label it was given;     *)
(*  - the vector of sequences, which AddSequence keeps sorted, is the set    *)
(*    of its elements: its last one is the one that starts last;             *)
(*  - only the number of obstacles counts;                                   *)
(*  - of the flags only _UNUSED and _TRAJ are ever set;                      *)
(*  - the permutation and the reward map, which nothing fills or reads       *)
(*    while the program runs, are left out.                                  *)
(***************************************************************************)
EXTENDS Integers, Sequences, FiniteSets

CONSTANTS
    Places,       \* where a sample may lie
    Labels        \* the labels of samples

VARIABLES
    samples,      \* sequence of [at, of]
    labels,       \* the label of each sample
    flags,        \* the flag of each sample: "unused" or "traj"
    sequences,    \* set of [first, second]
    obstacles     \* their number

dataVars == <<samples, labels, flags, sequences, obstacles>>

Samples == [at : Places, of : Labels]
Flags == {"unused", "traj"}
Count == Len(samples)

DataInit ==
    /\ samples = <<>> /\ labels = <<>> /\ flags = <<>>
    /\ sequences = {} /\ obstacles = 0

-----------------------------------------------------------------------------
(* Sequences of the module's own kind, as plain functions.                   *)

\* n copies of x
Fill(n, x) == [k \in 1 .. n |-> x]

\* s without its element i: what follows moves down by one
Without(s, i) == [k \in 1 .. Len(s) - 1 |-> IF k < i THEN s[k] ELSE s[k + 1]]

-----------------------------------------------------------------------------
Clear ==
    /\ samples' = <<>> /\ labels' = <<>> /\ flags' = <<>>
    /\ sequences' = {} /\ obstacles' = 0

\* AddSample, once or several times in a row
AddSample(new, flag) ==
    /\ samples' = samples \o new
    /\ labels' = labels \o [k \in 1 .. Len(new) |-> new[k].of]
    /\ flags' = flags \o Fill(Len(new), flag)
    /\ UNCHANGED <<sequences, obstacles>>

\* Clear and then AddSamples, as SetData calls them: every sample has a label
SetSamples(new) ==
    /\ samples' = new
    /\ labels' = [k \in 1 .. Len(new) |-> new[k].of]
    /\ flags' = Fill(Len(new), "unused")
    /\ sequences' = {} /\ obstacles' = 0

\* SetSample of every sample: it moves, its label and flag stay
MoveSamples(to) ==
    /\ samples' = [k \in 1 .. Count |-> [samples[k] EXCEPT !.at = to[k]]]
    /\ UNCHANGED <<labels, flags, sequences, obstacles>>

\* mutant: a later sequence does not move down
ShrunkInPlace(q, i) ==
    IF q.first <= i /\ q.second >= i THEN [q EXCEPT !.second = @ - 1] ELSE q

\* A sequence after sample i has gone: it moves down with its samples, or is
\* shortened when i was one of them.
Shrunk(q, i) ==
    IF q.first > i THEN [first |-> q.first - 1, second |-> q.second - 1]
    ELSE IF q.first = i \/ q.second >= i THEN [q EXCEPT !.second = @ - 1]
    ELSE q

\* a sequence of a single sample (or none) is popped, and its sample, if there
\* is one, is freed
Collapses(q, i) == Shrunk(q, i).first >= Shrunk(q, i).second
Frees(q, i, k) == Shrunk(q, i) = [first |-> k, second |-> k]

\* mutant: the labels stay where they are, and the last one is dropped
RemoveSampleOfLabel(i) ==
    IF Count = 1 THEN Clear
    ELSE /\ samples' = Without(samples, i)
         /\ labels' = SubSeq(labels, 1, Count - 1)
         /\ flags' = [k \in 1 .. Count - 1 |->
                        IF \E q \in sequences : Frees(q, i, k) THEN "unused"
                        ELSE Without(flags, i)[k]]
         /\ sequences' = {Shrunk(q, i) : q \in {r \in sequences : ~Collapses(r, i)}}
         /\ UNCHANGED obstacles

\* mutant: the sample of a sequence that is popped stays flagged
RemoveSampleFlagged(i) ==
    IF Count = 1 THEN Clear
    ELSE /\ samples' = Without(samples, i)
         /\ labels' = Without(labels, i)
         /\ flags' = Without(flags, i)
         /\ sequences' = {Shrunk(q, i) : q \in {r \in sequences : ~Collapses(r, i)}}
         /\ UNCHANGED obstacles

\* the last sample takes everything with it, the obstacles too
RemoveSample(i) ==
    IF Count = 1 THEN Clear
    ELSE /\ samples' = Without(samples, i)
         /\ labels' = Without(labels, i)
         /\ flags' = [k \in 1 .. Count - 1 |->
                        IF \E q \in sequences : Frees(q, i, k) THEN "unused"
                        ELSE Without(flags, i)[k]]
         /\ sequences' = {Shrunk(q, i) : q \in {r \in sequences : ~Collapses(r, i)}}
         /\ UNCHANGED obstacles

\* a sequence that ends beyond the samples is ignored
AddSequence(q) ==
    IF q.first > Count \/ q.second > Count THEN UNCHANGED dataVars
    ELSE /\ flags' = [k \in 1 .. Count |->
                        IF k \in q.first .. q.second THEN "traj" ELSE flags[k]]
         /\ sequences' = sequences \cup {q}
         /\ UNCHANGED <<samples, labels, obstacles>>

\* what Save writes and Load reads
Stored == [samples |-> samples, labels |-> labels, flags |-> flags,
           sequences |-> sequences, obstacles |-> obstacles]
NoData == [samples |-> <<>>, labels |-> <<>>, flags |-> <<>>, sequences |-> {},
           obstacles |-> 0]
LoadFrom(f) ==
    /\ samples' = f.samples /\ labels' = f.labels /\ flags' = f.flags
    /\ sequences' = f.sequences /\ obstacles' = f.obstacles

-----------------------------------------------------------------------------
(* What a well-formed data set is; l, g, q are labels, flags and sequences.  *)

Covers(q, k) == k \in q.first .. q.second

\* the vectors are in step, and every sample has the label it was given
InStep(s, l, g) ==
    /\ DOMAIN l = DOMAIN s /\ DOMAIN g = DOMAIN s
    /\ \A k \in DOMAIN s : l[k] = s[k].of

\* the sequences lie within the samples, apart from each other, and all their
\* samples are flagged
WellPlaced(s, g, qs) ==
    /\ \A q \in qs : 1 <= q.first /\ q.first <= q.second /\ q.second <= Len(s)
    /\ \A q \in qs : \A k \in q.first .. q.second : g[k] = "traj"
    /\ \A q, r \in qs : q = r \/ q.second < r.first \/ r.second < q.first
=============================================================================
