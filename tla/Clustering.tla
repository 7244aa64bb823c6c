----------------------------- MODULE Clustering -----------------------------
(***************************************************************************)
(* Two of the clustering algorithms behind the Cluster and the "One         *)
(* iteration" buttons (Cluster, ClusterIterate of MLDemos/mlprocessing.cpp):  *)
(* K-means (OpenCV/clustererKM.cpp, kmeans.cpp) and QT clustering             *)
(* (XMeans/clustererQTClust.cpp, Clustering.cpp).  Both loop until they are     *)
(* done, in the GUI thread and with mutex held: everything else waits for       *)
(* them, and the drawing thread asks Test only once they have ended.             *)
(*                                                                           *)
(* One step is one pass of the loop over all the points.                         *)
(*                                                                           *)
(* Abstractions: coordinates are the integers of a small grid, which random      *)
(* means lie on too, and a mean is a sum and how many points it is of, so that    *)
(* arithmetic is exact; soft K-means and the mixture of Gaussians behind the same  *)
(* tab are left out, as is what an iteration does to a model of another tab,        *)
(* which SetParams casts to its own class.                                          *)
(***************************************************************************)
EXTENDS Integers, SequencesExt

CONSTANTS
    Grid,           \* the places of samples, a set of pairs
    MaxSamples,     \* bounds the samples
    Clusters,       \* kmeansClusterSpin
    Norms,          \* kmeansNormCombo: 0 is the infinite norm
    Updates,        \* how often Update is called to train afresh, 21
    Extents,        \* minDistanceSpin
    Counts          \* minSampleCount

ASSUME ClusteringAssumption ==
    /\ Grid \subseteq Nat \X Nat
    /\ Clusters \subseteq Nat \ {0} /\ Norms \subseteq Nat /\ Updates \in Nat \ {0}
    /\ MaxSamples \in Nat /\ Extents \subseteq Nat /\ Counts \subseteq Nat

VARIABLES
    samples,        \* the data on the canvas
    model,          \* the clusterer: "none", "KM" or "QT"
    option,         \* its options: the norm, or extent and count
    at,             \* where its training is: "idle", "update", "pass" or "gather"
    points,         \* the samples it was given,
    owner,          \* and the cluster of each, 0 if it has none
    means,          \* K-means
    left,           \* calls of Update to go
    settled         \* history: calls of Update that have ended since the norm was set, up to 2

trainVars == <<at, points, owner, means, left, settled>>
vars == <<samples, model, option, trainVars>>

Mean(sum, n) == [sum |-> sum, of |-> n]
Means == {Mean(p, 1) : p \in Grid}
SameMean(a, b) == \A d \in 1 .. 2 : a.sum[d] * b.of = b.sum[d] * a.of

Init ==
    /\ samples \in UNION {[1 .. n -> Grid] : n \in 0 .. MaxSamples}
    /\ model = "none" /\ option = 0
    /\ at = "idle" /\ points = <<>> /\ owner = <<>> /\ means = <<>>
    /\ left = 0 /\ settled = 0

-----------------------------------------------------------------------------
(* distances                                                                 *)

Off(x, m, d) == LET o == x[d] * m.of - m.sum[d] IN IF o < 0 THEN -o ELSE o
Power(p, n) ==
    LET p2[j \in 0 .. n] == IF j = 0 THEN 1 ELSE p2[j - 1] * p IN p2[n]
Distance(x, m, norm) ==
    IF norm = 0 THEN Max({Off(x, m, 1), Off(x, m, 2)})
    ELSE Power(Off(x, m, 1), norm) + Power(Off(x, m, 2), norm)
\* the scale of a mean's distances
Scale(m, norm) == Power(m.of, IF norm = 0 THEN 1 ELSE norm)
Nearer(x, a, b, norm) ==
    Distance(x, a, norm) * Scale(b, norm) < Distance(x, b, norm) * Scale(a, norm)

\* mutant: the largest distance is found
FindLargest(x, ms, norm) ==
    CHOOSE j \in DOMAIN ms :
        \A l \in DOMAIN ms : ~Nearer(x, ms[j], ms[l], norm) /\ (l < j => Nearer(x, ms[l], ms[j], norm))

\* the first of the nearest
FindSmallest(x, ms, norm) ==
    CHOOSE j \in DOMAIN ms :
        \A l \in DOMAIN ms : ~Nearer(x, ms[l], ms[j], norm) /\ (l < j => Nearer(x, ms[j], ms[l], norm))

-----------------------------------------------------------------------------
(* K-means                                                                   *)

\* mutant: each mean that lies upon another is drawn anew, also the earlier one
SuperposedOnAny(ms) ==
    {new \in [DOMAIN ms -> Means \cup Range(ms)] :
       \A n \in DOMAIN ms :
           new[n] \in IF \E j \in DOMAIN ms \ {n} : SameMean(ms[n], ms[j]) THEN Means ELSE {ms[n]}}

\* each mean that lies upon an earlier one is drawn anew
Superposed(ms) ==
    LET upTo[n \in 0 .. Len(ms)] ==
          IF n = 0 THEN {<<>>}
          ELSE UNION {{Append(new, m) : m \in IF \E j \in DOMAIN new : SameMean(ms[n], new[j])
                                              THEN Means ELSE {ms[n]}} : new \in upTo[n - 1]} IN
    upTo[Len(ms)]

Update ==
    /\ at = "update" /\ at' = "pass"
    /\ means' \in Superposed(means)
    /\ left' = left - 1
    /\ UNCHANGED <<samples, model, option, points, owner, settled>>

\* no more clusters take part than there are points
Partaking == SubSeq(means, 1, Min({Len(means), Len(points)}))

\* the sum of the points of cluster j, in dimension d
SumOf(j, owners, d) ==
    LET upTo[n \in 0 .. Len(points)] ==
          IF n = 0 THEN 0
          ELSE IF owners[n] = j THEN upTo[n - 1] + points[n][d] ELSE upTo[n - 1] IN
    upTo[Len(points)]
\* the mean of an empty cluster is 0
MeanOf(j, owners) ==
    Mean(<<SumOf(j, owners, 1), SumOf(j, owners, 2)>>,
         Max({1, Cardinality({i \in DOMAIN points : owners[i] = j})}))

\* mutant: bSomethingChanged is what the last point says
ChangedAtLast(new) == new[Len(new)] # owner[Len(new)]
Changed(new) == new # owner

\* mutant: one Update too many
UpdateAgainOnce == left >= 0
UpdateAgain == left > 0

KmeansPass ==
    /\ at = "pass"
    /\ owner' = [i \in DOMAIN points |-> FindSmallest(points[i], Partaking, option)]
    /\ means' = [j \in DOMAIN means |->
                   IF j \in DOMAIN Partaking THEN MeanOf(j, owner') ELSE means[j]]
    /\ IF Changed(owner') THEN UNCHANGED <<at, settled>>
       ELSE /\ at' = IF UpdateAgain THEN "update" ELSE "idle"
            /\ settled' = Min({2, settled + 1})
    /\ UNCHANGED <<samples, model, option, points, left>>

\* a new clusterer: its means are points, and all points are in the first cluster
Fresh(k, norm, updates) ==
    /\ samples # <<>>
    /\ model' = "KM" /\ option' = norm
    /\ points' = samples /\ owner' = [i \in DOMAIN samples |-> 1]
    /\ means' \in [1 .. k -> {Mean(p, 1) : p \in Range(samples)}]
    /\ left' = updates /\ settled' = 0 /\ at' = "update"
    /\ UNCHANGED samples

\* The model goes on with the points and as many means as it was made with,
\* whatever has been drawn since and whatever the options say.
Again(norm) ==
    /\ samples # <<>>
    /\ option' = norm /\ left' = 1 /\ at' = "update"
    /\ settled' = IF norm = option THEN settled ELSE 0
    /\ UNCHANGED <<samples, model, points, owner, means>>

-----------------------------------------------------------------------------
(* QT clustering                                                             *)

Apart(i, j, d) == LET o == points[i][d] - points[j][d] IN IF o < 0 THEN -o ELSE o

\* mutant: the extent is measured in the first dimension only
FitsAcross(i, group, extent) == \A j \in group : Apart(i, j, 1) <= extent

\* diameterInf: the limits of the group, widened to i, stay within the extent
Fits(i, group, extent) == \A j \in group, d \in 1 .. 2 : Apart(i, j, d) <= extent

\* what gathers around point i: those not taken yet, in order, as long as they fit
Gathered(i) ==
    LET upTo[n \in 0 .. Len(points)] ==
          IF n = 0 THEN {i}
          ELSE LET group == upTo[n - 1] IN
               group \cup {j \in {n} : owner[j] = 0 /\ Fits(j, group, option.extent)} IN
    upTo[Len(points)]
Found == Max({0} \cup Range(owner))

\* the first of the largest becomes a cluster, if it is large enough
Gather ==
    /\ at = "gather"
    /\ LET free == {i \in DOMAIN points : owner[i] = 0}
           size == [i \in free |-> Cardinality(Gathered(i))]
           seed == CHOOSE i \in free :
               \A j \in free : size[j] <= size[i] /\ (j < i => size[j] < size[i]) IN
       IF free = {} \/ size[seed] < option.count
       THEN at' = "idle" /\ UNCHANGED owner
       ELSE /\ owner' = [i \in DOMAIN points |->
                           IF i \in Gathered(seed) THEN Found + 1 ELSE owner[i]]
            /\ UNCHANGED at
    /\ UNCHANGED <<samples, model, option, points, means, left, settled>>

\* a new clusterer, or the old one trained again: it starts from nothing
Quality(extent, count) ==
    /\ samples # <<>>
    /\ model' = "QT" /\ option' = [extent |-> extent, count |-> count]
    /\ points' = samples /\ owner' = [i \in DOMAIN samples |-> 0]
    /\ means' = <<>> /\ left' = 0 /\ settled' = 0 /\ at' = "gather"
    /\ UNCHANGED samples

-----------------------------------------------------------------------------
Cluster ==
    /\ at = "idle"
    /\ \/ \E k \in Clusters, norm \in Norms : Fresh(k, norm, Updates)
       \/ \E e \in Extents, n \in Counts : Quality(e, n)

ClusterIterate ==
    /\ at = "idle"
    /\ \/ /\ model = "none"
          /\ \E k \in Clusters, norm \in Norms : Fresh(k, norm, 1)
       \/ model = "KM" /\ \E norm \in Norms : Again(norm)
       \/ model \in {"none", "QT"} /\ \E e \in Extents, n \in Counts : Quality(e, n)

AddSample ==
    /\ at = "idle" /\ Len(samples) < MaxSamples
    /\ \E p \in Grid : samples' = Append(samples, p)
    /\ UNCHANGED <<model, option, trainVars>>

Clear ==
    /\ at = "idle"
    /\ model' = "none" /\ option' = 0
    /\ points' = <<>> /\ owner' = <<>> /\ means' = <<>> /\ left' = 0 /\ settled' = 0
    /\ samples' \in {samples, <<>>}     \* ClearData
    /\ UNCHANGED at

Step == Update \/ KmeansPass \/ Gather
Next == Cluster \/ ClusterIterate \/ Step \/ AddSample \/ Clear

\* a slot that has been entered runs on
Spec == Init /\ [][Next]_vars /\ WF_vars(Step)

-----------------------------------------------------------------------------
(* Properties                                                                *)

(* The type invariant. *)
ClusterTypes ==
    /\ {samples, points} \subseteq Seq(Grid)
    /\ model \in {"none", "KM", "QT"} /\ at \in {"idle", "update", "pass", "gather"}
    /\ owner \in Seq(Nat) /\ Len(owner) = Len(points)
    /\ means \in Seq([sum : Nat \X Nat, of : Nat \ {0}])
    /\ left \in Nat /\ settled \in 0 .. 2

\* The loops end, in any of the norms, although means are averages in all of them,
\* empty clusters jump to the origin and superposed ones anywhere: the slot returns
\* and gives mutex back.
TrainingEnds == (at # "idle") ~> (at = "idle")

\* Once K-means has been updated, every mean that takes part is the average of the points
\* that are in its cluster, except that Update may have drawn it anew: then its average lay
\* upon a mean before it, as that is now.
MeansAreAverages ==
    (model = "KM" /\ settled > 0) =>
        \A j \in DOMAIN Partaking :
            \/ means[j] = MeanOf(j, owner)
            \/ at = "pass" /\ \E l \in 1 .. j - 1 : SameMean(MeanOf(j, owner), means[l])

\* Once K-means has been updated twice in the same norm, by Cluster or by two presses
\* of the button, every point is in the cluster that Test says it is in: the first
\* Update may end with means it has not compared the points with.  With more clusters
\* than points Test sees means that took no part.
PointsAreNearest ==
    (at = "idle" /\ model = "KM" /\ settled = 2 /\ Len(means) <= Len(points)) =>
        \A i \in DOMAIN points : owner[i] = FindSmallest(points[i], means, option)

\* No cluster of QT clustering is wider than the extent or smaller than the count,
\* in whatever order the points gather.
Members(c) == {i \in DOMAIN points : owner[i] = c}
ClustersHaveQuality ==
    model = "QT" =>
        \A c \in 1 .. Found :
            /\ Cardinality(Members(c)) >= option.count
            /\ \A i, j \in Members(c), d \in 1 .. 2 : Apart(i, j, d) <= option.extent
=============================================================================
