------------------------------- MODULE LodLevels -------------------------------
(***************************************************************************)
(* The levels of a lod=preview, balanced or quality read: which points a   *)
(* level samples (Sampling.cpp), what a hierarchy must be to be taken      *)
(* (Lod.cpp) and to be authored (PointCloudLayer.cpp).  Levels are indexed *)
(* from 0, the full one.                                                   *)
(***************************************************************************)
EXTENDS Naturals

Profiles == {"preview", "balanced", "quality"}

(* The levels below the full one, and the share of the points they hold.   *)
Coarser(profile) ==
    1..(IF profile = "preview" THEN 1 ELSE IF profile = "balanced" THEN 2 ELSE 3)

Divisor(level) == IF level = 1 THEN 4 ELSE IF level = 2 THEN 16 ELSE 64

(* addTarget of BuildPointLodAssets: n / d rounded up, one at least.       *)
Target(n, d) == IF (n + d - 1) \div d > 1 THEN (n + d - 1) \div d ELSE 1

Targets(n, profile) ==
    [level \in {0} \cup Coarser(profile) |->
        IF level = 0 THEN n ELSE Target(n, Divisor(level))]

(* SamplePointData: point number i of target many of n.                    *)
SourceIndex(n, target, i) == (i * n) \div target

Sample(n, target) == [i \in 0..(target - 1) |-> SourceIndex(n, target, i)]

(* PointSamplingOptions::IsValid                                           *)
SamplingIsValid(n, target) == target # 0 /\ target <= n

(* In percent, as many as there are levels below the full one.             *)
Thresholds(profile) ==
    [level \in Coarser(profile) |->
        IF level = 1 THEN 75 ELSE IF level = 2 THEN 25 ELSE 5]

(* PointLodHierarchy::IsValid of items that are the levels' point counts.  *)
HierarchyValid(counts, thresholds) ==
    /\ 0 \in DOMAIN counts
    /\ DOMAIN counts = {0} \cup DOMAIN thresholds
    /\ \A l \in DOMAIN thresholds :
          thresholds[l] > 0 /\ (l > 1 => thresholds[l] < thresholds[l - 1])
    /\ \A l \in DOMAIN counts : counts[l] # 0 /\ (l > 0 => counts[l] <= counts[l - 1])

(* BuildPointLodAssets and AuthorPointCloudLodAsset succeed: the source    *)
(* has points, every level can be sampled, the hierarchy is valid and its  *)
(* items count the points of their levels.                                 *)
LodAuthored(n, profile) ==
    LET targets == Targets(n, profile) IN
    /\ n > 0
    /\ \A l \in DOMAIN targets : targets[l] # n => SamplingIsValid(n, targets[l])
    /\ HierarchyValid(targets, Thresholds(profile))

=============================================================================
