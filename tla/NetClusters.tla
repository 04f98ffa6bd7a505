---------------------------- MODULE NetClusters ----------------------------
(***************************************************************************)
(* The clusters of crates/netcluster/src/index/mod.rs, read off the states *)
(* of NetAggregates: what a cluster weighs, where it splits and into what, *)
(* and which device a cluster of one is.  Every query takes &self and so   *)
(* sees an index with no repair under way; its answer is compared with one *)
(* worked out from the positions and the parent edges alone.               *)
(***************************************************************************)
EXTENDS NetAggregates

\* What the devices of a list carry by m, added up in list order.
SumOver(list, m) ==
    LET sum[i \in 0..Len(list)] == IF i = 0 THEN Zero ELSE Plus(sum[i - 1], m[list[i]])
    IN  sum[Len(list)]

\* The children of s that are centers of no level up to z; lists have them last.
Finer(s, z) == {i \in DOMAIN kidlist[s] : tz[kidlist[s][i]] > z}

\* Children in list order up to the first one finer than z.
Shown(s, z) ==
    IF Finer(s, z) = {} THEN kidlist[s] ELSE SubSeq(kidlist[s], 1, Min(Finer(s, z)) - 1)

\* Mutant: every child is taken off, those inside the cluster included.
ClusterAtAllKids(s, z, k) ==
    Plus(mass[s][k], Times(-1, SumOver(kidlist[s], [b \in Dev |-> mass[b][k]])))

\* cluster_at: the subtree of s less the children that are centers of their own
\* at level z.
ClusterAt(s, z, k) ==
    Plus(mass[s][k], Times(-1, SumOver(Shown(s, z), [b \in Dev |-> mass[b][k]])))

\* Mutant: the last finer child decides, not the first.
ExpansionZoomLast(s, z) ==
    IF Finer(s, z) = {} THEN MaxZoom + 1 ELSE tz[kidlist[s][Max(Finer(s, z))]]

\* expansion_zoom: the level of the first child that is inside the cluster.
ExpansionZoom(s, z) ==
    IF Finer(s, z) = {} THEN MaxZoom + 1 ELSE tz[kidlist[s][Min(Finer(s, z))]]

\* get_children: s itself and its children of the level at which it splits; the
\* device alone when it never does.
SubClusters(s, z) ==
    LET nz == ExpansionZoom(s, z)
    IN  IF nz > MaxZoom THEN {s}
        ELSE {s} \union {b \in ToSet(Shown(s, nz)) : tz[b] > z}

InCell(s, k) == k = All \/ k \in cells[s]

\* The children of s finer than z whose subtrees have a device of k.
Holding(s, z, k) == {i \in Finer(s, z) : mass[kidlist[s][i]][k].n > 0}

\* find_single_in: the first device of k met inside the subtree of s, that is s
\* or what is found in the first of all its children that has one.  Every call
\* is a level finer at least.
FindSingleIn(s, k) ==
    LET at[n \in 0..Leaf] ==
          IF n = 0 THEN s
          ELSE LET e == at[n - 1]
                   holding == Holding(e, -1, k)
               IN  IF InCell(e, k) \/ holding = {} THEN e ELSE kidlist[e][Min(holding)]
    IN  at[Leaf]

\* Mutant: the search enters a child that is a cluster of its own at level z.
FindSingleAnyKid(s, z, k) == FindSingleIn(s, k)

\* find_single: the one device of k in cluster (s, z).
FindSingle(s, z, k) ==
    LET holding == Holding(s, z, k)
    IN  IF InCell(s, k) \/ holding = {} THEN s
        ELSE FindSingleIn(kidlist[s][Min(holding)], k)

-----------------------------------------------------------------------------
(* The answers, worked out from nothing but positions and parent edges *)

Members(s, z, k) == {d \in live : Rep(d, z) = s /\ InCell(d, k)}

\* The weight of a cluster is the number of devices it stands for and the sum of
\* their positions, with or without a filter: the clusters of a level are a
\* partition of the devices at every zoom.
ClusterIsItsMembers ==
    job = Idle =>
       \A z \in Level : \A s \in listed[z] : \A k \in Key :
          ClusterAt(s, z, k) = MassOf(Members(s, z, All), k)

\* A cluster splits first at its expansion zoom, and its sub-clusters there hold
\* exactly its devices, each once; one that never splits is a cluster at the
\* finest level.
DrillDownPartitions ==
    job = Idle =>
       \A z \in Level : \A s \in listed[z] :
          LET nz  == ExpansionZoom(s, z)
              inside == Members(s, z, All)
          IN  IF nz > MaxZoom
              THEN \A y \in z..MaxZoom : Members(s, y, All) = inside
              ELSE /\ \A y \in z..(nz - 1) : Members(s, y, All) = inside
                   /\ Members(s, nz, All) # inside
                   /\ UNION {Members(b, nz, All) : b \in SubClusters(s, z)} = inside

\* The marker of a filtered cluster of one device names that device, which is
\* often not the center of the cluster.
SingleIsTheMember ==
    job = Idle =>
       \A z \in Level : \A s \in listed[z] : \A k \in Cell :
          ClusterAt(s, z, k).n = 1 => Members(s, z, k) = {FindSingle(s, z, k)}

=============================================================================
