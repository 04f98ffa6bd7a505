----------------------------- MODULE NetQueries -----------------------------
(***************************************************************************)
(* Reading a cluster device by device, and the viewports and tiles of      *)
(* crates/netcluster/src/index/mod.rs: which clusters they show, and where *)
(* each is drawn.  What a cluster is and weighs is in NetClusters.         *)
(*                                                                         *)
(* The world is a line here (LineAssumption), so a viewport is an interval *)
(* and a distance an absolute value.                                       *)
(***************************************************************************)
EXTENDS NetClusters

CONSTANTS
    Radius,  \* Radius[z]: the cluster radius of level z
    Boxes,   \* viewports, as pairs <<x0, x1>> with x0 <= x1
    PREC     \* the world is 0..PREC

ASSUME LineAssumption == \A p \in Pos : p[2] = 0
ASSUME ViewAssumption ==
    /\ \A z \in Level : Radius[z] * Radius[z] = R2[z]
    /\ \A b \in Boxes : b[1] <= b[2]
\* Tiles are looked at down to one zoom below the finest level; their sides and
\* margins are whole numbers.
ASSUME TileAssumption ==
    /\ \A p \in Pos : p[1] \in 0..PREC
    /\ PREC % 2^(MaxZoom + 1) = 0 /\ Radius[0] % 2^(MaxZoom + 1) = 0

\* walk_leaves: depth first, skipping the first "offset" devices and stopping
\* once "limit" are out.  acc is [skipped, out].
RECURSIVE WalkLeaves(_, _, _, _, _)
WalkLeaves(s, lvl, limit, offset, acc) ==
    LET here == IF acc.skipped >= offset THEN [acc EXCEPT !.out = Append(@, s)]
                                         ELSE [acc EXCEPT !.skipped = @ + 1]
    IN  IF Len(acc.out) >= limit THEN acc
        ELSE FoldLeft(LAMBDA a, b : IF tz[b] > lvl /\ Len(a.out) < limit
                                    THEN WalkLeaves(b, lvl, limit, offset, a) ELSE a,
                      here, kidlist[s])

\* Mutant: the devices that are skipped count against the limit.
LeavesLimitSkipped(s, z, limit, offset) ==
    LET seen == WalkLeaves(s, z, limit, 0, [skipped |-> 0, out |-> <<>>]).out
    IN  SubSeq(seen, 1 + offset, Len(seen))

\* get_leaves: one page of the devices inside cluster (s, z).
Leaves(s, z, limit, offset) ==
    WalkLeaves(s, z, limit, offset, [skipped |-> 0, out |-> <<>>]).out

\* centroid: the mean position num/den, pulled back to a quarter of the radius
\* from the anchor unless the cluster is a single device, or is filtered by a
\* cell its anchor is not in.
Centroid(s, z, k) ==
    LET c  == ClusterAt(s, z, k)
        px == pos[s][1]
        off == c.x - px * c.n
        far == 4 * off > Radius[z] * c.n \/ -4 * off > Radius[z] * c.n
    IN  IF c.n <= 1 \/ (k # All /\ ~ InCell(s, k)) \/ ~ far
        THEN [num |-> c.x, den |-> c.n]
        ELSE [num |-> 4 * px + (IF off > 0 THEN Radius[z] ELSE -Radius[z]), den |-> 4]

InBox(at, box) == box[1] * at.den <= at.num /\ at.num <= box[2] * at.den

\* Mutant: the viewport is padded by one radius instead of two.
MeetsBoxOneRadius(t, box, k) ==
    /\ mass[t][k].n # 0
    /\ box[1] - Radius[tz[t]] <= pos[t][1]
    /\ pos[t][1] <= box[2] + Radius[tz[t]]

\* The test that prunes a subtree: nothing of k under it, or the ball of radius
\* 2 r_tz around it misses the box.
MeetsBox(t, box, k) ==
    /\ mass[t][k].n # 0
    /\ box[1] - 2 * Radius[tz[t]] <= pos[t][1]
    /\ pos[t][1] <= box[2] + 2 * Radius[tz[t]]

\* get_clusters_projected: a center is looked at when no subtree above it, nor
\* its own, was pruned; it is shown when it is drawn inside the box.
GetClusters(box, z, k) ==
    {s \in listed[z] :
        /\ \A t \in Chain(par, s) : MeetsBox(t, box, k)
        /\ ClusterAt(s, z, k).n > 0
        /\ InBox(Centroid(s, z, k), box)}

\* get_tile: the viewport that is the tile, padded by the cluster radius and cut
\* off at the edge of the world.  Below the finest level tiles still shrink, and
\* the margin with them, but the clusters are those of the finest level.
TileSide(y)   == PREC \div 2^y
TileMargin(y) == Radius[0] \div 2^y
TileBox(y, t) == << Max({0, t * TileSide(y) - TileMargin(y)}),
                    Min({PREC, (t + 1) * TileSide(y) + TileMargin(y)}) >>
GetTile(y, t, k) == GetClusters(TileBox(y, t), Min({y, MaxZoom}), k)

-----------------------------------------------------------------------------
(* The answers, worked out from nothing but positions and parent edges *)

\* Reading a cluster page by page yields each of its devices exactly once.
PagesCoverCluster ==
    job = Idle =>
       \A z \in Level : \A s \in listed[z] : \A limit \in 1..2 :
          LET n   == Cardinality(Members(s, z, All))
              all == FlattenSeq([i \in 1..n |-> Leaves(s, z, limit, (i - 1) * limit)])
          IN  Len(all) = n /\ ToSet(all) = Members(s, z, All)

\* The clusters of level z and cell k that are drawn in a box.
DrawnIn(box, z, k) ==
    {s \in listed[z] : Members(s, z, k) # {} /\ InBox(Centroid(s, z, k), box)}

\* A viewport shows every cluster that is drawn inside it.  The comment on
\* get_clusters_projected says the ball that prunes a subtree "provably contains
\* every descendant".  And "a marker sitting on the seam is emitted by both
\* neighbouring tiles" (get_tile): by every tile that it is no further from than
\* the cluster radius, so that the tiles of one zoom show the whole map.
ViewportComplete ==
    job = Idle =>
       \A k \in Key :
          /\ \A z \in Level : \A box \in Boxes : GetClusters(box, z, k) = DrawnIn(box, z, k)
          /\ \A y \in 0..(MaxZoom + 1) : \A t \in 0..(2^y - 1) :
                GetTile(y, t, k) = DrawnIn(<< t * TileSide(y) - TileMargin(y),
                                              (t + 1) * TileSide(y) + TileMargin(y) >>,
                                           Min({y, MaxZoom}), k)

=============================================================================
