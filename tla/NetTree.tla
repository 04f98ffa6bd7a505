------------------------------ MODULE NetTree ------------------------------
(***************************************************************************)
(* The hierarchy of nets of crates/netcluster/src/index/mod.rs.            *)
(*                                                                         *)
(* Every device carries tz, the coarsest zoom level at which it is a       *)
(* center; it is a center of every finer level too.  listed[z] is the set  *)
(* of devices filed in the grid of level z, the only thing the placement   *)
(* sweep ever looks at.  An edge par[d] = q says that q covers d at level  *)
(* tz[d] - 1.                                                              *)
(*                                                                         *)
(* insert and the fast path of a move are one step each.  remove and the   *)
(* slow path of a move detach the device and re-home its children one at   *)
(* a time (unlink): the loop is a sequence of steps over "job", run        *)
(* while the writer holds the index alone, so that what the loop relies    *)
(* on can be stated between its iterations.  Aggregates and child lists    *)
(* are in NetAggregates, the cells of the grid in GridIndex.               *)
(*                                                                         *)
(* Positions are projected fixed-point coordinates; distances are compared *)
(* squared, as in the code.  R2 and H2 are the code's arrays r2 and hyst2. *)
(***************************************************************************)
EXTENDS Integers

CONSTANTS
    Dev,      \* device ids
    Pos,      \* projected positions
    MaxZoom,  \* finest zoom at which points are clustered
    R2,       \* R2[z]: squared cluster radius of level z
    H2,       \* H2[z]: squared radius with the hysteresis slack
    Rank,     \* the order of ids that breaks exact ties (cmp_decimal)
    NONE      \* no slot

Level == 0..MaxZoom      \* levels that have a net
Leaf  == MaxZoom + 1     \* tz of a point that is a center nowhere
Dead  == -2              \* tz of a slot no device occupies

ASSUME ZoomAssumption == MaxZoom \in Nat
ASSUME PosAssumption == Pos \subseteq Int \X Int
\* hyst2 is (r * (1 + hysteresis))^2 and hysteresis is asserted non-negative.
ASSUME RadiusAssumption ==
    /\ R2 \in [Level -> Nat]
    /\ H2 \in [Level -> Nat]
    /\ \A z \in Level : R2[z] <= H2[z]
\* NetCluster::new halves the radius from level to level; rounding squares down to
\* integers, as squared distances are, keeps that.
ASSUME HalvingAssumption ==
    \A z \in Level : z < MaxZoom => 4 * H2[z + 1] <= H2[z]
ASSUME RankAssumption ==
    /\ Rank \in [Dev -> Nat]
    /\ \A d, e \in Dev : Rank[d] = Rank[e] => d = e
ASSUME NoneAssumption == NONE \notin Dev /\ NONE \notin Pos

VARIABLES
    live,    \* ids the index knows
    pos,     \* pos[d]: where d is, NONE when it is not live
    tz,      \* tz[d]: coarsest level at which d is a center
    par,     \* par[d]: parent in the hierarchy, NONE for a root
    listed,  \* listed[z]: devices filed in the level-z grid
    job      \* the detach in progress

vars == <<live, pos, tz, par, listed, job>>

Idle == [dev |-> NONE, kids |-> {}, to |-> NONE]

D2(p, q) == (p[1] - q[1]) * (p[1] - q[1]) + (p[2] - q[2]) * (p[2] - q[2])

Children(d) == {c \in live : par[c] = d}

-----------------------------------------------------------------------------
(* The grid, as the sets of centers it lists *)

\* Mutant: a center is filed at its own level only.
ListedAtOwnLevelOnly(lst, s, l) == [z \in Level |-> IF z = l THEN lst[z] \union {s} ELSE lst[z]]

\* grid_add: list s at every level from l to the finest.
ListedFrom(lst, s, l) == [z \in Level |-> IF z >= l THEN lst[z] \union {s} ELSE lst[z]]

\* grid_del: withdraw s from every level from its own to the finest.
Unlisted(lst, s) == [z \in Level |-> IF z >= tz[s] THEN lst[z] \ {s} ELSE lst[z]]

\* scan at radius r_z: the centers of level z, other than s, that cover p.
Within(lst, z, p, s) == {c \in lst[z] \ {s} : D2(pos[c], p) <= R2[z]}

\* The nearest candidate; an exact tie goes to the id that sorts first.
IsNearest(q, S, p) ==
    /\ q \in S
    /\ \A c \in S \ {q} :
          \/ D2(pos[q], p) < D2(pos[c], p)
          \/ D2(pos[q], p) = D2(pos[c], p) /\ Rank[q] < Rank[c]

\* descend: sweep from level "from" towards the coarsest and stop at the first
\* net that covers p; l is the level s gets and q its parent.
Descend(lst, s, p, from, l, q) ==
    LET top == IF from > MaxZoom THEN MaxZoom ELSE from
    IN  /\ \A z \in l..top : Within(lst, z, p, s) = {}
        /\ \/ l = 0 /\ q = NONE
           \/ l \in 1..(top + 1) /\ IsNearest(q, Within(lst, l - 1, p, s), p)

\* link: place s, which sits at p and is listed nowhere in lst.
Link(lst, s, p, from) ==
    \E l \in 0..Leaf, q \in Dev \union {NONE} :
       /\ Descend(lst, s, p, from, l, q)
       /\ tz' = [tz EXCEPT ![s] = l]
       /\ par' = [par EXCEPT ![s] = q]
       /\ listed' = ListedFrom(lst, s, l)

-----------------------------------------------------------------------------
(* Mutations *)

Init ==
    /\ live = {}
    /\ pos = [d \in Dev |-> NONE]
    /\ tz = [d \in Dev |-> Dead]
    /\ par = [d \in Dev |-> NONE]
    /\ listed = [z \in Level |-> {}]
    /\ job = Idle

\* insert_projected_cells of an id the index does not know.
Insert(d, p) ==
    /\ job = Idle
    /\ d \notin live
    /\ live' = live \union {d}
    /\ pos' = [pos EXCEPT ![d] = p]
    /\ Link(listed, d, p, MaxZoom)
    /\ UNCHANGED job

\* Mutants of the three tests of a move: one of them forgotten.
NoSeparationTest(d, p) ==
    /\ par[d] # NONE => D2(pos[par[d]], p) <= H2[tz[d] - 1]
    /\ \A c \in Children(d) : D2(pos[c], p) <= H2[tz[c] - 1]
NoChildrenTest(d, p) ==
    /\ \A z \in tz[d]..MaxZoom : Within(listed, z, p, d) = {}
    /\ par[d] # NONE => D2(pos[par[d]], p) <= H2[tz[d] - 1]
NoParentTest(d, p) ==
    /\ \A z \in tz[d]..MaxZoom : Within(listed, z, p, d) = {}
    /\ \A c \in Children(d) : D2(pos[c], p) <= H2[tz[c] - 1]

\* The three tests of move_to_projected_cells that let d stay where it is in
\* the hierarchy: separated from the other centers of every level it is a
\* center of, still covered by its parent, still covering its children.
StaysLegal(d, p) ==
    /\ \A z \in tz[d]..MaxZoom : Within(listed, z, p, d) = {}
    /\ par[d] # NONE => D2(pos[par[d]], p) <= H2[tz[d] - 1]
    /\ \A c \in Children(d) : D2(pos[c], p) <= H2[tz[c] - 1]

\* Fast path: only the position changes.
MoveFast(d, p) ==
    /\ job = Idle
    /\ d \in live
    /\ p # pos[d]
    /\ StaysLegal(d, p)
    /\ pos' = [pos EXCEPT ![d] = p]
    /\ UNCHANGED <<live, tz, par, listed, job>>

\* Mutant: the detached device is still listed while its children are re-homed.
UnlinkStillListed(d, to) ==
    /\ job' = [dev |-> d, kids |-> Children(d), to |-> to]
    /\ UNCHANGED <<live, pos, tz, par, listed>>

\* The head of unlink: d leaves the grid before any child is re-homed.  "to" is
\* where a move takes d, NONE when it is being removed.
BeginUnlink(d, to) ==
    /\ listed' = Unlisted(listed, d)
    /\ job' = [dev |-> d, kids |-> Children(d), to |-> to]
    /\ UNCHANGED <<live, pos, tz, par>>

MoveSlow(d, p) ==
    /\ job = Idle
    /\ d \in live
    /\ p # pos[d]
    /\ ~ StaysLegal(d, p)
    /\ BeginUnlink(d, p)

RemoveDevice(d) ==
    /\ job = Idle
    /\ d \in live
    /\ BeginUnlink(d, NONE)

\* The order of the loop: coarsest child first, ties by id.
IsNextKid(c) ==
    /\ c \in job.kids
    /\ \A k \in job.kids \ {c} :
          \/ tz[c] < tz[k]
          \/ tz[c] = tz[k] /\ Rank[c] < Rank[k]

\* One iteration of unlink's loop: the child leaves its parent and the grid and
\* is placed again, sweeping only the levels coarser than the one it had.
RehomeChild(c) ==
    /\ IsNextKid(c)
    /\ Link(Unlisted(listed, c), c, pos[c], tz[c] - 1)
    /\ job' = [job EXCEPT !.kids = @ \ {c}]
    /\ UNCHANGED <<live, pos>>

\* Mutant: the id is not forgotten with its slot.
FinishRemoveKeepsId ==
    /\ job.dev # NONE /\ job.kids = {} /\ job.to = NONE
    /\ pos' = [pos EXCEPT ![job.dev] = NONE]
    /\ tz' = [tz EXCEPT ![job.dev] = Dead]
    /\ par' = [par EXCEPT ![job.dev] = NONE]
    /\ job' = Idle
    /\ UNCHANGED <<live, listed>>

\* The tail of unlink and of remove: the slot goes back to the free list.
FinishRemove ==
    /\ job.dev # NONE /\ job.kids = {} /\ job.to = NONE
    /\ live' = live \ {job.dev}
    /\ pos' = [pos EXCEPT ![job.dev] = NONE]
    /\ tz' = [tz EXCEPT ![job.dev] = Dead]
    /\ par' = [par EXCEPT ![job.dev] = NONE]
    /\ job' = Idle
    /\ UNCHANGED listed

\* The tail of the slow path: reposition the device and link it afresh.
FinishMove ==
    /\ job.dev # NONE /\ job.kids = {} /\ job.to # NONE
    /\ pos' = [pos EXCEPT ![job.dev] = job.to]
    /\ Link(listed, job.dev, job.to, MaxZoom)
    /\ job' = Idle
    /\ UNCHANGED live

Next ==
    \/ \E d \in Dev, p \in Pos : Insert(d, p) \/ MoveFast(d, p) \/ MoveSlow(d, p)
    \/ \E d \in Dev : RemoveDevice(d)
    \/ \E c \in Dev : RehomeChild(c)
    \/ FinishRemove
    \/ FinishMove

Spec == Init /\ [][Next]_vars

-----------------------------------------------------------------------------
(* Properties *)

TypeOK ==
    /\ live \subseteq Dev
    /\ pos \in [Dev -> Pos \union {NONE}]
    /\ \A d \in live : pos[d] \in Pos
    /\ tz \in [Dev -> {Dead} \union (0..Leaf)]
    /\ \A d \in live : tz[d] \in 0..Leaf
    /\ par \in [Dev -> Dev \union {NONE}]
    /\ listed \in [Level -> SUBSET Dev]
    /\ job \in [dev : Dev \union {NONE}, kids : SUBSET Dev, to : Pos \union {NONE}]

\* Devices that are in the hierarchy: all but the one being detached.
Placed == live \ {job.dev}

\* The grid lists a device at exactly the levels at which it is a center, from
\* its own level to the finest, and never a device that is gone or detached.
\* This is what the assertions "grid corruption" in grid_del_at rely on.
GridListsCenters ==
    \A z \in Level : listed[z] = {d \in Placed : tz[d] <= z}

\* Distinct centers of one net are further apart than the radius of its level,
\* at every level and at every moment of a repair.
Separation ==
    \A z \in Level : \A a, b \in listed[z] : a # b => D2(pos[a], pos[b]) > R2[z]

\* Every placed device is a root, and then a center of level 0, or has a live
\* parent that is a center of the level above and covers it within the slack.
\* Levels decrease towards the root, so parent chains end.
Covering ==
    \A d \in Placed :
       \/ par[d] = NONE /\ tz[d] = 0
       \/ /\ par[d] \in live
          /\ tz[par[d]] < tz[d]
          /\ D2(pos[par[d]], pos[d]) <= H2[tz[d] - 1]

\* A detach in progress is of a live device, and the children it still has to
\* re-home are exactly the devices whose parent that is: a re-homed child never
\* lands back under it, and nothing refers to it once the loop is over.
JobOK ==
    /\ job.dev = NONE => job = Idle
    /\ job.dev # NONE => /\ job.dev \in live
                         /\ job.kids = {c \in Placed : par[c] = job.dev}

\* The inductive invariant.
IInv == TypeOK /\ JobOK /\ GridListsCenters /\ Separation /\ Covering

\* representative: the first ancestor of d, itself included, that is a center of
\* level z.
Rep(d, z) ==
    LET up[n \in 0..Leaf] ==
          IF n = 0 THEN d
          ELSE LET a == up[n - 1] IN IF tz[a] <= z THEN a ELSE par[a]
    IN  up[Leaf]

\* The guarantee of the crate's documentation: at every zoom a device is within
\* 2(1 + h) r_z of the center that represents it, a sum over the levels below
\* that no single edge shows.
RadiusBound ==
    job = Idle =>
       \A d \in live, z \in Level : D2(pos[d], pos[Rep(d, z)]) <= 4 * H2[z]

=============================================================================
