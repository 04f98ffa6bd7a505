--------------------------- MODULE NetAggregates ---------------------------
(***************************************************************************)
(* What the hierarchy of NetTree carries beside its edges: the child       *)
(* lists, kept sorted by level, and the mass of every subtree, in total    *)
(* and per filter cell (cnt, sx and the CellTable of index/cells.rs).      *)
(*                                                                         *)
(* Each action is the NetTree action of the same operation together with   *)
(* what that operation does to lists and masses: agg walks one point's     *)
(* mass up a parent chain, agg_sub a whole subtree's, recell re-files a    *)
(* device that changed its filter cells.  The mass of a device is a        *)
(* function from All and the cells to a count and a sum of x coordinates;  *)
(* sy is computed as sx is and is left out.                                *)
(***************************************************************************)
EXTENDS NetTree, SequencesExt

CONSTANTS
    Cell,      \* filter cells
    CellSets,  \* the sets of cells a report may carry
    All        \* key of the unfiltered total

ASSUME CellAssumption == CellSets \subseteq SUBSET Cell /\ All \notin Cell

VARIABLES
    cells,    \* dcell: the filter cells of each device
    kidlist,  \* kid, sib: the child list of each device
    mass      \* mass[d][k]: count and sum of x of d's subtree under key k

aggVars == <<cells, kidlist, mass>>
allVars == <<vars, aggVars>>

Key  == {All} \union Cell
Zero == [n |-> 0, x |-> 0]

Plus(a, b)  == [n |-> a.n + b.n, x |-> a.x + b.x]
Times(i, a) == [n |-> i * a.n, x |-> i * a.x]

\* d itself and its ancestors along parent function f; none for NONE.
Chain(f, d) ==
    LET up[n \in 0..(Leaf + 1)] ==
          IF n = 0 THEN {d}
          ELSE LET S == up[n - 1] IN S \union {f[e] : e \in S \ {NONE}}
    IN  up[Leaf + 1] \ {NONE}

\* self_mass: one point, in the total and in each of its cells.
SelfMass(p, cs) ==
    [k \in Key |-> IF k \in {All} \union cs THEN [n |-> 1, x |-> p[1]] ELSE Zero]

\* agg and agg_sub: add i times the mass "delta" to every device of chain S.
AddMass(m, S, i, delta) ==
    [t \in Dev |-> IF t \in S THEN [k \in Key |-> Plus(m[t][k], Times(i, delta[k]))]
                              ELSE m[t]]

\* recell: d's own mass leaves its old cells along its chain and enters the new.
Recelled(d, cs) ==
    LET own(k) == [n |-> 1, x |-> pos[d][1]]
        moved  == [k \in Key |-> IF k = All THEN Zero
                                 ELSE IF k \in cs \ cells[d] THEN own(k)
                                 ELSE IF k \in cells[d] \ cs THEN Times(-1, own(k))
                                 ELSE Zero]
    IN  AddMass(mass, Chain(par, d), 1, moved)

\* Mutant: a child goes to the tail of the list whatever its level.
AppendChild(list, c, levels) == Append(list, c)

\* add_child: before the first sibling that is not coarser than the child.
AddChild(list, c, levels) ==
    LET coarser == {i \in DOMAIN list : levels[list[i]] < levels[c]}
    IN  InsertAt(list, Cardinality(coarser) + 1, c)

\* del_child: c is taken out of the list it is in.
DelChild(list, c) == RemoveAt(list, CHOOSE i \in DOMAIN list : list[i] = c)

\* kid lists after c leaves its parent and is linked under the parent it gets.
Relinked(lists, c) ==
    LET without == IF par[c] = NONE THEN lists
                   ELSE [lists EXCEPT ![par[c]] = DelChild(@, c)]
    IN  IF par'[c] = NONE THEN without
        ELSE [without EXCEPT ![par'[c]] = AddChild(@, c, tz')]

-----------------------------------------------------------------------------

AggInit ==
    /\ Init
    /\ cells = [d \in Dev |-> {}]
    /\ kidlist = [d \in Dev |-> <<>>]
    /\ mass = [d \in Dev |-> [k \in Key |-> Zero]]

AggInsert(d, p, cs) ==
    /\ Insert(d, p)
    /\ cells' = [cells EXCEPT ![d] = cs]
    /\ kidlist' = Relinked(kidlist, d)
    /\ mass' = AddMass([mass EXCEPT ![d] = SelfMass(p, cs)],
                       Chain(par', par'[d]), 1, SelfMass(p, cs))

\* A device that is still where it was but changed cells.
AggRefile(d, cs) ==
    /\ job = Idle
    /\ d \in live
    /\ cs # cells[d]
    /\ cells' = [cells EXCEPT ![d] = cs]
    /\ mass' = Recelled(d, cs)
    /\ UNCHANGED <<vars, kidlist>>

\* The cells change first, where the device still is; then the displacement is
\* added to the sums along the chain, in the total and in the new cells.
AggMoveFast(d, p, cs) ==
    /\ MoveFast(d, p)
    /\ cells' = [cells EXCEPT ![d] = cs]
    /\ LET shift == [k \in Key |-> IF k \in {All} \union cs
                                   THEN [n |-> 0, x |-> p[1] - pos[d][1]] ELSE Zero]
       IN  mass' = AddMass(Recelled(d, cs), Chain(par, d), 1, shift)
    /\ UNCHANGED kidlist

\* unlink takes the device's own mass off its ancestors.
AggMoveSlow(d, p, cs) ==
    /\ MoveSlow(d, p)
    /\ cells' = [cells EXCEPT ![d] = cs]
    /\ mass' = AddMass(Recelled(d, cs), Chain(par, par[d]), -1, SelfMass(pos[d], cs))
    /\ UNCHANGED kidlist

AggRemove(d) ==
    /\ RemoveDevice(d)
    /\ mass' = AddMass(mass, Chain(par, par[d]), -1, SelfMass(pos[d], cells[d]))
    /\ UNCHANGED <<cells, kidlist>>

\* Mutant: the subtree's mass reaches the new parent but not what is above it.
RehomeStopsAtParent(c) ==
    /\ RehomeChild(c)
    /\ kidlist' = Relinked(kidlist, c)
    /\ LET off == AddMass(mass, Chain(par, par[job.dev]), -1, mass[c])
       IN  mass' = AddMass(off, {par'[c]}, 1, mass[c])
    /\ UNCHANGED cells

\* The subtree's mass leaves the ancestors of the detached device and joins the
\* chain of the parent found.
AggRehomeChild(c) ==
    /\ RehomeChild(c)
    /\ kidlist' = Relinked(kidlist, c)
    /\ LET off == AddMass(mass, Chain(par, par[job.dev]), -1, mass[c])
       IN  mass' = AddMass(off, Chain(par', par'[c]), 1, mass[c])
    /\ UNCHANGED cells

\* Mutant: a slot that is freed keeps what it holds of each cell.
FinishRemoveKeepsCells ==
    /\ FinishRemove
    /\ cells' = [cells EXCEPT ![job.dev] = {}]
    /\ kidlist' = [Relinked(kidlist, job.dev) EXCEPT ![job.dev] = <<>>]
    /\ mass' = [mass EXCEPT ![job.dev][All] = Zero]

\* free_slot drops the cells of the slot; its totals are dead with it and are
\* cleared here so that two histories of a free slot are one state.
AggFinishRemove ==
    /\ FinishRemove
    /\ cells' = [cells EXCEPT ![job.dev] = {}]
    /\ kidlist' = [Relinked(kidlist, job.dev) EXCEPT ![job.dev] = <<>>]
    /\ mass' = [mass EXCEPT ![job.dev] = [k \in Key |-> Zero]]

AggFinishMove ==
    /\ FinishMove
    /\ kidlist' = Relinked([kidlist EXCEPT ![job.dev] = <<>>], job.dev)
    /\ LET own == SelfMass(job.to, cells[job.dev])
       IN  mass' = AddMass([mass EXCEPT ![job.dev] = own],
                           Chain(par', par'[job.dev]), 1, own)
    /\ UNCHANGED cells

AggNext ==
    \/ \E d \in Dev, p \in Pos, cs \in CellSets :
          AggInsert(d, p, cs) \/ AggMoveFast(d, p, cs) \/ AggMoveSlow(d, p, cs)
    \/ \E d \in Dev, cs \in CellSets : AggRefile(d, cs)
    \/ \E d \in Dev : AggRemove(d)
    \/ \E c \in Dev : AggRehomeChild(c)
    \/ AggFinishRemove
    \/ AggFinishMove

AggSpec == AggInit /\ [][AggNext]_allVars

-----------------------------------------------------------------------------
(* Properties *)

\* The child list of a device holds its children, each once, coarsest first.
\* cluster_at and the viewport walk stop at the first child finer than the zoom,
\* so a list out of order would silently hide the children behind it.
KidListsSorted ==
    \A d \in live :
       /\ ToSet(kidlist[d]) = Children(d)
       /\ \A i, j \in DOMAIN kidlist[d] :
             i < j => /\ kidlist[d][i] # kidlist[d][j]
                      /\ tz[kidlist[d][i]] <= tz[kidlist[d][j]]

\* The x coordinates of S added up, each device where "at" has it.
SumX(at, S) == MapThenSumSet(LAMBDA d : at[d][1], S)

\* The mass of a set of devices under key k, added up from nothing.
MassOf(S, k) ==
    LET in == {d \in S : k = All \/ k \in cells[d]}
    IN  [n |-> Cardinality(in), x |-> SumX(pos, in)]

\* The mass a device carries is that of the devices under it, in total and in
\* every filter cell, and stays so while a repair is under way (the device being
\* detached has already left the sums of its ancestors, its children have not).
MassIsSubtree ==
    LET chain == [e \in Placed |-> Chain(par, e)]
    IN  \A d \in Placed :
           LET subtree == {e \in Placed : d \in chain[e]}
           IN  \A k \in Key : mass[d][k] = MassOf(subtree, k)

\* What the queries rest on, at every step of a repair.
AggregatesExact == KidListsSorted /\ MassIsSubtree

=============================================================================
