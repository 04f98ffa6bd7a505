------------------------------ MODULE CellTable ------------------------------
(***************************************************************************)
(* What the index keeps per device, as it is stored: slots (alloc_slot and *)
(* free_slot, crates/netcluster/src/index/mod.rs), and the masses of every *)
(* slot per filter cell (crates/netcluster/src/index/cells.rs).            *)
(*                                                                         *)
(* A device is given a slot, which is recycled when it is removed; the     *)
(* list of free slots runs through "par", the array that holds the parents *)
(* of the others.                                                          *)
(*                                                                         *)
(* "Two layouts, one interface": the dense layout has a place for every    *)
(* device and cell; the sparse one has an entry for what occurs only, in a *)
(* pool, on a doubly linked chain per slot, found through a directory      *)
(* (agg, a CellHash, here a function) and recycled through a free list.    *)
(* The operations of the index drive both side by side over a forest in    *)
(* which a device may be linked under any other outside its subtree:       *)
(* NetTree says which parent it gets, the table must not care.             *)
(*                                                                         *)
(* An entry is recycled with what its last user left in it, so a forgotten *)
(* reset or link shows much later and on another device.                   *)
(***************************************************************************)
EXTENDS Integers, SequencesExt

CONSTANTS
    Id,        \* external device ids
    Cell,      \* filter cells
    CellSets,  \* the sets of cells a report may carry
    X,         \* x coordinates
    MaxOps,    \* bound: operations of the index in one behaviour
    NONE       \* no slot

Slot == 0..(Cardinality(Id) - 1)   \* enough: none is added while one is free

ASSUME IdAssumption == IsFiniteSet(Id)
ASSUME CellSetsAssumption == IsFiniteSet(Cell) /\ CellSets \subseteq SUBSET Cell
ASSUME CoordinateAssumption == X \subseteq Nat /\ NONE \notin Id \union X \union Slot

VARIABLES
    ids, ext,       \* the slot of an id and the id of a slot
    par,            \* the parent of a slot; of a free one, the next free one
    free, made,     \* free_head, and how many slots were ever given (n)
    x, cells,       \* coordinate and own cells of a slot
    job,            \* the detach in progress
    dense,          \* dense[s][c]: count and sum of x
    ops,            \* operations begun
    sparse          \* pool of entries, head per device, free list, directory

slots == <<ids, ext, free, made>>
vars == <<slots, par, x, cells, job, ops, dense, sparse>>


EMPTY == -1   \* no entry
Live  == DOMAIN cells
Idle  == [dev |-> NONE, kids |-> {}, to |-> NONE]
Zero  == [n |-> 0, x |-> 0]
With(f, k, v) == [i \in DOMAIN f \union {k} |-> IF i = k THEN v ELSE f[i]]
Without(f, k) == [i \in DOMAIN f \ {k} |-> f[i]]

\* The nodes met from one along links until the end, at most n of them.
Follow(start, link, end, n) ==
    LET first[k \in 0..n] ==
          IF k = 0 THEN <<>>
          ELSE LET seen == first[k - 1]
                   at   == IF seen = <<>> THEN start ELSE link[Last(seen)]
               IN  IF at = end THEN seen ELSE Append(seen, at)
    IN  first[n]

-----------------------------------------------------------------------------
(* The sparse layout: t is a table *)

\* Mutant: an entry that is recycled keeps the count and sum it had.
EntryUnreset(t, s, c) ==
    IF <<s, c>> \in DOMAIN t.agg THEN t
    ELSE LET e   == IF t.free = EMPTY THEN Cardinality(DOMAIN t.pool) ELSE t.free
             h   == t.head[s]
             old == IF t.free = EMPTY THEN Zero ELSE t.pool[e]
             new == [cell |-> c, n |-> old.n, x |-> old.x, next |-> h, prev |-> EMPTY]
             p   == With(t.pool, e, new)
         IN  [pool |-> IF h = EMPTY THEN p ELSE [p EXCEPT ![h].prev = e],
              head |-> [t.head EXCEPT ![s] = e],
              free |-> IF t.free = EMPTY THEN EMPTY ELSE t.pool[e].next,
              agg  |-> With(t.agg, <<s, c>>, e)]

\* entry: the entry of (s, c), taken from the free list or the end of the pool
\* and put at the head of s's chain when there is none.
Entry(t, s, c) ==
    IF <<s, c>> \in DOMAIN t.agg THEN t
    ELSE LET e   == IF t.free = EMPTY THEN Cardinality(DOMAIN t.pool) ELSE t.free
             h   == t.head[s]
             new == [cell |-> c, n |-> 0, x |-> 0, next |-> h, prev |-> EMPTY]
             p   == With(t.pool, e, new)
         IN  [pool |-> IF h = EMPTY THEN p ELSE [p EXCEPT ![h].prev = e],
              head |-> [t.head EXCEPT ![s] = e],
              free |-> IF t.free = EMPTY THEN EMPTY ELSE t.pool[e].next,
              agg  |-> With(t.agg, <<s, c>>, e)]

\* A free entry keeps its count and sum.  Its cell and back link are overwritten
\* before they are read again, so that clearing them makes histories one state.
Freed(r, next) == [cell |-> NONE, n |-> r.n, x |-> r.x, next |-> next, prev |-> EMPTY]

\* Mutant: the successor of a released entry still points back at it.
ReleaseOneWay(t, s, e) ==
    LET r == t.pool[e]
        p == IF r.prev = EMPTY THEN t.pool ELSE [t.pool EXCEPT ![r.prev].next = r.next]
    IN  [pool |-> [p EXCEPT ![e] = Freed(@, t.free)],
         head |-> IF r.prev = EMPTY THEN [t.head EXCEPT ![s] = r.next] ELSE t.head,
         free |-> e,
         agg  |-> Without(t.agg, <<s, r.cell>>)]

\* release: off the chain, out of the directory, onto the free list.
Release(t, s, e) ==
    LET r == t.pool[e]
        p == IF r.prev = EMPTY THEN t.pool ELSE [t.pool EXCEPT ![r.prev].next = r.next]
        q == IF r.next = EMPTY THEN p ELSE [p EXCEPT ![r.next].prev = r.prev]
    IN  [pool |-> [q EXCEPT ![e] = Freed(@, t.free)],
         head |-> IF r.prev = EMPTY THEN [t.head EXCEPT ![s] = r.next] ELSE t.head,
         free |-> e,
         agg  |-> Without(t.agg, <<s, r.cell>>)]

\* bump: an entry goes the moment its count reaches zero.
Bump(t, s, c, n, dx) ==
    LET u == Entry(t, s, c)
        e == u.agg[<<s, c>>]
        v == [u EXCEPT !.pool[e].n = @ + n, !.pool[e].x = @ + dx]
    IN  IF v.pool[e].n = 0 THEN Release(v, s, e) ELSE v

\* The entries reached from e along "next", at most as many as there are.
List(t, e) ==
    Follow(e, [i \in DOMAIN t.pool |-> t.pool[i].next], EMPTY, Cardinality(DOMAIN t.pool))

\* drop_slot: everything s holds goes to the free list.
Drop(t, s, e) ==
    [pool |-> [t.pool EXCEPT ![e] = Freed(@, t.free)], head |-> t.head,
     free |-> e, agg |-> Without(t.agg, <<s, t.pool[e].cell>>)]
DropSlot(t, s) ==
    [FoldLeft(LAMBDA u, e : Drop(u, s, e), t, List(t, t.head[s])) EXCEPT !.head[s] = EMPTY]

\* set_self: s carries one point, in each of its cells.
Put(t, s, c, at) ==
    LET u == Entry(t, s, c)
        e == u.agg[<<s, c>>]
    IN  [u EXCEPT !.pool[e].n = 1, !.pool[e].x = at]
SetSelf(t, s, cs, at) == FoldLeft(LAMBDA u, c : Put(u, s, c, at), DropSlot(t, s), SetToSeq(cs))

\* The loop of walk and move_subtree: deltas, cell by cell, on every node of a chain.
BumpAll(t, s, deltas) == FoldLeft(LAMBDA u, r : Bump(u, s, r.cell, r.n, r.x), t, deltas)
BumpChain(t, chain, deltas) == FoldLeft(LAMBDA u, s : BumpAll(u, s, deltas), t, chain)

\* walk: one device's cells on every node of a chain.
Walk(t, chain, cs, n, dx) ==
    LET own == SetToSeq(cs)
    IN  BumpChain(t, chain, [i \in DOMAIN own |-> [cell |-> own[i], n |-> n, x |-> dx]])

\* move_subtree: the masses of s, copied before the first bump, on or off a chain.
MoveSubtree(t, chain, s, sign) ==
    LET held == List(t, t.head[s])
    IN  BumpChain(t, chain,
                  [i \in DOMAIN held |->
                     LET r == t.pool[held[i]] IN [cell |-> r.cell, n |-> sign * r.n, x |-> sign * r.x]])

\* find and at: what a reader gets for (s, c).
At(t, s, c) ==
    IF <<s, c>> \in DOMAIN t.agg
    THEN LET r == t.pool[t.agg[<<s, c>>]] IN [n |-> r.n, x |-> r.x]
    ELSE Zero

\* entries: what is in use, by what is not.
Entries(t) == Cardinality(DOMAIN t.pool) - Len(List(t, t.free))

-----------------------------------------------------------------------------
(* The dense layout: m is dense *)

DenseSet(m, s, cs, at) ==
    [m EXCEPT ![s] = [c \in Cell |-> IF c \in cs THEN [n |-> 1, x |-> at] ELSE Zero]]

DenseAdd(m, chain, delta) ==
    [s \in Slot |-> IF s \in ToSet(chain)
                    THEN [c \in Cell |-> [n |-> m[s][c].n + delta[c].n, x |-> m[s][c].x + delta[c].x]]
                    ELSE m[s]]

DenseWalk(m, chain, cs, n, dx) ==
    DenseAdd(m, chain, [c \in Cell |-> IF c \in cs THEN [n |-> n, x |-> dx] ELSE Zero])

DenseMove(m, chain, s, sign) ==
    DenseAdd(m, chain, [c \in Cell |-> [n |-> sign * m[s][c].n, x |-> sign * m[s][c].x]])

-----------------------------------------------------------------------------
(* The operations of the index that use the table *)

\* ancestors: s and what is above it.
Ancestors(s) == Follow(s, par, NONE, made)

\* alloc_slot: the free slot at the head of the list, or one more.
NewSlot == IF free # NONE THEN free ELSE made

Allocate(d) ==
    /\ ids' = With(ids, d, NewSlot)
    /\ ext' = [ext EXCEPT ![NewSlot] = d]
    /\ free' = IF free # NONE THEN par[free] ELSE NONE
    /\ made' = IF free # NONE THEN made ELSE made + 1

\* Mutant: the head of the list is moved before it is remembered.
FreeSlotSwapped(s) ==
    /\ ids' = Without(ids, ext[s])
    /\ ext' = [ext EXCEPT ![s] = NONE]
    /\ free' = s
    /\ par' = [par EXCEPT ![s] = free']
    /\ UNCHANGED made

\* free_slot, and the id is forgotten.  (A freed slot keeps its ext in the code;
\* nothing reads it, and it is cleared here, as the coordinate is.)
FreeSlot(s) ==
    /\ ids' = Without(ids, ext[s])
    /\ ext' = [ext EXCEPT ![s] = NONE]
    /\ free' = s
    /\ par' = [par EXCEPT ![s] = free]
    /\ UNCHANGED made

Init ==
    /\ ids = <<>>
    /\ ext = [s \in Slot |-> NONE]
    /\ free = NONE /\ made = 0
    /\ par = [s \in Slot |-> NONE]
    /\ x = [s \in Slot |-> NONE]
    /\ cells = <<>>
    /\ job = Idle
    /\ ops = 0
    /\ dense = [s \in Slot |-> [c \in Cell |-> Zero]]
    /\ sparse = [pool |-> <<>>, head |-> [s \in Slot |-> EMPTY], free |-> EMPTY, agg |-> <<>>]

\* insert_projected_cells: a slot, self_mass, then link under q.
Insert(i, at, cs, q) ==
    /\ job = Idle /\ ops < MaxOps
    /\ ops' = ops + 1
    /\ i \notin DOMAIN ids
    /\ Allocate(i)
    /\ LET d == NewSlot
       IN  /\ cells' = With(cells, d, cs)
           /\ x' = [x EXCEPT ![d] = at]
           /\ par' = [par EXCEPT ![d] = q]
           /\ dense' = DenseMove(DenseSet(dense, d, cs, at), Ancestors(q), d, 1)
           /\ sparse' = MoveSubtree(SetSelf(sparse, d, cs, at), Ancestors(q), d, 1)
    /\ UNCHANGED job

\* recell: the old cells leave the whole chain before the new ones enter it,
\* those d keeps among them.
DenseRefiled(d, cs) ==
    IF cs = cells[d] THEN dense
    ELSE DenseWalk(DenseWalk(dense, Ancestors(d), cells[d], -1, -x[d]), Ancestors(d), cs, 1, x[d])
Refiled(d, cs) ==
    IF cs = cells[d] THEN sparse
    ELSE Walk(Walk(sparse, Ancestors(d), cells[d], -1, -x[d]), Ancestors(d), cs, 1, x[d])

\* A report that leaves d where it is in the forest, moved or not.
MoveFast(d, at, cs) ==
    /\ job = Idle /\ ops < MaxOps
    /\ ops' = ops + 1
    /\ d \in Live
    /\ cells' = [cells EXCEPT ![d] = cs]
    /\ x' = [x EXCEPT ![d] = at]
    /\ dense' = DenseWalk(DenseRefiled(d, cs), Ancestors(d), cs, 0, at - x[d])
    /\ sparse' = IF at = x[d] THEN Refiled(d, cs)
                 ELSE Walk(Refiled(d, cs), Ancestors(d), cs, 0, at - x[d])
    /\ UNCHANGED <<slots, par, job>>

\* The head of unlink: d's own mass leaves its ancestors.  "to" is where a move
\* takes d, NONE when it is removed.
BeginUnlink(d, cs, to) ==
    /\ job = Idle /\ ops < MaxOps
    /\ ops' = ops + 1
    /\ d \in Live
    /\ job' = [dev |-> d, kids |-> {k \in Live : par[k] = d}, to |-> to]
    /\ cells' = [cells EXCEPT ![d] = cs]
    /\ dense' = DenseWalk(DenseRefiled(d, cs), Ancestors(par[d]), cs, -1, -x[d])
    /\ sparse' = Walk(Refiled(d, cs), Ancestors(par[d]), cs, -1, -x[d])
    /\ UNCHANGED <<slots, par, x>>

\* A move may leave x alone and change y, which is not modelled.
MoveSlow(d, at, cs) == BeginUnlink(d, cs, at)

RemoveDevice(d) == d \in Live /\ BeginUnlink(d, cells[d], NONE)

\* One iteration of unlink's loop: k's subtree leaves the ancestors of the device
\* that is detached and joins those of q.
RehomeChild(k, q) ==
    /\ k \in job.kids
    /\ q # job.dev
    /\ k \notin ToSet(Ancestors(q))
    /\ LET up == Ancestors(par[job.dev])
       IN  /\ dense' = DenseMove(DenseMove(dense, up, k, -1), Ancestors(q), k, 1)
           /\ sparse' = MoveSubtree(MoveSubtree(sparse, up, k, -1), Ancestors(q), k, 1)
    /\ par' = [par EXCEPT ![k] = q]
    /\ job' = [job EXCEPT !.kids = @ \ {k}]
    /\ UNCHANGED <<slots, x, cells, ops>>

\* The tail of unlink resets d to its own mass; free_slot then drops that.
FinishRemove ==
    /\ job.dev # NONE /\ job.kids = {} /\ job.to = NONE
    /\ LET d == job.dev
       IN  /\ cells' = Without(cells, d)
           /\ x' = [x EXCEPT ![d] = NONE]
           /\ FreeSlot(d)
           /\ dense' = DenseSet(dense, d, {}, 0)
           /\ sparse' = DropSlot(SetSelf(sparse, d, cells[d], x[d]), d)
    /\ job' = Idle
    /\ UNCHANGED ops

\* The tail of unlink, self_mass at the new place, link under q.
FinishMove(q) ==
    /\ job.dev # NONE /\ job.kids = {} /\ job.to # NONE
    /\ q # job.dev
    /\ LET d == job.dev
           reset == SetSelf(SetSelf(sparse, d, cells[d], x[d]), d, cells[d], job.to)
       IN  /\ x' = [x EXCEPT ![d] = job.to]
           /\ par' = [par EXCEPT ![d] = q]
           /\ dense' = DenseMove(DenseSet(dense, d, cells[d], job.to), Ancestors(q), d, 1)
           /\ sparse' = MoveSubtree(reset, Ancestors(q), d, 1)
    /\ job' = Idle
    /\ UNCHANGED <<slots, cells, ops>>

Next ==
    \/ \E at \in X, cs \in CellSets :
          \/ \E i \in Id, q \in Live \union {NONE} : Insert(i, at, cs, q)
          \/ \E i \in DOMAIN ids : MoveFast(ids[i], at, cs) \/ MoveSlow(ids[i], at, cs)
    \/ \E i \in DOMAIN ids : RemoveDevice(ids[i])
    \/ \E k \in Live, q \in Live \union {NONE} : RehomeChild(k, q)
    \/ FinishRemove
    \/ \E q \in Live \union {NONE} : FinishMove(q)

Spec == Init /\ [][Next]_vars

-----------------------------------------------------------------------------
(* Properties *)

\* The slots on the free list, from its head.
FreeSlots == Follow(free, par, NONE, made)

\* Ids and slots name each other, and every slot ever given is held by one device
\* or free, once.  So it stays although the free list is kept in the array the
\* parents are in: no chain of ancestors runs into a slot that was given back.
SlotsSound ==
    /\ \A i \in DOMAIN ids : ids[i] \in Live /\ ext[ids[i]] = i
    /\ \A s \in Live : ext[s] \in DOMAIN ids /\ ids[ext[s]] = s
    /\ IsInjective(FreeSlots)
    /\ ToSet(FreeSlots) \cap Live = {}
    /\ ToSet(FreeSlots) \union Live = 0..(made - 1)
    /\ \A s \in Live : par[s] \in Live \union {NONE}

\* Both layouts give every reader the same answer, at every moment of a repair,
\* and agree on how many entries are live: the sparse one holds an entry exactly
\* where the dense one is not zero.
LayoutsAgree ==
    LET occurring == {k \in Slot \X Cell : dense[k[1]][k[2]].n # 0}
    IN  /\ \A k \in Slot \X Cell : At(sparse, k[1], k[2]) = dense[k[1]][k[2]]
        /\ DOMAIN sparse.agg = occurring
        /\ Entries(sparse) = Cardinality(occurring)

\* Every entry is on one list, the chain of one device or the free list, and once;
\* chains are linked both ways and hold what the directory says they hold.  The
\* pool never outgrows what can occur at once, however long devices come and go.
EntriesAccounted ==
    LET t     == sparse
        chain == [s \in Slot |-> List(t, t.head[s])]
        inUse == {t.agg[k] : k \in DOMAIN t.agg}
    IN  /\ \A s \in Slot : \A i \in DOMAIN chain[s] :
              LET e == chain[s][i]
              IN  /\ <<s, t.pool[e].cell>> \in DOMAIN t.agg
                  /\ t.agg[<<s, t.pool[e].cell>>] = e
                  /\ t.pool[e].prev = IF i = 1 THEN EMPTY ELSE chain[s][i - 1]
        /\ \A k \in DOMAIN t.agg : t.agg[k] \in ToSet(chain[k[1]])
        /\ inUse \union ToSet(List(t, t.free)) = DOMAIN t.pool
        /\ inUse \cap ToSet(List(t, t.free)) = {}
        /\ Cardinality(DOMAIN t.pool) <= Cardinality(Id) * Cardinality(Cell)

=============================================================================
