----------------------------- MODULE GridIndex -----------------------------
(***************************************************************************)
(* The grid of crates/netcluster/src/index/mod.rs as it is stored: a       *)
(* CellHash from a key <<level, cell>> to the head of a singly linked list *)
(* of entries, and one free list of entries for all of them.  NetTree uses *)
(* it as the sets "listed"; here it is shown to file every center under    *)
(* exactly the keys it belongs to, through moves that touch only the       *)
(* levels whose cell changes.                                              *)
(*                                                                         *)
(* A position is the cell it falls in at the finest level.                 *)
(***************************************************************************)
EXTENDS Integers, Sequences, FiniteSets, Functions, FiniteSetsExt

CONSTANTS
    Slot, FineCell, MaxZoom,
    Hash,      \* the hash of every key
    InitCap,   \* initial capacity of the directory
    MaxListed, \* bound on the number of listings at a time
    NONE       \* no entry, no cell; the vacant key

VARIABLES
    grid,    \* the directory, a table of CellHash
    entry,   \* entry[e]: e_slot and e_next of each entry ever allotted
    free,    \* e_free: head of the free list
    cell,    \* cell[s]: the finest cell of listed slot s, from qx and qy
    tz       \* tz[s]: coarsest level of listed slot s

vars == <<grid, entry, free, cell, tz>>

\* The entries of a list, from its head to the first without a successor.
Follow(es, head) ==
    LET after == [e \in DOMAIN es \union {NONE} |-> IF e = NONE THEN NONE ELSE es[e].next]
        nth[n \in 1..Len(es)] == IF n = 1 THEN head ELSE after[nth[n - 1]]
    IN  SelectSeq([n \in DOMAIN es |-> nth[n]], LAMBDA e : e # NONE)

At(z, c)   == <<z, c[1] \div 2^(MaxZoom - z), c[2] \div 2^(MaxZoom - z)>>
GridKey    == {At(z, c) : z \in 0..MaxZoom, c \in FineCell}
Leaf       == MaxZoom + 1

ASSUME CellAssumption == FineCell \subseteq Nat \X Nat /\ MaxZoom \in Nat
ASSUME HashAssumption == Hash \in [GridKey -> Nat]
\* Capacities are powers of two, 8 and up in the code; a smaller one is enough
\* to see the table grow.
ASSUME CapAssumption == InitCap \in Nat \ {0, 1} /\ MaxListed \in Nat

H == INSTANCE CellHash WITH HashKey <- GridKey, VACANT <- NONE

\* The storage as one value, so that a loop over levels is a function.
Store == [grid |-> grid, entry |-> entry, free |-> free]

Bucket(st, k) == Follow(st.entry, H!Get(st.grid, k))
FreeList(st)  == Follow(st.entry, st.free)

-----------------------------------------------------------------------------
(* Loops over levels *)

\* new_entry: from the free list, else one more; and grid_add_at: at the head.
AddAt(st, s, k) ==
    LET e == IF st.free # NONE THEN st.free ELSE Len(st.entry) + 1
        new == [slot |-> s, next |-> H!Get(st.grid, k)]
    IN  [grid  |-> H!Set(st.grid, k, e),
         entry |-> IF st.free # NONE THEN [st.entry EXCEPT ![e] = new] ELSE Append(st.entry, new),
         free  |-> IF st.free # NONE THEN st.entry[e].next ELSE NONE]

\* Mutant: an entry taken from the middle of a list is not given back.
DelAtLeaks(st, s, k) ==
    LET list == Bucket(st, k)
        n    == CHOOSE i \in DOMAIN list : st.entry[list[i]].slot = s
        e    == list[n]
        next == st.entry[e].next
    IN  [grid  |-> IF n > 1 THEN st.grid
                   ELSE IF next = NONE THEN H!Delete(st.grid, k) ELSE H!Set(st.grid, k, next),
         entry |-> IF n = 1 THEN [st.entry EXCEPT ![e] = [slot |-> NONE, next |-> st.free]]
                   ELSE [st.entry EXCEPT ![list[n - 1]].next = next],
         free  |-> IF n = 1 THEN e ELSE st.free]

\* grid_del_at: the head gives way to the next entry, or the key is removed with
\* its last one; any other entry is bypassed.  (A freed entry keeps its slot in
\* the code; nothing reads it, and it is cleared here.)
DelAt(st, s, k) ==
    LET list == Bucket(st, k)
        n    == CHOOSE i \in DOMAIN list : st.entry[list[i]].slot = s
        e    == list[n]
        next == st.entry[e].next
        bypassed == IF n = 1 THEN st.entry ELSE [st.entry EXCEPT ![list[n - 1]].next = next]
    IN  [grid  |-> IF n > 1 THEN st.grid
                   ELSE IF next = NONE THEN H!Delete(st.grid, k) ELSE H!Set(st.grid, k, next),
         entry |-> [bypassed EXCEPT ![e] = [slot |-> NONE, next |-> st.free]],
         free  |-> e]

\* grid_add and grid_del: from the finest level to t.
GridAdd(s, t, c) ==
    LET at[z \in t..Leaf] == IF z = Leaf THEN Store ELSE AddAt(at[z + 1], s, At(z, c))
    IN  at[t]
GridDel(s) ==
    LET at[z \in tz[s]..Leaf] == IF z = Leaf THEN Store
                                 ELSE DelAt(at[z + 1], s, At(z, cell[s]))
    IN  at[tz[s]]

\* Mutant: the walk stops where one coordinate is unchanged.
GridMoveEither(s, c) ==
    LET goes(z) == \A y \in z..MaxZoom :
                      At(y, c)[2] # At(y, cell[s])[2] /\ At(y, c)[3] # At(y, cell[s])[3]
        at[z \in tz[s]..Leaf] ==
          IF z = Leaf THEN Store
          ELSE IF goes(z) THEN AddAt(DelAt(at[z + 1], s, At(z, cell[s])), s, At(z, c))
          ELSE at[z + 1]
    IN  at[tz[s]]

\* grid_move: from the finest level to the first whose cell does not change.
GridMove(s, c) ==
    LET goes(z) == \A y \in z..MaxZoom : At(y, c) # At(y, cell[s])
        at[z \in tz[s]..Leaf] ==
          IF z = Leaf THEN Store
          ELSE IF goes(z) THEN AddAt(DelAt(at[z + 1], s, At(z, cell[s])), s, At(z, c))
          ELSE at[z + 1]
    IN  at[tz[s]]

-----------------------------------------------------------------------------

Stored(st) == grid' = st.grid /\ entry' = st.entry /\ free' = st.free

Init ==
    /\ grid = H!EmptyTable(InitCap)
    /\ entry = <<>>
    /\ free = NONE
    /\ cell = [s \in Slot |-> NONE]
    /\ tz = [s \in Slot |-> Leaf]

\* link gives s level t and files it.  A point of level Leaf is filed nowhere.
File(s, t, c) ==
    /\ cell[s] = NONE
    /\ SumFunction([r \in Slot |-> Leaf - tz[r]]) + Leaf - t <= MaxListed
    /\ Stored(GridAdd(s, t, c))
    /\ cell' = [cell EXCEPT ![s] = c]
    /\ tz' = [tz EXCEPT ![s] = t]

\* unlink.
Withdraw(s) ==
    /\ cell[s] # NONE
    /\ Stored(GridDel(s))
    /\ cell' = [cell EXCEPT ![s] = NONE]
    /\ tz' = [tz EXCEPT ![s] = Leaf]

\* The fast path of a move.
Refile(s, c) ==
    /\ cell[s] # NONE
    /\ Stored(GridMove(s, c))
    /\ cell' = [cell EXCEPT ![s] = c]
    /\ UNCHANGED tz

Next ==
    \E s \in Slot :
       \/ \E t \in 0..Leaf, c \in FineCell : File(s, t, c)
       \/ Withdraw(s)
       \/ \E c \in FineCell : Refile(s, c)

Spec == Init /\ [][Next]_vars

-----------------------------------------------------------------------------
(* Properties *)

\* The list of k holds the centers k belongs to, each once.
BucketExact(k) ==
    LET list == Bucket(Store, k)
    IN  /\ {entry[e].slot : e \in Range(list)} =
              {s \in Slot : cell[s] # NONE /\ tz[s] <= k[1] /\ At(k[1], cell[s]) = k}
        /\ IsInjective([i \in DOMAIN list |-> entry[list[i]].slot])

\* The entries are shared out among the lists and the free list.
EntriesConserved ==
    LET lists == [k \in GridKey |-> Bucket(Store, k)]
        idle  == FreeList(Store)
    IN  /\ UNION {Range(lists[k]) : k \in GridKey} \union Range(idle) = DOMAIN entry
        /\ SumFunction([k \in GridKey |-> Len(lists[k])]) + Len(idle) = Len(entry)

\* The grid, read through the directory and the lists, files every center under
\* the cell that contains it at each of its levels, once, and under no other key:
\* nothing is left in a cell it has moved out of, and nothing is missing from a
\* cell a scan will probe, whatever entries were reused and whatever the directory
\* shifted on the way.  Churn neither leaks entries nor lets two lists share one.
FilingExact == (\A k \in GridKey : BucketExact(k)) /\ EntriesConserved

\* Removal leaves "the table exactly as if the removed key had never been
\* inserted": however long the index runs, the directory finds every key it holds,
\* holds none without a list, and lies as freshly built from them (cellhash.rs,
\* "it runs forever without a rebuild").
DirectoryExact ==
    /\ H!Sound(grid) /\ H!NoDebris(grid)
    /\ \A k \in GridKey : H!Get(grid, k) # NONE <=> Bucket(Store, k) # <<>>

=============================================================================
