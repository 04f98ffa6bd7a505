------------------------------ MODULE CellHash ------------------------------
(***************************************************************************)
(* The open-addressed table of crates/netcluster/src/cellhash.rs: linear   *)
(* probing, and removal by shifting entries back instead of tombstones.    *)
(*                                                                         *)
(* A table is [at, len, order]: at[i] is a <<key, value>> or VACANT, len   *)
(* the counter that decides when to grow.  order is no part of the code:   *)
(* it is the order of insertion that would build the table from scratch,   *)
(* so that "as if the removed key had never been inserted" can be said.    *)
(***************************************************************************)
EXTENDS Naturals, Sequences, SequencesExt

CONSTANTS
    HashKey,  \* keys
    Hash,     \* Hash[k]: the mixed bits of k
    VACANT    \* the sentinel EMPTY

Cap(t) == Cardinality(DOMAIN t.at)

\* alloc: a table of cap positions, indexed from 0.
EmptyTable(cap) == [at |-> [i \in 0..(cap - 1) |-> VACANT], len |-> 0, order |-> <<>>]

\* Grow beyond this many entries.
Limit(t) == (6 * Cap(t)) \div 10

Home(t, k) == Hash[k] % Cap(t)

\* How far position i is past position h, going round.
Past(t, i, h) == (i + Cap(t) - h) % Cap(t)

\* Where the probe for k ends: at k, or at the first vacancy.
Probe(t, k) ==
    CHOOSE i \in DOMAIN t.at :
       /\ t.at[i] = VACANT \/ t.at[i][1] = k
       /\ \A j \in DOMAIN t.at :
             Past(t, j, Home(t, k)) < Past(t, i, Home(t, k)) =>
                t.at[j] # VACANT /\ t.at[j][1] # k

\* get.
Get(t, k) == LET e == t.at[Probe(t, k)] IN IF e = VACANT THEN VACANT ELSE e[2]

\* set, up to the question whether to grow.
Put(t, k, v) ==
    LET i == Probe(t, k)
        new == t.at[i] = VACANT
    IN  [at    |-> [t.at EXCEPT ![i] = <<k, v>>],
         len   |-> IF new THEN t.len + 1 ELSE t.len,
         order |-> IF new THEN Append(t.order, k) ELSE t.order]

\* grow: every entry goes into a table twice the size, in table order.
Grow(t) ==
    LET occupied == SelectSeq([i \in 1..Cap(t) |-> t.at[i - 1]], LAMBDA e : e # VACANT)
    IN  FoldLeft(LAMBDA u, e : Put(u, e[1], e[2]), EmptyTable(2 * Cap(t)), occupied)

\* Mutant: the table never grows.
SetNeverGrows(t, k, v) == Put(t, k, v)

\* set.
Set(t, k, v) == LET u == Put(t, k, v) IN IF u.len > Limit(u) THEN Grow(u) ELSE u

\* Mutant: the wrap around the end of the table is forgotten.
FillsNoWrap(t, j, hole) == Home(t, t.at[j][1]) <= hole

\* The entry at j may move back into the hole: its home is not between the two.
Fills(t, j, hole) == Past(t, j, Home(t, t.at[j][1])) >= Past(t, j, hole)

\* remove: from the vacated position onward to the next vacancy, an entry that may
\* fill the hole does so, and leaves the hole where it was.
Delete(t, k) ==
    LET i == Probe(t, k)
        scan[n \in 0..Cap(t)] ==
          IF n = 0 THEN [at |-> [t.at EXCEPT ![i] = VACANT], hole |-> i, done |-> FALSE]
          ELSE LET s == scan[n - 1]
                   j == (i + n) % Cap(t)
               IN  IF s.done \/ s.at[j] = VACANT THEN [s EXCEPT !.done = TRUE]
                   ELSE IF ~ Fills(t, j, s.hole) THEN s
                   ELSE [s EXCEPT !.at = [@ EXCEPT ![s.hole] = t.at[j], ![j] = VACANT],
                                  !.hole = j]
    IN  IF t.at[i] = VACANT THEN t
        ELSE [at |-> scan[Cap(t)].at, len |-> t.len - 1,
              order |-> SelectSeq(t.order, LAMBDA x : x # k)]

-----------------------------------------------------------------------------
(* What a table must satisfy *)

Occupied(t) == {i \in DOMAIN t.at : t.at[i] # VACANT}

\* Every entry is where the probe for its key ends, so no key is lost behind a
\* vacancy or held twice; the counter is exact, and a probe always ends.
Sound(t) ==
    /\ \A i \in Occupied(t) : Probe(t, t.at[i][1]) = i
    /\ t.len = Cardinality(Occupied(t))
    /\ t.len <= Limit(t) /\ t.len < Cap(t)

\* The keys lie as if those that were removed had never been there.
NoDebris(t) ==
    LET fresh == FoldLeft(LAMBDA u, k : Put(u, k, VACANT), EmptyTable(Cap(t)), t.order)
        keys(u) == [i \in DOMAIN u.at |-> IF u.at[i] = VACANT THEN VACANT ELSE u.at[i][1]]
    IN  keys(t) = keys(fresh)

=============================================================================
