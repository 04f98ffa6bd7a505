----------------------------- MODULE Dimensions -----------------------------
(***************************************************************************)
(* The filter dimensions of a collection: crates/netcluster-server/src/    *)
(* schema.rs, and what collection.rs and routes.rs do with it.  A          *)
(* dimension either declares its values or has a capacity, and then gives  *)
(* each value it meets the next free slot.  A shape is a combination of    *)
(* dimensions that may be queried; a cell is one number for one choice of  *)
(* values in one shape, and cells are all that devices, the index and a    *)
(* snapshot's records keep.                                                *)
(*                                                                         *)
(* So a number must mean the same for ever, and it is used long after it   *)
(* was resolved: by a report before the batch is applied, by a query while *)
(* it walks the index, by a snapshot, by the process that reads it back.   *)
(* Each of these is a step of its own here.  What an item of a batch says  *)
(* is read off either wire format in Intake; versions and clocks are in    *)
(* Collection, and how a file is written is in Snapshots.                  *)
(*                                                                         *)
(* A device also has "held", which is not in the code: the values its last *)
(* report gave it, for the properties to compare its cells with.           *)
(***************************************************************************)
EXTENDS Intake, FiniteSets, SequencesExt, FiniteSetsExt

CONSTANTS
    Shapes,    \* the shapes, each an increasing sequence of dimension numbers
    MaxCells,  \* MAX_CELLS
    Numeral,   \* Numeral[v]: the number v spells, or a large one
    Batches    \* the requests posted, see Intake

\* The items of a list that pass a test, in order: SelectSeq, by a definition that
\* proofs can unfold.
Keeping(Test(_), items) ==
    FoldLeft(LAMBDA kept, x : IF Test(x) THEN Append(kept, x) ELSE kept, <<>>, items)

IsDynamic(d) == Dims[d].capacity > 0
Size(d) == IF IsDynamic(d) THEN Dims[d].capacity ELSE Len(Dims[d].values)

\* Shape.strides: how many cells the dimensions after the k-th span.
Stride(sh, k) ==
    FoldLeft(LAMBDA acc, d : acc * Size(d), 1, SubSeq(sh, k + 1, Len(sh)))

\* The cells of a shape, and where its block begins.
Span(sh) == Stride(sh, 0)
Base(i) == FoldLeft(LAMBDA acc, sh : acc + Span(sh), 0, SubSeq(Shapes, 1, i - 1))

Cells == Base(Len(Shapes) + 1)

\* max_cells_per_device: a dimension that may be held several times counts four.
MaxCellsPerDevice ==
    FoldLeft(LAMBDA acc, sh :
                acc + FoldLeft(LAMBDA p, d : IF Dims[d].multi THEN 4 * p ELSE p, 1, sh),
             0, Shapes)

\* What Schema::new accepts.
ASSUME SchemaAssumption ==
    /\ Dims \in Seq(Range(Dims))
    /\ \A d \in Dim : /\ Dims[d].values \in Seq(Range(Dims[d].values))
                      /\ Dims[d].capacity \in Nat
                      /\ (Dims[d].values = <<>>) <=> IsDynamic(d)
                      /\ IsInjective(Dims[d].values)
                      /\ Dims[d].multi \in BOOLEAN
    /\ Shapes \in Seq(Seq(Dim)) /\ IsInjective(Shapes)
    /\ \A sh \in Range(Shapes) :
          /\ sh # <<>>
          /\ \A j, k \in DOMAIN sh : j < k => sh[j] < sh[k]
    /\ Cells <= MaxCells

ASSUME RequestAssumption ==
    \A q \in Batches : IsRequest(q) /\ q.items \in Seq(Range(q.items))

ASSUME ValueAssumption == Numeral \in [Value -> Nat] /\ ABSENT \notin Seq(Value) /\ NONE \notin Nat

VARIABLES
    labels,   \* the interner: labels[d] lists the values of d, slot 0 first
    filed,    \* what records and index have of each device, or NONE
    req,      \* the batch that holds the write gate: reports to come, resolved
    asked,    \* a query under way: what it selects and the cell it resolved to
    copied,   \* the records a snapshot under way has copied, or NONE
    file      \* the snapshot on disk

vars == <<labels, filed, req, asked, copied, file>>

-----------------------------------------------------------------------------
(* Values and cells *)

\* static_value: a label, or else the number of one.
Declared(d, v) == v \in Range(Dims[d].values) \/ Numeral[v] < Len(Dims[d].values)
StaticValue(d, v) ==
    IF v \in Range(Dims[d].values) THEN (CHOOSE i \in DOMAIN Dims[d].values : Dims[d].values[i] = v) - 1
    ELSE Numeral[v]

Known(t, d, v) == IF IsDynamic(d) THEN v \in Range(t[d]) ELSE Declared(d, v)

\* Looking: the slot of a value that has one.
Slot(t, d, v) ==
    IF IsDynamic(d) THEN (CHOOSE i \in DOMAIN t[d] : t[d][i] = v) - 1 ELSE StaticValue(d, v)

\* A dimension that cannot take another value.
Full(t, d) == Len(t[d]) >= Size(d)

\* Interning: a new value of a dimension with a capacity takes the next slot.
Interned(s, d, v) ==
    IF Known(s.labels, d, v) THEN [s EXCEPT !.slots[d] = @ \union {Slot(s.labels, d, v)}]
    ELSE IF ~ IsDynamic(d) \/ v = "" \/ Full(s.labels, d) THEN [s EXCEPT !.ok = FALSE]
    ELSE [s EXCEPT !.labels[d] = Append(@, v), !.slots[d] = @ \union {Len(s.labels[d])}]

\* Mutant: the values after one that is refused are looked up all the same.
ResolvedDimToTheEnd(s, d, val) ==
    IF ~ s.ok \/ val = <<>> THEN s
    ELSE IF val = ABSENT THEN IF IsDynamic(d) THEN s ELSE [s EXCEPT !.slots[d] = {0}]
    ELSE IF ~ Dims[d].multi /\ Len(val) > 1 THEN [s EXCEPT !.ok = FALSE]
    ELSE FoldLeft(LAMBDA u, v : Interned(u, d, v), s, val)

\* One dimension of cells_for.  A value absent from a declared list is its first.
ResolvedDim(s, d, val) ==
    IF ~ s.ok \/ val = <<>> THEN s
    ELSE IF val = ABSENT THEN IF IsDynamic(d) THEN s ELSE [s EXCEPT !.slots[d] = {0}]
    ELSE IF ~ Dims[d].multi /\ Len(val) > 1 THEN [s EXCEPT !.ok = FALSE]
    ELSE FoldLeft(LAMBDA u, v : IF u.ok THEN Interned(u, d, v) ELSE u, s, val)

\* The cell of one choice of slots in shape i.
CellOf(i, slot) ==
    LET sh == Shapes[i]
    IN  Base(i) + FoldLeft(LAMBDA acc, k : acc + slot[sh[k]] * Stride(sh, k), 0,
                           [k \in DOMAIN sh |-> k])

\* emit: every choice of one slot per dimension, in every shape.
Emitted(slots) ==
    UNION { LET ds == Range(Shapes[i])
            IN  {CellOf(i, slot) : slot \in {f \in [ds -> UNION {slots[d] : d \in ds}] :
                                                \A d \in ds : f[d] \in slots[d]}}
            : i \in DOMAIN Shapes }

\* cells_for.  The interner keeps what was taken before an error.
Resolve(t, vals) ==
    LET start == [ok |-> TRUE, labels |-> t, slots |-> [d \in Dim |-> {}]]
        s     == FoldLeft(LAMBDA u, d : ResolvedDim(u, d, vals[d]), start, [d \in Dim |-> d])
        cells == IF s.ok THEN Emitted(s.slots) ELSE {}
    IN  [labels |-> s.labels, cells |-> cells,
         ok |-> s.ok /\ Cardinality(cells) <= MaxCellsPerDevice]

NoLabels == [d \in Dim |-> <<>>]
\* What a device gets that never named a value.
DefaultCells == Resolve(NoLabels, Nothing).cells

\* query_cell, for a selection of one value per dimension of a shape.
QueryCell(t, sel) ==
    LET i == CHOOSE i \in DOMAIN Shapes : Range(Shapes[i]) = DOMAIN sel
    IN  IF \E d \in DOMAIN sel : ~ Known(t, d, sel[d]) THEN NONE
        ELSE CellOf(i, [d \in DOMAIN sel |-> Slot(t, d, sel[d])])

Selections ==
    UNION { {sel \in [Range(sh) -> Value] :
                \A d \in Range(sh) : IsDynamic(d) \/ Declared(d, sel[d])} : sh \in Range(Shapes) }

\* What a value of d is, whatever slot it has; and what a report says of a device.
Meaning(d, v) == IF IsDynamic(d) THEN v ELSE Dims[d].values[StaticValue(d, v) + 1]
Meant(vals) ==
    [d \in Dim |-> IF vals[d] # ABSENT THEN {Meaning(d, v) : v \in Range(vals[d])}
                   ELSE IF IsDynamic(d) THEN {} ELSE {Head(Dims[d].values)}]

-----------------------------------------------------------------------------

NoReq == [pc |-> "idle", partial |-> FALSE, todo |-> <<>>, got |-> <<>>]
NoFile == [records |-> [dev \in Device |-> NONE], labels |-> NoLabels]

\* Collection::new, with nothing on disk.
Init ==
    /\ labels = NoLabels
    /\ filed = [dev \in Device |-> NONE]
    /\ req = NoReq
    /\ asked = NONE
    /\ copied = NONE
    /\ file = NoFile

\* Mutant: values are resolved before the other checks are made.
SubmitUnchecked(q, partial) ==
    /\ req.pc = "idle"
    /\ req' = [pc |-> "resolving", partial |-> partial, got |-> <<>>,
               todo |-> [n \in DOMAIN q.items |-> Taken(q, q.items[n])]]
    /\ UNCHANGED <<labels, filed, asked, copied, file>>

\* positions, with the gate held: the passes over the batch that take no slot.  What
\* they refuse is set aside when the request is partial and fails it otherwise.
Submit(q, partial) ==
    LET kept == Keeping(LAMBDA r : WellFormed(q, r), q.items)
    IN  /\ req.pc = "idle"
        /\ partial \/ kept = q.items
        /\ req' = [pc |-> "resolving", partial |-> partial, got |-> <<>>,
                   todo |-> [n \in DOMAIN kept |-> Taken(q, kept[n])]]
        /\ UNCHANGED <<labels, filed, asked, copied, file>>

\* cells_for_report, under the interner's lock, for the next item; one that names
\* no value keeps what the device has.  An error sets the item aside when the
\* request is partial and answers it otherwise.
ResolveReport ==
    LET r    == Head(req.todo)
        res  == Resolve(labels, r.vals)
        keep == r.bare
        out  == [dev |-> r.dev, patch |-> r.patch, keep |-> keep,
                 cells |-> res.cells, held |-> Meant(r.vals)]
    IN  /\ req.pc = "resolving"
        /\ req.todo # <<>>
        /\ labels' = IF keep THEN labels ELSE res.labels
        /\ req' = IF keep \/ res.ok THEN [req EXCEPT !.todo = Tail(@), !.got = Append(@, out)]
                  ELSE IF req.partial THEN [req EXCEPT !.todo = Tail(@)]
                  ELSE NoReq
        /\ UNCHANGED <<filed, asked, copied, file>>

\* upsert of one report, under the lock of the state.
FiledBy(f, out) ==
    [f EXCEPT ![out.dev] =
        IF ~ out.keep THEN [cells |-> out.cells, held |-> out.held]
        ELSE IF @ # NONE THEN @
        ELSE [cells |-> DefaultCells, held |-> Meant(Nothing)]]

\* patch of one device.  One that is not registered is reported as unknown, though
\* its values were resolved, and took their slots.
PatchedBy(f, out) ==
    [f EXCEPT ![out.dev] =
        IF out.keep \/ @ = NONE THEN @ ELSE [cells |-> out.cells, held |-> out.held]]

\* First the positions, in one section under the lock, ...
Apply ==
    /\ req.pc = "resolving"
    /\ req.todo = <<>>
    /\ filed' = FoldLeft(FiledBy, filed, Keeping(LAMBDA out : ~ out.patch, req.got))
    /\ LET patches == Keeping(LAMBDA out : out.patch, req.got)
       IN  req' = IF patches = <<>> THEN NoReq
                  ELSE [req EXCEPT !.pc = "patching", !.got = patches]
    /\ UNCHANGED <<labels, asked, copied, file>>

\* ... then the patches, in another.
ApplyPatches ==
    /\ req.pc = "patching"
    /\ filed' = FoldLeft(PatchedBy, filed, req.got)
    /\ req' = NoReq
    /\ UNCHANGED <<labels, asked, copied, file>>

\* Mutant: the last slot is taken back when no device is filed under its value.
VanishReclaims(dev) ==
    /\ filed[dev] # NONE
    /\ filed' = [filed EXCEPT ![dev] = NONE]
    /\ labels' = [d \in Dim |->
          IF labels[d] # <<>> /\ \A e \in Device : filed'[e] = NONE \/ Last(labels[d]) \notin filed'[e].held[d]
          THEN Front(labels[d]) ELSE labels[d]]
    /\ UNCHANGED <<req, asked, copied, file>>

\* A device expires: the sweep does not take the write gate.  A DELETE, which
\* does, is one of these.  Slots stay taken.
Vanish(dev) ==
    /\ filed[dev] # NONE
    /\ filed' = [filed EXCEPT ![dev] = NONE]
    /\ UNCHANGED <<labels, req, asked, copied, file>>

\* filter_cell: a query resolves what it selects, then reads the index for a while.
\* One that names a value without a slot selects a cell no device can be in
\* (NO_MATCH): nothing can become of it, and it is not followed.
Ask(sel) ==
    /\ asked = NONE
    /\ QueryCell(labels, sel) # NONE
    /\ asked' = [sel |-> sel, cell |-> QueryCell(labels, sel)]
    /\ UNCHANGED <<labels, filed, req, copied, file>>

Answer ==
    /\ asked # NONE
    /\ asked' = NONE
    /\ UNCHANGED <<labels, filed, req, copied, file>>

\* snapshot_to: first the records, under one lock.
CopyRecords ==
    /\ copied = NONE
    /\ copied' = [records |-> filed]
    /\ UNCHANGED <<labels, filed, req, asked, file>>

\* Mutant: the table of labels is not written anew.
WriteOldLabels ==
    /\ copied # NONE
    /\ file' = [records |-> copied.records, labels |-> file.labels]
    /\ copied' = NONE
    /\ UNCHANGED <<labels, filed, req, asked>>

\* Then the labels, under another, and both go to disk.
WriteSnapshot ==
    /\ copied # NONE
    /\ file' = [records |-> copied.records, labels |-> labels]
    /\ copied' = NONE
    /\ UNCHANGED <<labels, filed, req, asked>>

\* Collection::restore of one record: cells the schema no longer has are dropped,
\* and a device that loses all of them takes the default ones.
Restored(rec) ==
    IF rec = NONE THEN NONE
    ELSE LET kept == {c \in rec.cells : c < Cells}
         IN  [rec EXCEPT !.cells = IF kept = {} /\ rec.cells # {} THEN DefaultCells ELSE kept]

\* The process stops, and starts from the snapshot.  Records older than the TTL
\* stay out; labels keep their places, as far as the capacity goes.
Restart(young) ==
    /\ labels' = [d \in Dim |-> IF IsDynamic(d)
                                THEN SubSeq(file.labels[d], 1, Min({Len(file.labels[d]), Size(d)}))
                                ELSE <<>>]
    /\ filed' = [dev \in Device |-> IF dev \in young THEN Restored(file.records[dev]) ELSE NONE]
    /\ req' = NoReq
    /\ asked' = NONE
    /\ copied' = NONE
    /\ UNCHANGED file

Next ==
    \/ \E q \in Batches, partial \in BOOLEAN : Submit(q, partial)
    \/ ResolveReport
    \/ Apply \/ ApplyPatches
    \/ \E dev \in Device : Vanish(dev)
    \/ \E sel \in Selections : Ask(sel)
    \/ Answer
    \/ CopyRecords
    \/ WriteSnapshot
    \/ \E young \in SUBSET Device : Restart(young)

Spec == Init /\ [][Next]_vars

-----------------------------------------------------------------------------
(* Properties *)

\* What an item that names vals has got past when v takes a slot of d: whatever it
\* names before v has a place in the tables t.
GetsTo(t, vals, d, v) ==
    /\ \A e \in 1..d : vals[e] # ABSENT => Dims[e].multi \/ Len(vals[e]) <= 1
    /\ \A e \in 1..d-1 : vals[e] # ABSENT => \A w \in Range(vals[e]) : Known(t, e, w)
    /\ vals[d] # ABSENT
    /\ \E k \in DOMAIN vals[d] : vals[d][k] = v /\ \A j \in 1..k : Known(t, d, vals[d][j])

\* How far it goes that "a report about to be refused must not take" a slot, which
\* is "never given back" (positions).  Slots stay within the capacity, and every
\* value that has one was named by an item that passed the checks on ids, positions
\* and properties, in either format, and had nothing to be refused for up to that
\* value.  It may be refused for a later one, or for too many cells, and the slot
\* stays taken: the comment, and README.md:415-416, claim more than is so.
SlotsEndAtError ==
    \A d \in Dim :
       /\ IsDynamic(d) => Len(labels[d]) <= Size(d)
       /\ \A v \in Range(labels[d]) :
             \E q \in Batches : \E n \in DOMAIN q.items :
                WellFormed(q, q.items[n]) /\ GetsTo(labels, ValsOf(q, q.items[n]), d, v)

Filtered(cell) == {dev \in Device : filed[dev] # NONE /\ cell \in filed[dev].cells}
Holding(sel) ==
    {dev \in Device : filed[dev] # NONE /\ \A d \in DOMAIN sel : Meaning(d, sel[d]) \in filed[dev].held[d]}

\* A filter shows the devices whose last report gave them the values it names, and
\* no others, in every shape: whether a report, a sweep or a restart came between.
\* A value without a slot is held by no device.
FilterExact ==
    \A sel \in Selections :
       LET cell == QueryCell(labels, sel)
       IN  Holding(sel) = IF cell = NONE THEN {} ELSE Filtered(cell)

\* A query that resolved its cell earlier still shows only devices that hold what
\* it asked for, and all of them, whatever was interned or removed since.
UnderWayExact == asked # NONE => Filtered(asked.cell) = Holding(asked.sel)

=============================================================================
