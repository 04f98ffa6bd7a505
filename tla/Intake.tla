-------------------------------- MODULE Intake --------------------------------
(***************************************************************************)
(* What POST /positions makes of a batch before it resolves any value: the *)
(* two wire formats of routes.rs (compact_cells, positions) and geojson.rs *)
(* (GeoFeature, peek_dims), down to one form: which device, does it say    *)
(* where the device is, and what values it names.                          *)
(*                                                                         *)
(* A compact report carries its id, and coordinates or none.  A Feature    *)
(* has an optional id, a geometry, and properties from which an id and the *)
(* values are peeked.  Its text may fail to read as what it must be, which *)
(* shows only when somebody peeks.  A collection with "categories", the    *)
(* older spelling of one declared dimension, is left out.                  *)
(***************************************************************************)
EXTENDS Naturals, Sequences

CONSTANTS
    Dims,      \* the dimensions: [values, capacity, multi], capacity 0 for a list
    Value,     \* the texts a report or a query may name
    Device,
    ABSENT,    \* a dimension a report does not name
    NONE       \* no device, no properties, no cell, no query

Dim == DOMAIN Dims

\* DimVal: no value (a null), one, or a list; several ways to spell a number are one text.
IsNamed(vals) == DOMAIN vals = Dim /\ \A d \in Dim : vals[d] = ABSENT \/ vals[d] \in Seq(Value)

\* ReportBody: "cat" is the older spelling of the first dimension; "extra" says that
\* it names a dimension the collection does not have; "at" is which coordinates were
\* sent; props are big when they are over the limit.
IsCompact(r) ==
    /\ r.id \in Device /\ IsNamed(r.dims) /\ r.cat \in Value \union {ABSENT}
    /\ r.extra \in BOOLEAN
    /\ r.at \in {"both", "one", "neither"} /\ r.big \in BOOLEAN

\* GeoFeature: "key" is the property the request names as the id; a point may have
\* its coordinates the wrong way round.
IsFeature(r) ==
    /\ r.id \in Device \union {NONE}
    /\ r.geom \in {"point", "swapped", "null"}
    /\ r.props # NONE =>
          /\ {r.props.id, r.props.key} \subseteq Device \union {NONE}
          /\ IsNamed(r.props.dims)
          /\ r.props.readable \in BOOLEAN /\ r.props.big \in BOOLEAN

\* A request: its body is settled by the shape of the container, compact or geo;
\* idProp says whether it names a property as the id.
IsRequest(q) ==
    /\ q.form \in {"compact", "geo"} /\ q.idProp \in BOOLEAN
    /\ \A n \in DOMAIN q.items : IF q.form = "compact" THEN IsCompact(q.items[n])
                                 ELSE IsFeature(q.items[n])

\* Every dimension absent.
Nothing == [d \in Dim |-> ABSENT]

\* The id of a Feature: a property that was named as the id is the only place to look.
FeatureId(q, r) ==
    IF q.idProp THEN IF r.props = NONE THEN NONE ELSE r.props.key
    ELSE IF r.id # NONE THEN r.id
    ELSE IF r.props = NONE THEN NONE ELSE r.props.id

IdOf(q, r) == IF q.form = "compact" THEN r.id ELSE FeatureId(q, r)

\* compact_cells: "cat" stands in for the first dimension unless that is named too.
CompactVals(r) == [r.dims EXCEPT ![1] = IF @ = ABSENT /\ r.cat # ABSENT THEN <<r.cat>> ELSE @]

\* peek_dims: a dimension is a property of its name.
PeekedVals(r) == IF r.props = NONE THEN Nothing ELSE r.props.dims

ValsOf(q, r) == IF q.form = "compact" THEN CompactVals(r) ELSE PeekedVals(r)

\* check_props.
TooBig(q, r) == IF q.form = "compact" THEN r.big ELSE r.props # NONE /\ r.props.big

\* The checks that come before any value is resolved: both coordinates or none, ...
CompactFormed(r) == r.at # "one"

\* ... or a point where a latitude can be, and an id.  Properties are always peeked,
\* as a collection with dimensions may find values there.
FeatureFormed(q, r) ==
    /\ r.props # NONE => r.props.readable
    /\ r.geom = "point"
    /\ FeatureId(q, r) # NONE

WellFormed(q, r) ==
    /\ IF q.form = "compact" THEN CompactFormed(r) ELSE FeatureFormed(q, r)
    /\ ~ TooBig(q, r)

\* An item without a position is a patch.  A Feature always has one.
IsPatch(q, r) == q.form = "compact" /\ r.at = "neither"

\* An item that names no value leaves the device where it is.  A dimension the
\* collection does not have counts as one in a compact report, though nothing
\* comes of it; in a Feature it is a property like any other.
IsBare(q, r) == ValsOf(q, r) = Nothing /\ (q.form = "compact" => ~ r.extra)

\* What is resolved and applied.
Taken(q, r) ==
    [dev |-> IdOf(q, r), patch |-> IsPatch(q, r), bare |-> IsBare(q, r), vals |-> ValsOf(q, r)]

=============================================================================
