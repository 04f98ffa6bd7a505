---------------------------- MODULE MCCollection ----------------------------
(***************************************************************************)
(* A small instance of Collection: a few items of one device, as reports   *)
(* and as patches, with and without versions, cells and properties.  A     *)
(* position is labelled by the version that reported it.                   *)
(***************************************************************************)
EXTENDS Collection

Report(d, v, c, s) == [id |-> d, kind |-> "report", ver |-> v, at |-> v, cells |-> c, size |-> s]
Patch(d, v, c, s)  == [id |-> d, kind |-> "patch", ver |-> v, at |-> NONE, cells |-> c, size |-> s]

MCDefault == {"dflt"}

\* One device, every kind of item; batches of one and two.
MCItems == {Report("a", 0, {"red"}, 0), Report("a", 1, KEEP, 0), Report("a", 2, {"red"}, 2),
            Patch("a", 0, {"blue"}, 0), Patch("a", 3, KEEP, 2)}
MCBatches == {<<i>> : i \in MCItems} \union {<<i, j>> : i, j \in MCItems}
=============================================================================
