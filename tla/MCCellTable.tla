---------------------------- MODULE MCCellTable ----------------------------
(***************************************************************************)
(* Three devices, for a child that is re-homed under another one; three    *)
(* cells held all at once or the second alone, for chains of three entries *)
(* that lose the first, the middle and the last; five operations, for an   *)
(* entry that is given back by one device and taken by the next.           *)
(***************************************************************************)
EXTENDS CellTable

MCCellSets == {{2}, {1, 2, 3}}
MCSymmetry == Permutations(Id)
=============================================================================
