---------------------------- MODULE MCGridIndex ----------------------------
(***************************************************************************)
(* A small instance of GridIndex: three centers over two levels with at    *)
(* most four listings, a finest level of three cells, two of them in one   *)
(* cell of the coarser level, and a directory that starts with four        *)
(* positions and grows.  The hash sends most keys to the last two of them, *)
(* so that probes wrap around the end.                                     *)
(***************************************************************************)
EXTENDS GridIndex, TLC

MCFineCell == {<<0, 0>>, <<0, 1>>, <<2, 0>>}
MCHash ==
    [k \in GridKey |-> IF k[1] = 0 THEN 14 + k[2]
                       ELSE IF k = <<1, 0, 0>> THEN 7
                       ELSE IF k = <<1, 0, 1>> THEN 6
                       ELSE 15]
MCSymmetry == Permutations(Slot)
=============================================================================
