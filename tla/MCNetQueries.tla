---------------------------- MODULE MCNetQueries ----------------------------
(***************************************************************************)
(* Two instances on a line.  The first has two levels of radius 16 and 8,  *)
(* four devices and one filter cell; its positions let a child that is     *)
(* re-homed find a parent that has a parent of its own, so that the two    *)
(* ancestor chains differ and are longer than one.  The second has the     *)
(* four levels it takes for the covering slack to add up past the ball     *)
(* that prunes a viewport.                                                 *)
(***************************************************************************)
EXTENDS NetQueries, NetSelection, NetVerify

MCRank == [d \in Dev |-> d]
MCLine == {<<0, 0>>, <<12, 0>>, <<21, 0>>}
MCCellSets == {{}, {"red"}}
MCNoCells == {{}}

MCRadius == 0 :> 16 @@ 1 :> 8
MCR2 == 0 :> 256 @@ 1 :> 64
MCH2 == 0 :> 400 @@ 1 :> 100

\* Four levels, for the run where the slack adds up.
MCLine4 == {<<0, 0>>, <<16, 0>>, <<20, 0>>, <<28, 0>>, <<30, 0>>, <<34, 0>>, <<35, 0>>}
MCRadius4 == 0 :> 16 @@ 1 :> 8 @@ 2 :> 4 @@ 3 :> 2
MCR24 == 0 :> 256 @@ 1 :> 64 @@ 2 :> 16 @@ 3 :> 4
MCH24 == 0 :> 400 @@ 1 :> 100 @@ 2 :> 25 @@ 3 :> 6

MCBoxes  == {<<x, y>> \in {0, 4, 5, 12, 21} \X {0, 4, 5, 12, 21} : x <= y}
MCBoxes4 == {<<33, 40>>}
=============================================================================
