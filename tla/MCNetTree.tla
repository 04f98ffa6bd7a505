----------------------------- MODULE MCNetTree -----------------------------
(***************************************************************************)
(* A small instance of NetTree: three levels of radius 16, 8 and 4 with    *)
(* the default hysteresis of 1/4, and positions at the distances that      *)
(* matter to them (4 and 5, 8 and 10, 16 and 20 and just beyond).          *)
(***************************************************************************)
EXTENDS NetTree, TLC

\* Ids sort as decimal strings, so 10 comes before 2.
MCDev  == {2, 3, 10, 11}
MCRank == 10 :> 0 @@ 11 :> 1 @@ 2 :> 2 @@ 3 :> 3

MCR2 == 0 :> 256 @@ 1 :> 64 @@ 2 :> 16
MCH2 == 0 :> 400 @@ 1 :> 100 @@ 2 :> 25

\* A road and one side street off it.
MCPos == {<<0, 0>>, <<4, 0>>, <<9, 0>>, <<14, 0>>, <<20, 0>>, <<26, 0>>, <<12, 8>>}
=============================================================================
