----------------------------- MODULE TreeVerify -----------------------------
(***************************************************************************)
(* The parts of NetCluster::verify (crates/netcluster/src/index/verify.rs) *)
(* that look at the hierarchy and the grid.  It takes &self, so it runs    *)
(* with no repair under way, and it consults nothing the index keeps for   *)
(* itself: separation is checked pairwise, the grid against the levels.    *)
(*                                                                         *)
(* The 1e-6 by which the code relaxes its comparisons is the rounding of   *)
(* squared floats, of which integers need none.                            *)
(***************************************************************************)
EXTENDS NetTree

\* 1. Roots have level 0, levels increase downward, parents are live and cover.
VerifyShape ==
    \A s \in live :
       /\ tz[s] \in 0..Leaf
       /\ tz[s] = 0 => par[s] = NONE
       /\ tz[s] # 0 => /\ par[s] \in live
                       /\ tz[par[s]] < tz[s]
                       /\ D2(pos[par[s]], pos[s]) <= H2[tz[s] - 1]

Centers == {s \in live : tz[s] <= MaxZoom}

\* 3. Each pair of centers once, at the coarsest level both are centers of.
VerifySeparation ==
    \A a, b \in Centers :
       a # b => D2(pos[a], pos[b]) > R2[IF tz[a] < tz[b] THEN tz[b] ELSE tz[a]]

\* 5. Whatever the grid lists is a live device of a level that coarse, and every
\* center is listed from its level to the finest.  (That the numbers of listings
\* agree follows; cells and entries of the grid are in GridIndex.)
VerifyGrid ==
    /\ \A z \in Level : \A s \in listed[z] : s \in live /\ tz[s] <= z
    /\ \A s \in Centers : \A z \in tz[s]..MaxZoom : s \in listed[z]

VerifyTree == VerifyShape /\ VerifySeparation /\ VerifyGrid

=============================================================================
