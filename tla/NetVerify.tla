------------------------------ MODULE NetVerify ------------------------------
(***************************************************************************)
(* The rest of NetCluster::verify: child lists, subtree sums, cells, and   *)
(* the clusters of every level, each worked out afresh from the edges.     *)
(***************************************************************************)
EXTENDS NetClusters, TreeVerify

\* 2. Child lists agree with parents, are sorted, and leave no child out.
VerifyLists ==
    /\ \A s \in live :
          /\ IsInjective(kidlist[s])
          /\ \A i \in DOMAIN kidlist[s] : par[kidlist[s][i]] = s
          /\ \A i \in 2..Len(kidlist[s]) : tz[kidlist[s][i - 1]] <= tz[kidlist[s][i]]
    /\ \A s \in live : par[s] # NONE => \E t \in live : s \in ToSet(kidlist[t])

\* What subtree_sums returns for each device, the devices met down the child lists
\* and their mass, when "of" is what its calls for the children return.
SumsFrom(of) ==
    [t \in live |->
       [met |-> {t} \union UNION {of[b].met : b \in ToSet(kidlist[t])},
        sum |-> Plus([n |-> 1, x |-> pos[t][1]],
                     SumOver(kidlist[t], [b \in live |-> of[b].sum]))]]

\* subtree_sums, calling itself for each child, as deep as there are levels.
SubtreeSums(s) ==
    LET sums[n \in 0..(Leaf + 1)] ==
          IF n = 0 THEN [t \in live |-> [met |-> {}, sum |-> Zero]] ELSE SumsFrom(sums[n - 1])
    IN  sums[Leaf + 1][s]

\* 4. The lists reach every device from the roots, and totals are its sums.
VerifySums ==
    /\ UNION {SubtreeSums(s).met : s \in {r \in live : par[r] = NONE}} = live
    /\ \A s \in live : mass[s][All] = SubtreeSums(s).sum

\* 4b. Each device credits its cells up to the root; the table holds that and
\* nothing else, at free slots neither.
VerifyCells ==
    LET below == [t \in Dev |-> {d \in live : t \in Chain(par, d)}]
    IN  \A t \in Dev, c \in Cell : mass[t][c] = MassOf(below[t], c)

\* 6. At every level the devices grouped by representative are what cluster_at
\* counts, within the radius bound.
VerifyPartition ==
    \A z \in Level :
       LET rep == [d \in live |-> Rep(d, z)]
       IN  /\ \A d \in live : D2(pos[d], pos[rep[d]]) <= 4 * H2[z]
           /\ \A a \in {rep[d] : d \in live} :
                 ClusterAt(a, z, All).n = Cardinality({d \in live : rep[d] = a})

\* Every index a sequence of calls leads to passes the repository's own checker:
\* the sums, lists, cells, levels, distances and clusters it recomputes agree with
\* what incremental repair left behind.
VerifyAccepts ==
    job = Idle => /\ VerifyTree
                  /\ VerifyLists /\ VerifySums /\ VerifyCells
                  /\ VerifyPartition

=============================================================================
