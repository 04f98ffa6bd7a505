---------------------------- MODULE NetSelection ----------------------------
(***************************************************************************)
(* Queries by text and by id list (crates/netcluster-server/src/           *)
(* collection.rs).  A substring has no aggregate to read, so these scan    *)
(* the devices and group the ones that match by the center that represents *)
(* them.  "One place where what matches is decided, so the clustered       *)
(* answer, the flat listing and the id whitelist cannot drift apart";      *)
(* here they are also held against the map drawn from the aggregates.      *)
(*                                                                         *)
(* T stands for the devices that pass the text predicates.  A query runs   *)
(* under the read lock, with no repair under way.                          *)
(***************************************************************************)
EXTENDS NetClusters

\* Candidates::All: every id ever interned, in that order.  An id list is in the
\* order of the caller, and names an id as often as the caller does.
Interned == SetToSeq(Dev)

\* Mutant: the filter is forgotten when text predicates decide.
VisitIgnoringCell(cands, T, k) == SelectSeq(cands, LAMBDA d : d \in live /\ d \in T)

\* visit_matches: the candidates that are live and match, in candidate order.
VisitMatches(cands, T, k) ==
    SelectSeq(cands, LAMBDA d : d \in live /\ d \in T /\ InCell(d, k))

\* select_clusters before the viewport test: a count and a sum for each
\* representative.
Groups(cands, z, T, k) ==
    LET hits == VisitMatches(cands, T, k)
        add(g, d) == [g EXCEPT ![Rep(d, z)] = Plus(@, [n |-> 1, x |-> pos[d][1]])]
    IN  FoldLeft(add, [s \in {Rep(d, z) : d \in ToSet(hits)} |-> Zero], hits)

\* select_clusters: a marker at the mean of its matches, rounded toward zero, if
\* that is in the box.
SelectClusters(box, cands, z, T, k) ==
    LET groups == Groups(cands, z, T, k)
        at(s)  == groups[s].x \div groups[s].n
    IN  {[anchor |-> s, at |-> at(s), count |-> groups[s].n] :
            s \in {r \in DOMAIN groups : box[1] <= at(r) /\ at(r) <= box[2]}}

\* list_devices: one page of the matches inside the box, and how many there are.
ListDevices(box, cands, T, k, limit, offset) ==
    LET hits == SelectSeq(VisitMatches(cands, T, k),
                          LAMBDA d : box[1] <= pos[d][1] /\ pos[d][1] <= box[2])
        last == IF offset + limit < Len(hits) THEN offset + limit ELSE Len(hits)
    IN  [page |-> SubSeq(hits, offset + 1, last), total |-> Len(hits)]

-----------------------------------------------------------------------------
(* Properties *)

World == <<Min({p[1] : p \in Pos}), Max({p[1] : p \in Pos})>>

\* All devices, and all but one: enough for a match to be missing from a cluster,
\* to be missing its anchor, and to be alone.
Matches == {live} \union {live \ {d} : d \in live}

\* The markers drawn from a scan are those drawn from the aggregates, restricted
\* to what matches: under the same centers, with the counts of the matching
\* devices alone, and when everything matches with the sums of the map.
MarkersMatchMap(z, k) ==
    /\ LET g == Groups(Interned, z, live, k)
       IN  /\ DOMAIN g = {s \in listed[z] : ClusterAt(s, z, k).n > 0}
           /\ \A s \in DOMAIN g : g[s] = ClusterAt(s, z, k)
    /\ \A T \in Matches : \A m \in SelectClusters(World, Interned, z, T, k) :
          /\ m.anchor \in listed[z]
          /\ m.count = Cardinality(Members(m.anchor, z, k) \cap T)

\* The pages of a listing hold every match once, and every page tells their number.
PagesCoverMatches(T, k, limit) ==
    LET page(i) == ListDevices(World, Interned, T, k, limit, (i - 1) * limit)
        all     == FlattenSeq([i \in 1..Cardinality(Dev) |-> page(i).page])
        hits    == {d \in T : InCell(d, k)}
    IN  /\ IsInjective(all) /\ ToSet(all) = hits
        /\ \A i \in 1..Cardinality(Dev) : page(i).total = Cardinality(hits)

\* The three answers to one set of parameters cannot drift apart: the markers
\* match the map, a list of distinct ids draws what a predicate on those ids
\* would, and the listing holds, page by page, the devices behind the markers.
SelectionMatchesMap ==
    job = Idle =>
       \A k \in Key :
          /\ \A z \in Level : MarkersMatchMap(z, k)
          /\ \A z \in Level, T \in Matches :
                SelectClusters(World, SetToSeq(T), z, live, k)
                   = SelectClusters(World, Interned, z, T, k)
          /\ \A T \in Matches, limit \in 1..2 : PagesCoverMatches(T, k, limit)

=============================================================================
