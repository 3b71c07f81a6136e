------------------------------- MODULE Clusters -------------------------------
(***************************************************************************)
(* One clustering of the geometries of a partition or an aggregate, by     *)
(* distance: union_dbscan of src/liblwgeom/lwgeom_geos_cluster.c, and what *)
(* ST_ClusterDBSCAN, ST_ClusterWithinWin and ST_ClusterWithin return.      *)
(* union_intersecting_pairs is union_dbscan_minpoints_1 with "intersects"  *)
(* for "within eps".                                                       *)
(*                                                                         *)
(* Of the coordinates the code asks two things: which geometries the       *)
(* STRtree finds around one (boxes), and which of them are within eps      *)
(* (near).  The tree returns them in an order of its own, so each step of  *)
(* the inner loop takes any candidate that is left.                        *)
(***************************************************************************)
EXTENDS UnionFind, Integers, Sequences, FiniteSets

CONSTANTS N,           \* how many geometries
          MinPoints    \* the values of min_points to try

ASSUME ClustersAssumption == N \in Nat \ {0} /\ MinPoints \subseteq Nat

Point == 0..N-1

VARIABLES near, boxes, empty, null, minPoints,   \* the input
          uf, inCluster, isCore,                 \* uf, in_a_cluster, is_in_core
          p, todo, held,                         \* p, items found and not yet seen, neighbors
          ids                                    \* the cluster id of each point, <<>> until done

input == <<near, boxes, empty, null, minPoints>>
vars == <<input, uf, inCluster, isCore, p, todo, held, ids>>

None == -1
Pairs(S) == {{i, j} : i, j \in S}

\* What may be near: everything is near itself, an empty geometry near nothing.
\* The tree may find what is not near.
Inputs ==
  /\ empty \in SUBSET Point
  /\ null \in SUBSET empty
  /\ near \in {Pairs({}) \cup {{i} : i \in Point \ empty} \cup e :
                 e \in SUBSET {x \in Pairs(Point \ empty) : Cardinality(x) = 2}}
  /\ boxes \in {near, Pairs(Point \ empty)}
  /\ minPoints \in MinPoints

\* What a query around point i finds.
Query(i) == {j \in Point : {i, j} \in boxes}

Init ==
  /\ Inputs
  /\ uf = UF_create(Point)
  /\ inCluster = IF minPoints <= 1 THEN Point ELSE {}
  /\ isCore = {}
  /\ p = -1
  /\ todo = {}
  /\ held = <<>>
  /\ ids = <<>>

\* union_dbscan_general gives up before it starts.
TooFew == minPoints > 1 /\ N < minPoints

\* The next geometry of the outer loop.
Advance ==
  /\ ~TooFew
  /\ todo = {} /\ p < N - 1
  /\ p' = p + 1
  /\ todo' = IF minPoints <= 1 \/ Cardinality(Query(p + 1)) >= minPoints
             THEN Query(p + 1) ELSE {}
  /\ held' = <<>>
  /\ UNCHANGED <<input, uf, inCluster, isCore, ids>>

\* union_dbscan_minpoints_1: geometries are united as soon as they are met.
UniteNear ==
  /\ minPoints <= 1
  /\ \E q \in todo :
       /\ todo' = todo \ {q}
       /\ uf' = LET found == UF_find(UF_find(uf, p), q) IN
                IF Found(uf, p) # Found(uf, q) /\ {p, q} \in near
                THEN UF_union(found, p, q) ELSE found
  /\ UNCHANGED <<input, inCluster, isCore, p, held, ids>>

\* Faulty variant of union_if_available: a border point of another cluster is united too.
unionAlways(st, q, core) ==
  [st EXCEPT !.uf = UF_union(@, p, q), !.inCluster = @ \cup {q}]

\* union_if_available, on the state st of the union-find and of in_a_cluster.
union_if_available(st, q, core) ==
  IF q \in st.inCluster
  THEN IF q \in core THEN [st EXCEPT !.uf = UF_union(@, p, q)] ELSE st
  ELSE [st EXCEPT !.uf = UF_union(@, p, q), !.inCluster = @ \cup {q}]

\* A candidate that can teach nothing: p is core already, and q in its cluster
\* or a border point of another.
Skipped(q) ==
  /\ Len(held) >= minPoints
  /\ Found(uf, p) = Found(uf, q) \/ (q \in inCluster /\ q \notin isCore)

\* The union-find after the test of Skipped.
Looked(q) == IF Len(held) >= minPoints THEN UF_find(UF_find(uf, p), q) ELSE uf

\* The neighbours set aside, united one after the other.
United(start, set, core) ==
  LET united[k \in 0..Len(set)] ==
        IF k = 0 THEN start ELSE union_if_available(united[k - 1], set[k], core)
  IN  united[Len(set)]

\* The core of the general loop: neighbours are set aside until there are enough
\* of them to make p a core point.
Neighbour(q) ==
  LET set == IF Len(held) < minPoints THEN Append(held, q) ELSE held
      full == Len(held) < minPoints /\ Len(set) = minPoints
      core == IF full THEN isCore \cup {p} ELSE isCore
      start == [uf |-> Looked(q), inCluster |-> IF full THEN inCluster \cup {p} ELSE inCluster]
      after == IF full THEN United(start, set, core)
               ELSE IF Len(held) < minPoints THEN start
               ELSE union_if_available(start, q, core)
  IN  /\ held' = set
      /\ isCore' = core
      /\ uf' = after.uf
      /\ inCluster' = after.inCluster

\* union_dbscan_general: one turn of the inner loop.
VisitCandidate ==
  /\ minPoints > 1
  /\ \E q \in todo :
       /\ todo' = todo \ {q}
       /\ IF ~Skipped(q) /\ {p, q} \in near
          THEN Neighbour(q)
          ELSE /\ uf' = Looked(q)
               /\ UNCHANGED <<inCluster, isCore, held>>
  /\ UNCHANGED <<input, p, ids>>

\* The ids handed out row by row: NULL for a NULL geometry and for noise.
Finish ==
  /\ ids = <<>>
  /\ TooFew \/ (todo = {} /\ p = N - 1)
  /\ LET collapsed == UF_get_collapsed_cluster_ids(uf, inCluster)
     IN  ids' = [i \in Point |-> IF i \in inCluster \ null THEN collapsed[i] ELSE None]
  /\ UNCHANGED <<input, uf, inCluster, isCore, p, todo, held>>

Next == Advance \/ UniteNear \/ VisitCandidate \/ Finish

Spec == Init /\ [][Next]_vars

-----------------------------------------------------------------------------
(* The definition of the clusters, from the input alone.                   *)

Neighbours(i) == {j \in Point : {i, j} \in near}
Core == {i \in Point \ empty : Cardinality(Neighbours(i)) >= minPoints}

\* The points of S reached from i by steps from near to near within S.
Connected(S, i) ==
  LET reach[k \in 0..N] ==
        IF k = 0 THEN {i}
        ELSE LET r == reach[k - 1] IN r \cup {j \in S : \E x \in r : {x, j} \in near}
  IN  reach[N]

Done == ids # <<>>

-----------------------------------------------------------------------------
(* Properties.                                                             *)

TypeOK ==
  /\ uf \in [clusters : [Point -> Point], sizes : [Point -> 0..N], num : 1..N]
  /\ inCluster \subseteq Point
  /\ isCore \subseteq inCluster
  /\ p \in -1..N-1
  /\ todo \subseteq Point
  /\ held \in Seq(Point) /\ Len(held) <= N
  /\ ids = <<>> \/ ids \in [Point -> None..N-1]

\* Between any two steps the arrays of the union-find describe one partition:
\* following parents ends, sizes counts each set at its root and nowhere else,
\* num_clusters counts the sets.  combine_geometries allocates one collection per
\* counted set and fails when it meets one more.
PartitionCounted ==
  LET roots == {i \in Point : uf.clusters[i] = i}
  IN  /\ \A i \in Point : Found(uf, i) \in roots
      /\ \A i \in Point : uf.sizes[i] = IF i \in roots THEN Cardinality(SetOf(uf, i)) ELSE 0
      /\ uf.num = Cardinality(roots)

\* Core points have the same id exactly when a chain of core points, each within
\* eps of the next, joins them: neither the order in which the tree returns
\* geometries nor the distances that are not computed change the clusters.
CoresJoinedByChains ==
  Done => LET core == Core
          IN  \A i \in core \ null :
                Connected(core, i) \ null = {j \in core \ null : ids[i] = ids[j]}

\* A border point has the id of a core point within eps of it, and only noise, far
\* from every core point, has none.
BordersBesideACore ==
  Done => \A i \in Point \ (Core \cup empty) :
            LET beside == Neighbours(i) \cap Core
            IN  IF beside = {} THEN ids[i] = None
                ELSE \E c \in beside : ids[i] = ids[c]

\* The result of DBSCAN (union_dbscan_general): clusters are the chains of core points
\* with the border points beside them.
ClustersAreDensityConnected == CoresJoinedByChains /\ BordersBesideACore

\* The ids are those of the sets of the union-find, one each, numbered from 0; only
\* NULL geometries leave gaps.
IdsCountTheSets ==
  Done => LET sets == {SetOf(uf, i) : i \in inCluster}
              used == {ids[i] : i \in inCluster \ null}
          IN  /\ used \subseteq 0..Cardinality(sets) - 1
              /\ null = {} => used = 0..Cardinality(sets) - 1
              /\ \A i, j \in inCluster \ null : ids[i] = ids[j] <=> Found(uf, i) = Found(uf, j)

\* A cluster never loses a point it was given, to another cluster or to noise.
ClustersOnlyGrow ==
  [][\A S \in Sets(uf) : \E T \in Sets(uf') : S \subseteq T]_vars
=============================================================================
