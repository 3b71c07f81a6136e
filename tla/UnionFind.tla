------------------------------ MODULE UnionFind ------------------------------
(***************************************************************************)
(* The disjoint sets of src/liblwgeom/lwunionfind.c.  A UNIONFIND is a     *)
(* record of its arrays: clusters[i] is the parent of i, a root being its  *)
(* own parent; sizes[r] counts the elements of the set of root r, and num  *)
(* the sets.                                                               *)
(***************************************************************************)
EXTENDS Integers, FiniteSets

UF_create(E) == [clusters |-> [i \in E |-> i], sizes |-> [i \in E |-> 1],
                 num |-> Cardinality(E)]

\* The elements met from i up to the root of its set.
PathFrom(uf, i) ==
  LET n == Cardinality(DOMAIN uf.clusters)
      up[k \in 0..n] == IF k = 0 THEN i ELSE uf.clusters[up[k - 1]]
  IN  [k \in 0..n |-> up[k]]

\* What UF_find returns.
Found(uf, i) == PathFrom(uf, i)[Cardinality(DOMAIN uf.clusters)]

\* What UF_find leaves behind: the whole path points to the root.
UF_find(uf, i) ==
  LET path == PathFrom(uf, i)
  IN  [uf EXCEPT !.clusters = [k \in DOMAIN @ |->
         IF \E x \in DOMAIN path : path[x] = k THEN Found(uf, i) ELSE @[k]]]

\* Faulty variant of Absorb: the size of the set that goes away stays.
AbsorbKeepingSize(uf, a, b) ==
  [uf EXCEPT !.clusters[a] = b,
             !.sizes[b] = @ + uf.sizes[a],
             !.num = @ - 1]

\* The set of root a becomes part of that of root b.
Absorb(uf, a, b) ==
  [uf EXCEPT !.clusters[a] = b,
             !.sizes[b] = @ + uf.sizes[a], !.sizes[a] = 0,
             !.num = @ - 1]

\* Faulty variant of UF_union: the element is moved and not the root of its set.
UF_unionElement(uf, i, j) ==
  LET a == Found(uf, i)
      b == Found(uf, j)
      found == UF_find(UF_find(uf, i), j)
  IN  IF a = b THEN found
      ELSE [Absorb(found, a, b) EXCEPT !.clusters = [found.clusters EXCEPT ![i] = b]]

\* The smaller set becomes part of the larger; of two equal ones, that with the
\* larger root.
UF_union(uf, i, j) ==
  LET a == Found(uf, i)
      b == Found(uf, j)
      found == UF_find(UF_find(uf, i), j)
  IN  IF a = b THEN found
      ELSE IF uf.sizes[a] < uf.sizes[b] \/ (uf.sizes[a] = uf.sizes[b] /\ a > b)
           THEN Absorb(found, a, b)
           ELSE Absorb(found, b, a)

\* The elements in the order of their roots: the k-th is the one that k - 1 others
\* come before.  qsort leaves the elements of one set in any order; nothing that is
\* done with them depends on it.
UF_ordered_by_cluster(uf) ==
  LET E == DOMAIN uf.clusters
      Before(i) == {j \in E : \/ Found(uf, j) < Found(uf, i)
                             \/ (Found(uf, j) = Found(uf, i) /\ j < i)}
  IN  [k \in 1..Cardinality(E) |-> CHOOSE i \in E : Cardinality(Before(i)) = k - 1]

\* One turn of the walk over that order: current_new_id goes up whenever the root
\* changes, last_old_id is the root that was met last, -1 before any was.
Numbered(walk, root) ==
  [id |-> IF walk.last \in {-1, root} THEN walk.id ELSE walk.id + 1, last |-> root]

\* Faulty variant of UF_get_collapsed_cluster_ids: the sets outside the clusters
\* take numbers too.
UF_get_all_cluster_ids(uf, inCluster) ==
  LET n == Cardinality(DOMAIN uf.clusters)
      order == UF_ordered_by_cluster(uf)
      walk[k \in 0..n] == IF k = 0 THEN [id |-> 0, last |-> -1]
                          ELSE Numbered(walk[k - 1], Found(uf, order[k]))
  IN  [i \in inCluster |-> walk[CHOOSE k \in 1..n : order[k] = i].id]

\* The elements of inCluster numbered by set, in one walk that passes over the others.
UF_get_collapsed_cluster_ids(uf, inCluster) ==
  LET n == Cardinality(DOMAIN uf.clusters)
      order == UF_ordered_by_cluster(uf)
      walk[k \in 0..n] == IF k = 0 THEN [id |-> 0, last |-> -1]
                          ELSE IF order[k] \in inCluster THEN Numbered(walk[k - 1], Found(uf, order[k]))
                          ELSE walk[k - 1]
  IN  [i \in inCluster |-> walk[CHOOSE k \in 1..n : order[k] = i].id]

-----------------------------------------------------------------------------
\* The sets: that of an element, and all.
SetOf(uf, i) == LET r == Found(uf, i) IN {k \in DOMAIN uf.clusters : Found(uf, k) = r}
Sets(uf) == {SetOf(uf, i) : i \in {k \in DOMAIN uf.clusters : uf.clusters[k] = k}}
=============================================================================
