--------------------------- MODULE ClustersProofs ---------------------------
(***************************************************************************)
(* That the union-find keeps one partition, whatever is united in which    *)
(* order, that clusters only grow, and that the clusters of DBSCAN are     *)
(* those of its definition, for any number of geometries.                  *)
(***************************************************************************)
EXTENDS Clusters, Integers, FiniteSets, FiniteSetTheorems, TLAPS

\* The numbers less than others are well founded.
LEMMA LessWellFounded == IsWellFoundedOn({ss \in Nat \X Nat : ss[1] < ss[2]}, Nat)
BY NatLessThanWellFounded DEF OpToRel

\* A set of numbers has a least one.
LEMMA Least ==
  ASSUME NEW S, S \subseteq Nat, S # {}
  PROVE  \E m \in S : \A k \in S : m <= k
<1> DEFINE R == {ss \in Nat \X Nat : ss[1] < ss[2]}
<1>1. IsWellFoundedOn(R, Nat)
  BY LessWellFounded
<1> HIDE DEF R
<1>2. PICK m \in S : \A k \in S : ~(<<k, m>> \in R)
  BY <1>1, WFMin
<1>3. ASSUME NEW k \in S PROVE m <= k
  <2>1. <<k, m>> \in Nat \X Nat
    OBVIOUS
  <2>2. ~(k < m)
    BY <1>2, <2>1 DEF R
  <2> QED BY <2>2
<1> QED BY <1>3

\* A set that has 0, and with a number below n the next one, has all up to n.
LEMMA UpTo ==
  ASSUME NEW n \in Nat, NEW S, 0 \in S, \A k \in 0..n : k < n /\ k \in S => k + 1 \in S
  PROVE  0..n \subseteq S
<1> SUFFICES ASSUME (0..n) \ S # {} PROVE FALSE
  OBVIOUS
<1> DEFINE L == (0..n) \ S
<1>0. L \subseteq Nat /\ L # {}
  OBVIOUS
<1>1. PICK m \in L : \A k \in L : m <= k
  <2> HIDE DEF L
  <2> QED BY <1>0, Least
<1>2. m - 1 \in 0..n /\ m - 1 < n /\ m - 1 \in S
  BY <1>1
<1>3. (m - 1) + 1 \in S
  BY <1>2
<1> QED BY <1>1, <1>3

\* f has the value base and then, at each number up to n, G of the value before.
Iterates(f, n, base, G) == f[0] = base /\ \A k \in 1..n : f[k] = G[<<f[k - 1], k>>]

\* Every function of a value and a number can be iterated.
LEMMA Recursion ==
  ASSUME NEW n \in Nat, NEW X, NEW base \in X, NEW G \in [X \X (1..n) -> X]
  PROVE  \E f \in [0..n -> X] : Iterates(f, n, base, G)
<1> DEFINE Runs(f, m) == f[0] = base /\ \A k \in 1..m : f[k] = G[<<f[k - 1], k>>]
<1> DEFINE S == {m \in 0..n : \E f \in [0..m -> X] : Runs(f, m)}
<1>1. 0 \in S
  <2> DEFINE f == [k \in 0..0 |-> base]
  <2>1. f \in [0..0 -> X] /\ Runs(f, 0)
    OBVIOUS
  <2>2. \E h \in [0..0 -> X] : Runs(h, 0)
    BY <2>1
  <2> QED BY <2>2
<1>2. ASSUME NEW m \in 0..n, m < n, m \in S PROVE m + 1 \in S
  <2>1. PICK f \in [0..m -> X] : Runs(f, m)
    BY <1>2
  <2> DEFINE v == G[<<f[m], m + 1>>]
  <2> DEFINE g == [k \in 0..m+1 |-> IF k = m + 1 THEN v ELSE f[k]]
  <2>2. <<f[m], m + 1>> \in X \X (1..n) /\ v \in X
    BY <1>2
  <2> HIDE DEF v
  <2>3. g \in [0..m+1 -> X]
    BY <2>2
  <2>4. ASSUME NEW k \in 1..m+1 PROVE g[k] = G[<<g[k - 1], k>>]
    <3>1. CASE k = m + 1
      <4>1. g[k] = v /\ g[k - 1] = f[m]
        BY <3>1
      <4> QED BY <3>1, <4>1 DEF v
    <3>2. CASE k # m + 1
      <4>1. k \in 1..m /\ k - 1 \in 0..m
        BY <3>2
      <4>2. g[k] = f[k] /\ g[k - 1] = f[k - 1]
        BY <4>1
      <4> QED BY <4>1, <4>2, <2>1
    <3> QED BY <3>1, <3>2
  <2>5. Runs(g, m + 1)
    <3>1. g[0] = base
      BY <2>1
    <3> QED BY <3>1, <2>4
  <2>6. \E h \in [0..m+1 -> X] : Runs(h, m + 1)
    BY <2>3, <2>5
  <2>7. m + 1 \in 0..n
    BY <1>2
  <2> QED BY <2>6, <2>7
<1>3. 0..n \subseteq S
  <2> HIDE DEF S
  <2> QED BY <1>1, <1>2, UpTo
<1>4. n \in S
  BY <1>3
<1> QED BY <1>4 DEF Iterates

-----------------------------------------------------------------------------
(* The union-find: following parents.                                          *)

\* Parents without circles: something goes down on every step to a parent.
Downhill(c, E, d) == \A i \in E : c[i] # i => d[c[i]] < d[i]
Forest(c, E) == \E d \in [E -> Nat] : Downhill(c, E, d)

\* The arrays, over the elements E.
Arrays(E) == [clusters : [E -> E], sizes : [E -> Nat], num : Nat]
Trees(E) == {u \in Arrays(E) : Forest(u.clusters, E)}

\* The path from i is the parent of the parent, and so on.
LEMMA PathForm ==
  ASSUME NEW E, IsFiniteSet(E), NEW u \in Arrays(E), NEW i \in E, NEW n, n = Cardinality(E)
  PROVE  /\ n \in Nat
         /\ PathFrom(u, i) \in [0..n -> E] /\ PathFrom(u, i)[0] = i
         /\ \A k \in 1..n : PathFrom(u, i)[k] = u.clusters[PathFrom(u, i)[k - 1]]
         /\ Found(u, i) = PathFrom(u, i)[n]
<1> DEFINE c == u.clusters
           G == [x \in E \X (1..n) |-> c[x[1]]]
<1>1. n \in Nat /\ c \in [E -> E] /\ DOMAIN c = E
  BY FS_CardinalityType DEF Arrays
<1> HIDE DEF c
<1>2. PICK f \in [0..n -> E] : Iterates(f, n, i, G)
  <2>1. G \in [E \X (1..n) -> E]
    BY <1>1
  <2> HIDE DEF G
  <2> QED BY <1>1, <2>1, Recursion
<1>3. f = [k \in 0..n |-> IF k = 0 THEN i ELSE c[f[k - 1]]]
  <2>1. ASSUME NEW k \in 1..n PROVE f[k] = c[f[k - 1]]
    <3>1. k - 1 \in 0..n /\ f[k - 1] \in E
      BY <1>1
    <3> QED BY <1>2, <3>1 DEF Iterates
  <2> QED BY <1>1, <1>2, <2>1 DEF Iterates
<1> DEFINE up == CHOOSE g : g = [k \in 0..n |-> IF k = 0 THEN i ELSE c[g[k - 1]]]
<1>4. up = [k \in 0..n |-> IF k = 0 THEN i ELSE c[up[k - 1]]]
  BY <1>3, Zenon
<1>5. PathFrom(u, i) = [k \in 0..n |-> up[k]]
  BY <1>1 DEF PathFrom, c
<1> HIDE DEF up
<1> DEFINE path == [k \in 0..n |-> up[k]]
           S == {k \in 0..n : path[k] \in E}
<1>6. path[0] = i /\ \A k \in 1..n : path[k] = c[path[k - 1]]
  BY <1>1, <1>4
<1>7. 0 \in S
  BY <1>1, <1>6
<1>8. ASSUME NEW k \in 0..n, k < n, k \in S PROVE k + 1 \in S
  <2>1. k + 1 \in 1..n /\ (k + 1) - 1 = k
    BY <1>1, <1>8
  <2> HIDE DEF path
  <2>2. path[k + 1] = c[path[k]]
    BY <1>6, <2>1
  <2> QED BY <1>1, <1>8, <2>1, <2>2
<1>9. 0..n \subseteq S
  <2> HIDE DEF S
  <2> QED BY <1>1, <1>7, <1>8, UpTo
<1>10. path \in [0..n -> E]
  BY <1>9
<1>11. Found(u, i) = PathFrom(u, i)[n]
  BY <1>1 DEF Found, c
<1> HIDE DEF path
<1> QED BY <1>1, <1>5, <1>6, <1>10, <1>11 DEF c, path

\* Where the parents lead: no higher, to the same place from all the way.
LEMMA PathDown ==
  ASSUME NEW E, IsFiniteSet(E), NEW u \in Arrays(E), NEW i \in E, NEW n, n = Cardinality(E),
         NEW d \in [E -> Nat], Downhill(u.clusters, E, d), NEW k \in 0..n
  PROVE  PathFrom(u, i)[k] = i \/ d[PathFrom(u, i)[k]] < d[i]
<1> DEFINE path == PathFrom(u, i)
           S == {m \in 0..n : path[m] = i \/ d[path[m]] < d[i]}
           c == u.clusters
<1>1. /\ n \in Nat /\ path \in [0..n -> E] /\ path[0] = i
      /\ \A m \in 1..n : path[m] = c[path[m - 1]]
  BY PathForm
<1>2. \A j \in E : c[j] # j => d[c[j]] < d[j]
  BY DEF Downhill
<1>3. c \in [E -> E]
  BY DEF Arrays
<1> HIDE DEF path, c
<1>4. 0 \in S
  BY <1>1
<1>5. ASSUME NEW m \in 0..n, m < n, m \in S PROVE m + 1 \in S
  <2>1. path[m + 1] = c[path[m]] /\ path[m] \in E /\ path[m + 1] \in E /\ m + 1 \in 0..n
    BY <1>1, <1>5
  <2>2. d[path[m]] \in Nat /\ d[path[m + 1]] \in Nat /\ d[i] \in Nat
    BY <2>1
  <2> QED BY <1>2, <1>5, <2>1, <2>2
<1>6. 0..n \subseteq S
  <2> HIDE DEF S
  <2> QED BY <1>1, <1>4, <1>5, UpTo
<1> QED BY <1>6 DEF path

\* Once the path is at a root it stays there.
LEMMA PathStays ==
  ASSUME NEW E, IsFiniteSet(E), NEW u \in Arrays(E), NEW i \in E, NEW n, n = Cardinality(E),
         NEW k \in 0..n, u.clusters[PathFrom(u, i)[k]] = PathFrom(u, i)[k]
  PROVE  Found(u, i) = PathFrom(u, i)[k]
<1> DEFINE path == PathFrom(u, i)
           S == {m \in 0..n : m >= k => path[m] = path[k]}
           c == u.clusters
<1>1. /\ n \in Nat /\ path \in [0..n -> E] /\ path[0] = i /\ Found(u, i) = path[n]
      /\ \A m \in 1..n : path[m] = c[path[m - 1]]
  BY PathForm
<1> HIDE DEF path, c
<1>2. c[path[k]] = path[k]
  BY DEF path, c
<1>3. 0 \in S
  BY <1>1
<1>4. ASSUME NEW m \in 0..n, m < n, m \in S PROVE m + 1 \in S
  <2>1. path[m + 1] = c[path[m]] /\ m + 1 \in 0..n
    BY <1>1, <1>4
  <2>2. CASE m >= k
    BY <1>2, <1>4, <2>1, <2>2
  <2>3. CASE m < k
    BY <2>1, <2>3
  <2> QED BY <2>2, <2>3
<1>5. 0..n \subseteq S
  <2> HIDE DEF S
  <2> QED BY <1>1, <1>3, <1>4, UpTo
<1>6. n \in S
  BY <1>1, <1>5
<1> QED BY <1>1, <1>6 DEF path

\* Following parents ends at a root: among as many steps as there are elements, and one
\* more, some element would come twice.
LEMMA FoundRoot ==
  ASSUME NEW E, IsFiniteSet(E), NEW u \in Trees(E), NEW i \in E
  PROVE  Found(u, i) \in E /\ u.clusters[Found(u, i)] = Found(u, i)
<1> DEFINE n == Cardinality(E)
           path == PathFrom(u, i)
           c == u.clusters
<1>0. u \in Arrays(E) /\ Forest(c, E)
  BY DEF Trees
<1>1. /\ n \in Nat /\ path \in [0..n -> E] /\ path[0] = i /\ Found(u, i) = path[n]
      /\ \A m \in 1..n : path[m] = c[path[m - 1]]
  BY <1>0, PathForm
<1>2. PICK d \in [E -> Nat] : \A j \in E : c[j] # j => d[c[j]] < d[j]
  BY <1>0 DEF Forest, Downhill
<1>3. PICK x \in 0..n, y \in 0..n : x < y /\ path[x] = path[y]
  <2>1. IsFiniteSet(0..n) /\ Cardinality(0..n) = n + 1
    BY <1>1, FS_Interval
  <2>2. Cardinality(E) < Cardinality(0..n)
    BY <1>1, <2>1
  <2>3. \E x, y \in 0..n : x # y /\ path[x] = path[y]
    <3> HIDE DEF path, n
    <3> QED BY <1>1, <2>1, <2>2, FS_PigeonHole
  <2>4. PICK x, y \in 0..n : x # y /\ path[x] = path[y]
    BY <2>3
  <2>5. x < y \/ y < x
    BY <1>1, <2>4
  <2> QED BY <2>4, <2>5
<1> HIDE DEF path, c, n
<1>4. c[path[x]] = path[x]
  <2> SUFFICES ASSUME c[path[x]] # path[x]
               PROVE  FALSE
    OBVIOUS
  <2> DEFINE S == {m \in 0..n : m > x => d[path[m]] < d[path[x]]}
  <2>1. 0 \in S
    BY <1>1
  <2>2. ASSUME NEW m \in 0..n, m < n, m \in S PROVE m + 1 \in S
    <3>1. path[m + 1] = c[path[m]] /\ path[m] \in E /\ path[m + 1] \in E /\ m + 1 \in 0..n /\ path[x] \in E
      BY <1>1, <2>2
    <3>2. d[path[m]] \in Nat /\ d[path[m + 1]] \in Nat /\ d[path[x]] \in Nat
      BY <3>1
    <3>3. path[m + 1] = path[m] \/ d[path[m + 1]] < d[path[m]]
      BY <1>2, <3>1
    <3>4. CASE m > x
      BY <2>2, <3>1, <3>2, <3>3, <3>4
    <3>5. CASE m = x
      BY <1>2, <3>1, <3>5
    <3>6. CASE m < x
      BY <3>1, <3>6
    <3> QED BY <3>4, <3>5, <3>6
  <2>3. 0..n \subseteq S
    <3> HIDE DEF S
    <3> QED BY <1>1, <2>1, <2>2, UpTo
  <2>4. d[path[y]] < d[path[x]] /\ d[path[x]] \in Nat
    BY <1>1, <1>3, <2>3
  <2> QED BY <1>3, <2>4
<1>5. Found(u, i) = path[x]
  BY <1>0, <1>4, PathStays DEF path, c, n
<1> QED BY <1>1, <1>4, <1>5 DEF c

\* A root is found from itself.
LEMMA FoundOfRoot ==
  ASSUME NEW E, IsFiniteSet(E), NEW u \in Arrays(E), NEW i \in E, u.clusters[i] = i
  PROVE  Found(u, i) = i
<1>1. Cardinality(E) \in Nat /\ PathFrom(u, i)[0] = i
  BY PathForm
<1> QED BY <1>1, PathStays

\* What is constant along the parents is the same at the root.
LEMMA AlongPath ==
  ASSUME NEW E, IsFiniteSet(E), NEW u \in Arrays(E), NEW i \in E, NEW r,
         \A j \in E : r[u.clusters[j]] = r[j], NEW k \in 0..Cardinality(E)
  PROVE  r[PathFrom(u, i)[k]] = r[i]
<1> DEFINE n == Cardinality(E)
           path == PathFrom(u, i)
           S == {m \in 0..n : r[path[m]] = r[i]}
<1>1. /\ n \in Nat /\ path \in [0..n -> E] /\ path[0] = i
      /\ \A m \in 1..n : path[m] = u.clusters[path[m - 1]]
  BY PathForm
<1> HIDE DEF path, n
<1>2. 0 \in S
  BY <1>1
<1>3. ASSUME NEW m \in 0..n, m < n, m \in S PROVE m + 1 \in S
  <2>1. path[m + 1] = u.clusters[path[m]] /\ path[m] \in E /\ m + 1 \in 0..n
    BY <1>1, <1>3
  <2> QED BY <1>3, <2>1
<1>4. 0..n \subseteq S
  <2> HIDE DEF S
  <2> QED BY <1>1, <1>2, <1>3, UpTo
<1> QED BY <1>4 DEF path, n

\* What is constant along the parents, and names the roots, names the root that is found.
LEMMA FoundUnique ==
  ASSUME NEW E, IsFiniteSet(E), NEW u \in Trees(E), NEW r,
         \A j \in E : r[u.clusters[j]] = r[j],
         \A j \in E : u.clusters[j] = j => r[j] = j
  PROVE  \A i \in E : Found(u, i) = r[i]
<1> SUFFICES ASSUME NEW i \in E
             PROVE  Found(u, i) = r[i]
  OBVIOUS
<1>0. u \in Arrays(E)
  BY DEF Trees
<1>1. Cardinality(E) \in Nat /\ Found(u, i) = PathFrom(u, i)[Cardinality(E)]
  BY <1>0, PathForm
<1>2. r[Found(u, i)] = r[i]
  BY <1>0, <1>1, AlongPath
<1>3. Found(u, i) \in E /\ u.clusters[Found(u, i)] = Found(u, i)
  BY FoundRoot
<1> QED BY <1>2, <1>3

\* The root of a parent is the root.
LEMMA FoundOfParent ==
  ASSUME NEW E, IsFiniteSet(E), NEW u \in Trees(E), NEW i \in E
  PROVE  Found(u, u.clusters[i]) = Found(u, i)
<1> DEFINE n == Cardinality(E)
           c == u.clusters
           j == c[i]
           path == PathFrom(u, i)
           rest == PathFrom(u, j)
<1>0. u \in Arrays(E) /\ j \in E
  BY DEF Trees, Arrays
<1>1. /\ n \in Nat /\ path \in [0..n -> E] /\ path[0] = i /\ Found(u, i) = path[n]
      /\ \A m \in 1..n : path[m] = c[path[m - 1]]
  BY <1>0, PathForm
<1>2. /\ rest \in [0..n -> E] /\ rest[0] = j
      /\ \A m \in 1..n : rest[m] = c[rest[m - 1]]
  <2> HIDE DEF j
  <2> QED BY <1>0, PathForm
<1>3. n > 0
  <2>1. E # {}
    OBVIOUS
  <2> QED BY <1>1, <2>1, FS_EmptySet
<1>4. c[path[n]] = path[n]
  BY <1>1, FoundRoot
<1> HIDE DEF path, rest, n
<1> DEFINE S == {m \in 0..n-1 : rest[m] = path[m + 1]}
<1>5. 0 \in S
  <2>1. path[1] = c[path[0]]
    BY <1>1, <1>3
  <2> QED BY <1>1, <1>2, <1>3, <2>1
<1>6. ASSUME NEW m \in 0..n-1, m < n-1, m \in S PROVE m + 1 \in S
  <2>1. rest[m + 1] = c[rest[m]] /\ path[(m + 1) + 1] = c[path[m + 1]] /\ m + 1 \in 0..n-1
    BY <1>1, <1>2, <1>6
  <2> QED BY <1>6, <2>1
<1>7. n - 1 \in Nat
  BY <1>1, <1>3
<1>8. 0..n-1 \subseteq S
  <2> HIDE DEF S
  <2> QED BY <1>5, <1>6, <1>7, UpTo
<1>9. rest[n - 1] = path[n] /\ n - 1 \in 0..n
  <2>1. n - 1 \in S /\ (n - 1) + 1 = n
    BY <1>1, <1>7, <1>8
  <2> QED BY <1>1, <1>7, <2>1
<1>10. Found(u, j) = rest[n - 1]
  <2>1. u.clusters[rest[n - 1]] = rest[n - 1]
    BY <1>4, <1>9
  <2> HIDE DEF j
  <2> QED BY <1>0, <1>9, <2>1, PathStays DEF rest, n
<1> QED BY <1>1, <1>9, <1>10

\* An element is a root when it is found from itself.
LEMMA RootIsFound ==
  ASSUME NEW E, IsFiniteSet(E), NEW u \in Trees(E), NEW i \in E
  PROVE  u.clusters[i] = i <=> Found(u, i) = i
BY FoundRoot, FoundOfRoot DEF Trees

\* The elements on a path have one root.
LEMMA FoundOnPath ==
  ASSUME NEW E, IsFiniteSet(E), NEW u \in Trees(E), NEW i \in E, NEW k \in 0..Cardinality(E)
  PROVE  Found(u, PathFrom(u, i)[k]) = Found(u, i)
<1> DEFINE r == [j \in E |-> Found(u, j)]
<1>1. u \in Arrays(E) /\ Cardinality(E) \in Nat /\ PathFrom(u, i)[k] \in E
  BY PathForm DEF Trees
<1>2. \A j \in E : u.clusters[j] \in E /\ Found(u, u.clusters[j]) = Found(u, j)
  BY <1>1, FoundOfParent DEF Arrays
<1>3. \A j \in E : r[u.clusters[j]] = r[j]
  BY <1>2
<1>4. r[PathFrom(u, i)[k]] = r[i]
  <2> HIDE DEF r
  <2> QED BY <1>1, <1>3, AlongPath
<1> QED BY <1>1, <1>4

\* The union-find w has the sets of u.
Same(E, u, w) == /\ w \in Trees(E) /\ w.sizes = u.sizes /\ w.num = u.num
                 /\ \A i \in E : Found(w, i) = Found(u, i)

\* With some elements put right under their roots the sets are the same.
LEMMA CompressKeeps ==
  ASSUME NEW E, IsFiniteSet(E), NEW u \in Trees(E), NEW w \in Arrays(E), NEW c, c = w.clusters,
         \A k \in E : c[k] \in {u.clusters[k], Found(u, k)}, w.sizes = u.sizes, w.num = u.num
  PROVE  Same(E, u, w)
<1>0. u \in Arrays(E) /\ c \in [E -> E]
  BY DEF Trees, Arrays
<1>1. PICK d \in [E -> Nat] : Downhill(u.clusters, E, d)
  BY DEF Trees, Forest
<1>2. ASSUME NEW k \in E PROVE c[k] = k \/ d[c[k]] < d[k]
  <2>1. u.clusters[k] = k \/ d[u.clusters[k]] < d[k]
    BY <1>1 DEF Downhill
  <2>2. Found(u, k) = k \/ d[Found(u, k)] < d[k]
    <3>1. Cardinality(E) \in Nat /\ Found(u, k) = PathFrom(u, k)[Cardinality(E)]
      BY <1>0, PathForm
    <3> QED BY <1>0, <1>1, <3>1, PathDown
  <2> QED BY <2>1, <2>2
<1>3. w \in Trees(E)
  BY <1>0, <1>2 DEF Trees, Forest, Downhill
<1> DEFINE r == [j \in E |-> Found(u, j)]
<1>4. ASSUME NEW j \in E PROVE r[c[j]] = r[j]
  <2>1. Found(u, u.clusters[j]) = Found(u, j)
    BY FoundOfParent
  <2>2. Found(u, Found(u, j)) = Found(u, j)
    BY <1>0, FoundRoot, FoundOfRoot
  <2>3. c[j] \in E
    BY <1>0
  <2> QED BY <2>1, <2>2, <2>3
<1>5. ASSUME NEW j \in E, c[j] = j PROVE r[j] = j
  <2>1. u.clusters[j] = j \/ Found(u, j) = j
    BY <1>5
  <2> QED BY <2>1, RootIsFound
<1>6. \A j \in E : Found(w, j) = r[j]
  <2> HIDE DEF r
  <2>1. /\ \A j \in E : r[w.clusters[j]] = r[j]
        /\ \A j \in E : w.clusters[j] = j => r[j] = j
    BY <1>0, <1>4, <1>5
  <2> QED BY <1>3, <2>1, FoundUnique
<1> QED BY <1>0, <1>3, <1>6 DEF Same

\* UF_find changes no set.
LEMMA FindKeeps ==
  ASSUME NEW E, IsFiniteSet(E), NEW u \in Trees(E), NEW i \in E
  PROVE  Same(E, u, UF_find(u, i))
<1> DEFINE path == PathFrom(u, i)
           c == [k \in E |-> IF \E x \in DOMAIN path : path[x] = k THEN Found(u, i) ELSE u.clusters[k]]
           n == Cardinality(E)
<1>0. u \in Arrays(E) /\ u.clusters \in [E -> E] /\ DOMAIN u.clusters = E
  BY DEF Trees, Arrays
<1>1. n \in Nat /\ path \in [0..n -> E] /\ DOMAIN path = 0..n
  BY <1>0, PathForm
<1>2. UF_find(u, i) = [u EXCEPT !.clusters = c]
  BY <1>0 DEF UF_find
<1> HIDE DEF path
<1>3. c \in [E -> E]
  BY <1>0, FoundRoot
<1>4. ASSUME NEW k \in E PROVE c[k] \in {u.clusters[k], Found(u, k)}
  <2>1. CASE \E x \in DOMAIN path : path[x] = k
    <3>1. PICK x \in 0..n : path[x] = k
      BY <1>1, <2>1
    <3>2. Found(u, k) = Found(u, i)
      BY <3>1, FoundOnPath DEF path
    <3> QED BY <2>1, <3>2
  <2> QED BY <2>1
<1> DEFINE w == [u EXCEPT !.clusters = c]
<1> HIDE DEF c
<1>5. w \in Arrays(E) /\ w.clusters = c /\ w.sizes = u.sizes /\ w.num = u.num
  BY <1>0, <1>3 DEF Arrays
<1> HIDE DEF w
<1>6. Same(E, u, w)
  BY <1>4, <1>5, CompressKeeps
<1> QED BY <1>2, <1>6 DEF w

-----------------------------------------------------------------------------
(* The union-find: sizes, and the number of sets.                              *)

Members(E, u, r) == {k \in E : Found(u, k) = r}
Roots(E, u) == {i \in E : Found(u, i) = i}

\* Sizes count the sets at their roots, num the roots.
Counted(E, u) ==
  /\ \A i \in E : u.sizes[i] = IF i \in Roots(E, u) THEN Cardinality(Members(E, u, i)) ELSE 0
  /\ u.num = Cardinality(Roots(E, u))
Partition(E, u) == u \in Trees(E) /\ Counted(E, u)

\* The new arrays are a partition of single elements.
LEMMA CreatePartition ==
  ASSUME NEW E, IsFiniteSet(E)
  PROVE  /\ Partition(E, UF_create(E))
         /\ \A i \in E : Found(UF_create(E), i) = i
<1> DEFINE u == UF_create(E)
<1>1. /\ u \in Arrays(E)
      /\ \A i \in E : u.clusters[i] = i /\ u.sizes[i] = 1
      /\ u.num = Cardinality(E)
  BY FS_CardinalityType DEF UF_create, Arrays
<1> HIDE DEF u
<1>2. u \in Trees(E)
  <2> DEFINE d == [i \in E |-> 0]
  <2>1. d \in [E -> Nat] /\ Downhill(u.clusters, E, d)
    BY <1>1 DEF Downhill
  <2> QED BY <1>1, <2>1 DEF Trees, Forest
<1>3. \A i \in E : Found(u, i) = i
  BY <1>1, FoundOfRoot
<1>4. Roots(E, u) = E /\ \A i \in E : Members(E, u, i) = {i}
  BY <1>3 DEF Roots, Members
<1>5. Counted(E, u)
  BY <1>1, <1>4, FS_Singleton DEF Counted
<1> QED BY <1>2, <1>3, <1>5 DEF Partition, u

\* Arrays with the same sets are as well counted.
LEMMA SamePartition ==
  ASSUME NEW E, NEW u, Partition(E, u), NEW w, Same(E, u, w)
  PROVE  Partition(E, w)
<1>1. Roots(E, w) = Roots(E, u) /\ \A i \in E : Members(E, w, i) = Members(E, u, i)
  BY DEF Same, Roots, Members
<1> QED BY <1>1 DEF Same, Partition, Counted

\* A root put under another: its set becomes part of that one's, and is counted there.
LEMMA AbsorbKeeps ==
  ASSUME NEW E, IsFiniteSet(E), NEW u, Partition(E, u), NEW a \in Roots(E, u), NEW b \in Roots(E, u), a # b
  PROVE  /\ Partition(E, Absorb(u, a, b))
         /\ \A k \in E : Found(Absorb(u, a, b), k) = IF Found(u, k) = a THEN b ELSE Found(u, k)
<1> DEFINE w == Absorb(u, a, b)
           c == u.clusters
<1>0. /\ u \in Trees(E) /\ u \in Arrays(E) /\ c \in [E -> E] /\ u.sizes \in [E -> Nat] /\ u.num \in Nat
      /\ a \in E /\ b \in E /\ Found(u, a) = a /\ Found(u, b) = b
  BY DEF Partition, Trees, Arrays, Roots
<1>1. IsFiniteSet(Roots(E, u)) /\ u.num = Cardinality(Roots(E, u))
  <2>1. Roots(E, u) \in SUBSET E
    BY DEF Roots
  <2> QED BY <2>1, FS_Subset DEF Partition, Counted
<1>2. u.num >= 1
  BY <1>0, <1>1, FS_EmptySet
<1>3. /\ w \in Arrays(E) /\ w.clusters = [c EXCEPT ![a] = b] /\ w.num = u.num - 1
      /\ w.sizes[b] = u.sizes[b] + u.sizes[a] /\ w.sizes[a] = 0
      /\ \A i \in E \ {a, b} : w.sizes[i] = u.sizes[i]
  <2> DEFINE cc == [c EXCEPT ![a] = b]
             ss == [u.sizes EXCEPT ![b] = u.sizes[b] + u.sizes[a], ![a] = 0]
             nn == u.num - 1
  <2>1. /\ cc \in [E -> E] /\ ss \in [E -> Nat] /\ nn \in Nat
        /\ ss[b] = u.sizes[b] + u.sizes[a] /\ ss[a] = 0
        /\ \A i \in E \ {a, b} : ss[i] = u.sizes[i]
    BY <1>0, <1>2
  <2>2. w = [u EXCEPT !.clusters = cc, !.sizes = ss, !.num = nn]
    BY DEF Absorb
  <2> HIDE DEF cc, ss, nn
  <2>3. w \in Arrays(E) /\ w.clusters = cc /\ w.sizes = ss /\ w.num = nn
    BY <1>0, <2>1, <2>2 DEF Arrays
  <2> QED BY <2>1, <2>3 DEF cc, nn
<1> HIDE DEF w, c
<1>4. c[a] = a /\ c[b] = b
  BY <1>0, RootIsFound DEF c
<1> DEFINE r == [k \in E |-> IF Found(u, k) = a THEN b ELSE Found(u, k)]
<1>5. \A k \in E : Found(u, c[k]) = Found(u, k) /\ c[k] \in E /\ Found(u, k) \in E
  BY <1>0, FoundOfParent, FoundRoot DEF c
<1>6. w \in Trees(E)
  <2>1. PICK d \in [E -> Nat] : \A k \in E : c[k] # k => d[c[k]] < d[k]
    BY <1>0 DEF Trees, Forest, Downhill, c
  <2> DEFINE dd == [k \in E |-> IF Found(u, k) = a THEN d[k] + d[b] + 1 ELSE d[k]]
  <2>2. dd \in [E -> Nat]
    BY <1>0
  <2>3. ASSUME NEW k \in E, w.clusters[k] # k PROVE dd[w.clusters[k]] < dd[k]
    <3>1. CASE k = a
      <4>1. w.clusters[k] = b
        BY <1>0, <1>3, <3>1
      <4>2. dd[b] = d[b] /\ dd[a] = d[a] + d[b] + 1 /\ d[a] \in Nat /\ d[b] \in Nat
        BY <1>0
      <4> QED BY <3>1, <4>1, <4>2
    <3>2. CASE k # a
      <4>1. w.clusters[k] = c[k] /\ c[k] # k /\ c[k] \in E /\ Found(u, c[k]) = Found(u, k)
        BY <1>0, <1>3, <1>5, <2>3, <3>2
      <4>2. d[c[k]] < d[k] /\ d[c[k]] \in Nat /\ d[k] \in Nat /\ d[b] \in Nat
        BY <1>0, <2>1, <4>1
      <4> QED BY <4>1, <4>2
    <3> QED BY <3>1, <3>2
  <2>4. Downhill(w.clusters, E, dd)
    BY <2>3 DEF Downhill
  <2> QED BY <1>3, <2>2, <2>4 DEF Trees, Forest
<1>7. \A k \in E : Found(w, k) = r[k]
  <2>1. ASSUME NEW k \in E PROVE r[w.clusters[k]] = r[k]
    <3>1. CASE k = a
      BY <1>0, <1>3, <3>1
    <3>2. CASE k # a
      BY <1>0, <1>3, <1>5, <3>2
    <3> QED BY <3>1, <3>2
  <2>2. ASSUME NEW k \in E, w.clusters[k] = k PROVE r[k] = k
    <3>1. k # a /\ c[k] = k
      BY <1>0, <1>3, <2>2
    <3>2. Found(u, k) = k
      BY <1>0, <3>1, RootIsFound DEF c
    <3> QED BY <3>1, <3>2
  <2> HIDE DEF r
  <2> QED BY <1>6, <2>1, <2>2, FoundUnique
<1>8. \A k \in E : Found(w, k) = IF Found(u, k) = a THEN b ELSE Found(u, k)
  BY <1>7
<1>9. Counted(E, w)
  <2>1. Roots(E, w) = Roots(E, u) \ {a}
    BY <1>0, <1>8 DEF Roots
  <2>2. Members(E, w, b) = Members(E, u, b) \cup Members(E, u, a) /\ Members(E, u, b) \cap Members(E, u, a) = {}
    BY <1>8 DEF Members
  <2>3. \A i \in E \ {a, b} : Members(E, w, i) = Members(E, u, i)
    BY <1>8 DEF Members
  <2>4. IsFiniteSet(Members(E, u, a)) /\ IsFiniteSet(Members(E, u, b))
    <3>1. Members(E, u, a) \in SUBSET E /\ Members(E, u, b) \in SUBSET E
      BY DEF Members
    <3> QED BY <3>1, FS_Subset
  <2>5. /\ u.sizes[a] = Cardinality(Members(E, u, a)) /\ u.sizes[b] = Cardinality(Members(E, u, b))
        /\ u.sizes[a] \in Nat /\ u.sizes[b] \in Nat
    BY <1>0 DEF Partition, Counted
  <2>6. Cardinality(Members(E, w, b)) = u.sizes[b] + u.sizes[a]
    <3>1. Cardinality(Members(E, w, b)) =
            Cardinality(Members(E, u, b)) + Cardinality(Members(E, u, a)) - Cardinality({})
      BY <2>2, <2>4, FS_Union
    <3> QED BY <2>5, <3>1, FS_EmptySet
  <2>7. w.num = Cardinality(Roots(E, w))
    BY <1>1, <1>3, <2>1, FS_RemoveElement
  <2>8. ASSUME NEW i \in E
        PROVE  w.sizes[i] = IF i \in Roots(E, w) THEN Cardinality(Members(E, w, i)) ELSE 0
    <3>1. CASE i = a
      BY <1>3, <2>1, <3>1
    <3>2. CASE i = b
      BY <1>3, <2>1, <2>6, <3>2
    <3>3. CASE i \in E \ {a, b}
      <4>1. w.sizes[i] = u.sizes[i] /\ Members(E, w, i) = Members(E, u, i) /\ (i \in Roots(E, w) <=> i \in Roots(E, u))
        BY <1>3, <2>1, <2>3, <3>3
      <4> QED BY <4>1 DEF Partition, Counted
    <3> QED BY <3>1, <3>2, <3>3
  <2> QED BY <2>7, <2>8 DEF Counted
<1> QED BY <1>6, <1>8, <1>9 DEF Partition, w

\* Having the same sets goes on from arrays to arrays.
LEMMA SameTwice ==
  ASSUME NEW E, NEW u, NEW v, NEW w, Same(E, u, v), Same(E, v, w)
  PROVE  Same(E, u, w)
BY DEF Same

\* In w the sets of p and of the elements of Q have become one, those of u.
Around(E, u, p0, Q) == {x \in E : \E q \in Q \cup {p0} : Found(u, x) = Found(u, q)}
Joined(E, u, w, p0, Q) ==
  /\ Partition(E, w)
  /\ \A x, y \in E : Found(w, x) = Found(w, y) <=>
                       \/ Found(u, x) = Found(u, y)
                       \/ {x, y} \subseteq Around(E, u, p0, Q)

\* With the same sets nothing is joined.
LEMMA SameJoined ==
  ASSUME NEW E, NEW u, Partition(E, u), NEW w, Same(E, u, w), NEW p0 \in E
  PROVE  Joined(E, u, w, p0, {})
<1>1. Partition(E, w)
  BY SamePartition
<1>2. \A x \in E : Found(w, x) = Found(u, x)
  BY DEF Same
<1>3. \A x \in E : x \in Around(E, u, p0, {}) <=> Found(u, x) = Found(u, p0)
  BY DEF Around
<1> QED BY <1>1, <1>2, <1>3 DEF Joined

\* Sets joined to that of p twice.
LEMMA JoinedTwice ==
  ASSUME NEW E, NEW u, NEW v, NEW w, NEW p0 \in E, NEW Q \in SUBSET E, NEW R \in SUBSET E,
         Joined(E, u, v, p0, Q), Joined(E, v, w, p0, R)
  PROVE  Joined(E, u, w, p0, Q \cup R)
<1> DEFINE A == Around(E, u, p0, Q)
           B == Around(E, v, p0, R)
           C == Around(E, u, p0, Q \cup R)
<1>1. \A x, y \in E : Found(v, x) = Found(v, y) <=> Found(u, x) = Found(u, y) \/ (x \in A /\ y \in A)
  BY DEF Joined
<1>2. \A x, y \in E : Found(w, x) = Found(w, y) <=> Found(v, x) = Found(v, y) \/ (x \in B /\ y \in B)
  BY DEF Joined
<1>3. A \subseteq C /\ p0 \in A /\ A \subseteq E
  BY DEF Around
<1>4. ASSUME NEW x \in E PROVE x \in B <=> x \in C
  <2>1. ASSUME x \in B PROVE x \in C
    <3>1. PICK q \in R \cup {p0} : Found(v, x) = Found(v, q)
      BY <2>1 DEF Around
    <3>2. Found(u, x) = Found(u, q) \/ x \in A
      BY <1>1, <3>1
    <3>3. CASE x \in A
      BY <1>3, <3>3
    <3>4. CASE Found(u, x) = Found(u, q)
      BY <3>1, <3>4 DEF Around
    <3> QED BY <3>2, <3>3, <3>4
  <2>2. ASSUME x \in C PROVE x \in B
    <3>1. PICK q \in (Q \cup R) \cup {p0} : Found(u, x) = Found(u, q)
      BY <2>2 DEF Around
    <3>2. CASE q \in R \cup {p0}
      <4>1. Found(v, x) = Found(v, q)
        BY <1>1, <3>1, <3>2
      <4> QED BY <3>2, <4>1 DEF Around
    <3>3. CASE q \in Q
      <4>1. x \in A
        BY <3>1, <3>3 DEF Around
      <4>2. Found(v, x) = Found(v, p0)
        BY <1>1, <1>3, <4>1
      <4> QED BY <4>2 DEF Around
    <3> QED BY <3>2, <3>3
  <2> QED BY <2>1, <2>2
<1>5. ASSUME NEW x \in C, NEW y \in E, Found(u, x) = Found(u, y) PROVE y \in C
  BY <1>5 DEF Around
<1>6. C \subseteq E
  BY DEF Around
<1> HIDE DEF A, B, C
<1>7. ASSUME NEW x \in E, NEW y \in E
      PROVE  Found(w, x) = Found(w, y) <=> Found(u, x) = Found(u, y) \/ (x \in C /\ y \in C)
  <2>1. Found(w, x) = Found(w, y) <=> Found(v, x) = Found(v, y) \/ (x \in C /\ y \in C)
    BY <1>2, <1>4
  <2>2. Found(v, x) = Found(v, y) <=> Found(u, x) = Found(u, y) \/ (x \in A /\ y \in A)
    BY <1>1
  <2> QED BY <1>3, <2>1, <2>2
<1>8. Partition(E, w)
  BY DEF Joined
<1> QED BY <1>6, <1>7, <1>8 DEF Joined, C

\* A root put under another joins their sets.
LEMMA AbsorbJoins ==
  ASSUME NEW E, IsFiniteSet(E), NEW u, Partition(E, u), NEW i \in E, NEW j \in E,
         NEW v, Same(E, u, v), NEW a, NEW b, a # b, {a, b} = {Found(u, i), Found(u, j)}
  PROVE  Joined(E, u, Absorb(v, a, b), i, {j})
<1> DEFINE w == Absorb(v, a, b)
<1>1. u \in Trees(E) /\ v \in Trees(E) /\ Partition(E, v) /\ \A k \in E : Found(v, k) = Found(u, k)
  BY SamePartition DEF Partition, Same
<1>2. \A k \in E : Found(u, k) \in E /\ Found(u, Found(u, k)) = Found(u, k)
  BY <1>1, FoundRoot, RootIsFound
<1>3. a \in Roots(E, v) /\ b \in Roots(E, v)
  <2>1. a \in {Found(u, i), Found(u, j)} /\ b \in {Found(u, i), Found(u, j)}
    OBVIOUS
  <2> QED BY <1>1, <1>2, <2>1 DEF Roots
<1>4. Partition(E, w) /\ \A k \in E : Found(w, k) = IF Found(v, k) = a THEN b ELSE Found(v, k)
  BY <1>1, <1>3, AbsorbKeeps
<1> HIDE DEF w
<1>5. \A k \in E : k \in Around(E, u, i, {j}) <=> Found(u, k) \in {a, b}
  BY DEF Around
<1>6. Around(E, u, i, {j}) \subseteq E
  BY DEF Around
<1>7. ASSUME NEW x \in E, NEW y \in E
      PROVE  Found(w, x) = Found(w, y) <=>
               Found(u, x) = Found(u, y) \/ {x, y} \subseteq Around(E, u, i, {j})
  <2>1. Found(w, x) = (IF Found(u, x) = a THEN b ELSE Found(u, x))
    BY <1>1, <1>4
  <2>2. Found(w, y) = (IF Found(u, y) = a THEN b ELSE Found(u, y))
    BY <1>1, <1>4
  <2> QED BY <1>5, <2>1, <2>2
<1> QED BY <1>4, <1>7 DEF Joined, w

\* Nor do two finds change a set.
LEMMA FindTwice ==
  ASSUME NEW E, IsFiniteSet(E), NEW u \in Trees(E), NEW i \in E, NEW j \in E
  PROVE  Same(E, u, UF_find(UF_find(u, i), j))
<1> DEFINE m == UF_find(u, i)
<1>1. Same(E, u, m) /\ m \in Trees(E)
  BY FindKeeps DEF Same
<1> HIDE DEF m
<1>2. Same(E, m, UF_find(m, j))
  BY <1>1, FindKeeps
<1>3. Same(E, u, UF_find(m, j))
  BY <1>1, <1>2, SameTwice
<1> QED BY <1>3 DEF m

\* UF_union joins two sets and keeps the partition.
LEMMA UnionJoins ==
  ASSUME NEW E, IsFiniteSet(E), NEW u, Partition(E, u), NEW i \in E, NEW j \in E
  PROVE  Joined(E, u, UF_union(u, i, j), i, {j})
<1> DEFINE a == Found(u, i)
           b == Found(u, j)
           v == UF_find(UF_find(u, i), j)
<1>1. Same(E, u, v)
  BY FindTwice DEF Partition
<1>2. a = b => UF_union(u, i, j) = v
  BY DEF UF_union
<1>3. a # b => UF_union(u, i, j) \in {Absorb(v, a, b), Absorb(v, b, a)}
  BY DEF UF_union
<1> HIDE DEF v
<1>4. CASE a = b
  <2>1. Joined(E, u, v, i, {})
    BY <1>1, SameJoined
  <2>2. Around(E, u, i, {}) = Around(E, u, i, {j})
    BY <1>4 DEF Around
  <2> QED BY <1>2, <1>4, <2>1, <2>2 DEF Joined
<1>5. CASE a # b
  <2> HIDE DEF a, b
  <2>1. {a, b} = {Found(u, i), Found(u, j)} /\ {b, a} = {Found(u, i), Found(u, j)}
    BY DEF a, b
  <2>2. Joined(E, u, Absorb(v, a, b), i, {j}) /\ Joined(E, u, Absorb(v, b, a), i, {j})
    BY <1>1, <1>5, <2>1, AbsorbJoins
  <2> QED BY <1>3, <1>5, <2>2
<1> QED BY <1>4, <1>5

-----------------------------------------------------------------------------
(* What the steps of union_dbscan do to the union-find.                        *)

\* A union-find that is a partition of the points, and the points in a cluster.
Step == {st \in [uf : Trees(Point), inCluster : SUBSET Point] : Partition(Point, st.uf)}

\* Those of R that union_if_available unites.
Available(R, in, core) == {x \in R : x \notin in \/ x \in core}

\* The points are finite in number.
LEMMA FinitePoints == IsFiniteSet(Point) /\ Cardinality(Point) = N /\ N \in Nat \ {0}
<1>1. N \in Nat \ {0} /\ 0 \in Int /\ N - 1 \in Int
  BY ClustersAssumption
<1>2. IsFiniteSet(0..N-1) /\ Cardinality(0..N-1) = IF 0 > N - 1 THEN 0 ELSE (N - 1) - 0 + 1
  BY <1>1, FS_Interval
<1> QED BY <1>1, <1>2 DEF Point

\* union_if_available puts q in a cluster, and in that of p if it was in none or is core.
LEMMA UnionIfAvailable ==
  ASSUME p \in Point, NEW st \in Step, NEW q \in Point, NEW core,
         NEW new, new = union_if_available(st, q, core)
  PROVE  /\ new \in Step /\ new.inCluster = st.inCluster \cup {q}
         /\ Joined(Point, st.uf, new.uf, p, Available({q}, st.inCluster, core))
<1> DEFINE u == st.uf
           in == st.inCluster
           w == UF_union(u, p, q)
<1>1. Partition(Point, u) /\ in \in SUBSET Point /\ st \in [uf : Trees(Point), inCluster : SUBSET Point]
  BY DEF Step
<1>2. IsFiniteSet(Point)
  BY FinitePoints
<1>3. Joined(Point, u, w, p, {q}) /\ Partition(Point, w) /\ w \in Trees(Point)
  <2> HIDE DEF u
  <2>1. Joined(Point, u, UF_union(u, p, q), p, {q})
    BY <1>1, <1>2, UnionJoins
  <2> QED BY <2>1 DEF Joined, Partition
<1>4. CASE q \in in /\ q \notin core
  <2>1. new = st /\ Available({q}, in, core) = {}
    BY <1>4 DEF union_if_available, Available
  <2>2. Same(Point, u, u)
    BY <1>1 DEF Same, Partition
  <2>3. Joined(Point, u, u, p, {})
    BY <1>1, <2>2, SameJoined
  <2> QED BY <1>4, <2>1, <2>3
<1>5. CASE q \notin in \/ q \in core
  <2>1. Available({q}, in, core) = {q}
    BY <1>5 DEF Available
  <2> HIDE DEF w
  <2>2. new = [st EXCEPT !.uf = w, !.inCluster = in \cup {q}]
    <3>1. CASE q \in in
      <4>1. new = [st EXCEPT !.uf = w] /\ in \cup {q} = in
        BY <1>5, <3>1 DEF union_if_available, w
      <4> QED BY <1>1, <4>1
    <3>2. CASE q \notin in
      BY <3>2 DEF union_if_available, w
    <3> QED BY <3>1, <3>2
  <2>3. new \in [uf : Trees(Point), inCluster : SUBSET Point] /\ new.uf = w /\ new.inCluster = in \cup {q}
    BY <1>1, <1>3, <2>2
  <2> QED BY <1>3, <2>1, <2>3 DEF Step
<1> QED BY <1>4, <1>5

\* The first k elements of a sequence.
Elements(set, k) == {set[m] : m \in 1..k}

\* The states in which the elements of set are united, one after the other.
Turns(f, n, set, start, core) ==
  f = [k \in 0..n |-> IF k = 0 THEN start ELSE union_if_available(f[k - 1], set[k], core)]

\* Elements one after the other, each united if available.
LEMMA UnitedInTurn ==
  ASSUME p \in Point, NEW n \in Nat, NEW set \in [1..n -> Point], NEW start \in Step, NEW core,
         NEW f, Turns(f, n, set, start, core),
         NEW k \in 0..n, NEW R, R = Elements(set, k)
  PROVE  /\ f[k] \in Step /\ f[k].inCluster = start.inCluster \cup R
         /\ Joined(Point, start.uf, f[k].uf, p, Available(R, start.inCluster, core))
<1> DEFINE u == start.uf
           in == start.inCluster
           Met(m) == {set[x] : x \in 1..m}
           Fine(m) == /\ f[m] \in Step /\ f[m].inCluster = in \cup Met(m)
                      /\ Joined(Point, u, f[m].uf, p, Available(Met(m), in, core))
           S == {m \in 0..n : Fine(m)}
<1>1. Partition(Point, u) /\ in \in SUBSET Point
  BY DEF Step
<1>2. 0 \in S
  <2>1. f[0] = start /\ Met(0) = {}
    BY DEF Turns
  <2>2. Same(Point, u, u)
    BY <1>1 DEF Same, Partition
  <2>3. Joined(Point, u, u, p, {}) /\ Available({}, in, core) = {}
    BY <1>1, <2>2, SameJoined DEF Available
  <2>4. 0 \in 0..n /\ in \cup {} = in
    OBVIOUS
  <2> HIDE DEF Met, u, in
  <2>5. f[0] \in Step /\ f[0].inCluster = in /\ f[0].uf = u
    BY <2>1 DEF u, in
  <2>6. Fine(0)
    BY <2>1, <2>3, <2>4, <2>5
  <2> QED BY <2>4, <2>6
<1>3. ASSUME NEW m \in 0..n, m < n, m \in S PROVE m + 1 \in S
  <2> DEFINE q == set[m + 1]
             v == f[m].uf
             w == f[m + 1].uf
             mid == f[m].inCluster
             A == Available(Met(m), in, core)
             B == Available({q}, mid, core)
  <2>1. m + 1 \in 1..n /\ m + 1 \in 0..n /\ (m + 1) - 1 = m /\ q \in Point
    BY <1>3
  <2>2. f[m + 1] = union_if_available(f[m], q, core)
    BY <2>1 DEF Turns
  <2>3. Fine(m)
    BY <1>3
  <2>4. Met(m + 1) = Met(m) \cup {q} /\ Met(m) \subseteq Point
    BY <2>1
  <2> HIDE DEF q, Met
  <2>5. /\ f[m + 1] \in Step /\ f[m + 1].inCluster = mid \cup {q}
        /\ Joined(Point, v, w, p, B)
    <3> DEFINE st == f[m]
               new == f[m + 1]
    <3>1. st \in Step /\ new = union_if_available(st, q, core)
      BY <2>2, <2>3
    <3> HIDE DEF st, new
    <3>2. /\ new \in Step /\ new.inCluster = st.inCluster \cup {q}
          /\ Joined(Point, st.uf, new.uf, p, Available({q}, st.inCluster, core))
      BY <2>1, <3>1, UnionIfAvailable
    <3> QED BY <3>2 DEF st, new
  <2>6. mid = in \cup Met(m) /\ Joined(Point, u, v, p, A)
    BY <2>3
  <2>7. A \in SUBSET Point /\ B \in SUBSET Point
    BY <2>1, <2>4 DEF Available
  <2>8. A \cup B = Available(Met(m + 1), in, core)
    BY <2>4, <2>6 DEF Available
  <2> HIDE DEF A, B, u, v, w
  <2>9. Joined(Point, u, w, p, A \cup B)
    BY <2>5, <2>6, <2>7, JoinedTwice
  <2>10. Joined(Point, u, w, p, Available(Met(m + 1), in, core))
    BY <2>8, <2>9
  <2>11. f[m + 1].inCluster = in \cup Met(m + 1)
    BY <2>4, <2>5, <2>6
  <2> QED BY <2>1, <2>5, <2>10, <2>11 DEF w
<1>4. 0..n \subseteq S
  <2> HIDE DEF S
  <2> QED BY <1>2, <1>3, UpTo
<1>5. Fine(k) /\ R = Met(k)
  BY <1>4 DEF Elements
<1> QED BY <1>5

\* There is such a sequence of states of the union-find.
LEMMA UnitedExists ==
  ASSUME p \in Point, NEW n \in Nat, NEW set \in [1..n -> Point], NEW start \in Step, NEW core
  PROVE  \E f : Turns(f, n, set, start, core)
<1> DEFINE G == [x \in Step \X (1..n) |-> union_if_available(x[1], set[x[2]], core)]
<1>1. G \in [Step \X (1..n) -> Step]
  <2>1. ASSUME NEW x \in Step \X (1..n) PROVE union_if_available(x[1], set[x[2]], core) \in Step
    <3>1. x[1] \in Step /\ set[x[2]] \in Point
      OBVIOUS
    <3> QED BY <3>1, UnionIfAvailable
  <2> QED BY <2>1
<1>2. ASSUME NEW x \in Step, NEW k \in 1..n PROVE G[<<x, k>>] = union_if_available(x, set[k], core)
  OBVIOUS
<1> HIDE DEF G
<1>3. PICK f \in [0..n -> Step] : Iterates(f, n, start, G)
  BY <1>1, Recursion
<1>4. ASSUME NEW k \in 1..n PROVE f[k] = union_if_available(f[k - 1], set[k], core)
  <2>1. k - 1 \in 0..n /\ f[k - 1] \in Step
    BY <1>3
  <2> QED BY <1>2, <1>3, <2>1 DEF Iterates
<1>5. Turns(f, n, set, start, core)
  BY <1>3, <1>4 DEF Iterates, Turns
<1> QED BY <1>5

\* A neighbour that is set aside changes nothing else.
LEMMA NeighbourSetAside ==
  ASSUME held \in Seq(Point), minPoints \in Nat, NEW q \in Point, Len(held) + 1 < minPoints, Neighbour(q)
  PROVE  held' = Append(held, q) /\ UNCHANGED <<isCore, uf, inCluster>>
<1>1. Len(held) \in Nat /\ Len(held) < minPoints
  OBVIOUS
<1> DEFINE set == Append(held, q)
<1>2. Len(set) = Len(held) + 1
  OBVIOUS
<1> HIDE DEF set
<1>3. Append(held, q) = set
  BY DEF set
<1> QED BY <1>1, <1>2, <1>3 DEF Neighbour, Looked

\* A sequence is a function on the numbers up to its length.
LEMMA SeqIsFunction ==
  ASSUME NEW S, NEW s \in Seq(S)
  PROVE  Len(s) \in Nat /\ s \in [1..Len(s) -> S]
OBVIOUS

\* What is left of the neighbours set aside when all have been united.
LEMMA UnitedAll ==
  ASSUME p \in Point, NEW set \in Seq(Point), NEW start \in Step, NEW core,
         NEW R, R = Elements(set, Len(set)), NEW new, new = United(start, set, core)
  PROVE  /\ new.inCluster = start.inCluster \cup R
         /\ Joined(Point, start.uf, new.uf, p, Available(R, start.inCluster, core))
<1> DEFINE n == Len(set)
           united == CHOOSE f : f = [k \in 0..n |-> IF k = 0 THEN start ELSE union_if_available(f[k - 1], set[k], core)]
<1>1. n \in Nat /\ set \in [1..n -> Point]
  BY SeqIsFunction
<1>2. new = united[n]
  BY DEF United
<1>3. R = Elements(set, n)
  OBVIOUS
<1> HIDE DEF n
<1>4. united = [k \in 0..n |-> IF k = 0 THEN start ELSE union_if_available(united[k - 1], set[k], core)]
  <2>1. \E f : Turns(f, n, set, start, core)
    BY <1>1, UnitedExists
  <2>2. \E f : f = [k \in 0..n |-> IF k = 0 THEN start ELSE union_if_available(f[k - 1], set[k], core)]
    BY <2>1 DEF Turns
  <2> QED BY <2>2, Zenon
<1> HIDE DEF united
<1>5. n \in 0..n /\ Turns(united, n, set, start, core)
  BY <1>1, <1>4 DEF Turns
<1> QED BY <1>1, <1>2, <1>3, <1>5, UnitedInTurn

\* The neighbour that makes p a core point: those set aside and the last one are put in
\* clusters, and those that were in none or are core come into that of p.
LEMMA NeighbourMakesCore ==
  ASSUME p \in Point, Partition(Point, uf), inCluster \subseteq Point, held \in Seq(Point), minPoints \in Nat,
         NEW q \in Point, Len(held) + 1 = minPoints, Neighbour(q),
         NEW set, set = Append(held, q), NEW R, R = Elements(set, Len(set))
  PROVE  /\ held' = set /\ isCore' = isCore \cup {p}
         /\ inCluster' = inCluster \cup {p} \cup R
         /\ Joined(Point, uf, uf', p, Available(R, inCluster \cup {p}, isCore \cup {p}))
<1> DEFINE n == Len(set)
           core == isCore \cup {p}
           in == inCluster \cup {p}
           start == [uf |-> uf, inCluster |-> in]
           new == United(start, set, core)
<1>1. Len(held) \in Nat /\ Len(held) < minPoints /\ n = minPoints /\ n \in Nat /\ set \in [1..n -> Point]
  <2>1. set \in Seq(Point) /\ n = Len(held) + 1
    OBVIOUS
  <2>2. Len(held) \in Nat /\ set \in [1..n -> Point]
    BY <2>1, SeqIsFunction, Zenon
  <2> QED BY <2>1, <2>2
<1>2. start \in Step /\ start.uf = uf /\ start.inCluster = in
  BY DEF Step, Partition
<1>3. held' = set /\ isCore' = core /\ uf' = new.uf /\ inCluster' = new.inCluster
  <2> DEFINE full == Len(held) < minPoints /\ Len(set) = minPoints
  <2>1. full
    BY <1>1
  <2>2. (IF Len(held) < minPoints THEN Append(held, q) ELSE held) = set /\ Looked(q) = uf
    BY <1>1 DEF Looked
  <2> QED BY <1>1, <2>1, <2>2 DEF Neighbour
<1> HIDE DEF start, core, in
<1>4. /\ new.inCluster = start.inCluster \cup R
      /\ Joined(Point, start.uf, new.uf, p, Available(R, start.inCluster, core))
  <2>1. set \in Seq(Point) /\ new = United(start, set, core)
    OBVIOUS
  <2> HIDE DEF new
  <2>2. p \in Point /\ start \in Step /\ set \in Seq(Point) /\ R = Elements(set, Len(set)) /\ new = United(start, set, core)
    BY <1>2, <2>1
  <2>3. new.inCluster = start.inCluster \cup R
    BY ONLY <2>2, UnitedAll
  <2>4. Joined(Point, start.uf, new.uf, p, Available(R, start.inCluster, core))
    BY ONLY <2>2, UnitedAll
  <2> QED BY <2>3, <2>4
<1> HIDE DEF new
<1>5. new.inCluster = in \cup R /\ Joined(Point, uf, new.uf, p, Available(R, in, core))
  BY <1>2, <1>4
<1> QED BY <1>3, <1>5 DEF core, in

\* A neighbour of a core point is put in a cluster, in that of p if it was in none or is core.
LEMMA NeighbourJoins ==
  ASSUME p \in Point, Partition(Point, uf), inCluster \subseteq Point, held \in Seq(Point), minPoints \in Nat,
         NEW q \in Point, Len(held) >= minPoints, Neighbour(q)
  PROVE  /\ held' = held /\ isCore' = isCore
         /\ inCluster' = inCluster \cup {q}
         /\ Joined(Point, uf, uf', p, Available({q}, inCluster, isCore))
<1> DEFINE v == UF_find(UF_find(uf, p), q)
           start == [uf |-> v, inCluster |-> inCluster]
           new == union_if_available(start, q, isCore)
<1>1. Len(held) \in Nat /\ ~(Len(held) < minPoints)
  OBVIOUS
<1>2. Same(Point, uf, v)
  BY FinitePoints, FindTwice DEF Partition
<1>3. Partition(Point, v)
  BY <1>2, SamePartition
<1>4. Looked(q) = v
  BY DEF Looked
<1>5. held' = held /\ isCore' = isCore /\ uf' = new.uf /\ inCluster' = new.inCluster
  BY <1>1, <1>4 DEF Neighbour
<1> HIDE DEF v
<1>6. start \in Step /\ start.uf = v /\ start.inCluster = inCluster
  BY <1>3 DEF Step, Partition
<1> HIDE DEF start
<1> DEFINE A == Available({q}, inCluster, isCore)
<1>7. new.inCluster = inCluster \cup {q} /\ Joined(Point, v, new.uf, p, A)
  <2>1. new = union_if_available(start, q, isCore)
    OBVIOUS
  <2> HIDE DEF new
  <2> QED BY <1>6, <2>1, UnionIfAvailable
<1> HIDE DEF new
<1>8. Joined(Point, uf, v, p, {})
  BY <1>2, SameJoined
<1>9. A \in SUBSET Point /\ {} \cup A = A
  BY DEF Available
<1> HIDE DEF A
<1>10. Joined(Point, uf, new.uf, p, {} \cup A)
  BY <1>7, <1>8, <1>9, JoinedTwice
<1> QED BY <1>5, <1>7, <1>9, <1>10 DEF A

-----------------------------------------------------------------------------
(* The clusters are chains of core points, whatever is united in which order.  *)

\* A chain of points of C, each within eps of the next, leads from x to y: what has x
\* and every such neighbour of what it has, has y.
ClosedIn(C, X) == \A a \in X, b \in C : {a, b} \in near => b \in X
Leads(C, x, y) == \A X \in SUBSET Point : x \in X /\ ClosedIn(C, X) => y \in X

\* The sets of the union-find, with in the points in clusters and C those that are core:
\* core points of one set are joined by a chain of core points, the other points of a set
\* are within eps of one, and points outside clusters are alone.
ChainsJoin(u, C) == \A x, y \in C : Found(u, x) = Found(u, y) => Leads(C, x, y)
BordersJoin(u, in, C) ==
  \A x \in in \ C : \E c \in C : {c, x} \in near /\ Found(u, c) = Found(u, x)
OthersAlone(u, in) == \A x \in Point \ in, y \in Point : Found(u, x) = Found(u, y) => x = y
Sound(u, in, C) ==
  /\ C \subseteq in /\ in \subseteq Point
  /\ ChainsJoin(u, C) /\ BordersJoin(u, in, C) /\ OthersAlone(u, in)

\* Chains are put one behind the other, and are none the less chains with more points.
LEMMA LeadsOn ==
  ASSUME NEW C, NEW D, C \subseteq D, NEW x \in Point, NEW y, NEW z
  PROVE  /\ Leads(C, x, x)
         /\ Leads(C, x, y) /\ Leads(C, y, z) => Leads(C, x, z)
         /\ y \in C /\ {x, y} \in near => Leads(C, x, y)
         /\ Leads(C, x, y) => Leads(D, x, y)
BY DEF Leads, ClosedIn

\* A point that becomes core brings its set along: it is alone, or beside a core point.
LEMMA PromoteKeeps ==
  ASSUME NEW u, NEW in, NEW C, Sound(u, in, C), NEW c \in Point
  PROVE  Sound(u, in \cup {c}, C \cup {c})
<1> DEFINE D == C \cup {c}
<1>1. C \subseteq D /\ C \subseteq Point
  BY DEF Sound
<1>2. ASSUME NEW x \in C, Found(u, x) = Found(u, c) PROVE Leads(D, x, c) /\ Leads(D, c, x)
  <2>1. CASE c \in C
    <3>1. Leads(C, x, c) /\ Leads(C, c, x)
      BY <1>2, <2>1 DEF Sound, ChainsJoin
    <3> HIDE DEF D
    <3> QED BY <1>1, <3>1, LeadsOn
  <2>2. CASE c \in in \ C
    <3>1. PICK b \in C : {b, c} \in near /\ Found(u, b) = Found(u, c)
      BY <2>2 DEF Sound, BordersJoin
    <3>2. Leads(C, x, b) /\ Leads(C, b, x)
      BY <1>2, <3>1 DEF Sound, ChainsJoin
    <3>3. c \in D /\ b \in D /\ {c, b} \in near /\ x \in Point /\ b \in Point
      <4>1. {c, b} = {b, c}
        OBVIOUS
      <4> QED BY <1>1, <3>1, <4>1
    <3> HIDE DEF D
    <3>4. Leads(D, x, b) /\ Leads(D, b, x)
      BY <1>1, <3>2, <3>3, LeadsOn
    <3>5. Leads(D, b, c) /\ Leads(D, c, b)
      BY <3>1, <3>3, LeadsOn
    <3> QED BY <3>3, <3>4, <3>5, LeadsOn
  <2>3. CASE c \notin in
    <3>1. c = x
      BY <1>1, <1>2, <2>3 DEF Sound, OthersAlone
    <3> HIDE DEF D
    <3> QED BY <3>1, LeadsOn
  <2> QED BY <2>1, <2>2, <2>3
<1>3. ChainsJoin(u, D)
  <2>1. SUFFICES ASSUME NEW x \in D, NEW y \in D, Found(u, x) = Found(u, y)
                 PROVE  Leads(D, x, y)
    BY DEF ChainsJoin
  <2>2. CASE x \in C /\ y \in C
    <3>1. Leads(C, x, y)
      BY <2>1, <2>2 DEF Sound, ChainsJoin
    <3> HIDE DEF D
    <3> QED BY <1>1, <2>2, <3>1, LeadsOn
  <2>3. CASE x = c /\ y = c
    <3> HIDE DEF D
    <3> QED BY <2>3, LeadsOn
  <2> QED BY <1>2, <2>1, <2>2, <2>3
<1>4. BordersJoin(u, in \cup {c}, D)
  BY DEF Sound, BordersJoin
<1>5. OthersAlone(u, in \cup {c})
  BY DEF Sound, OthersAlone
<1> QED BY <1>3, <1>4, <1>5 DEF Sound

\* Neighbours of the core point p0 that are in no cluster, or core, come into its set.
LEMMA UniteKeeps ==
  ASSUME NEW u, NEW w, NEW in, NEW C, Sound(u, in, C), NEW p0 \in C, NEW R \in SUBSET Point,
         \A x \in R : {p0, x} \in near,
         Joined(Point, u, w, p0, Available(R, in, C))
  PROVE  Sound(w, in \cup R, C)
<1> DEFINE Q == Available(R, in, C)
           A == Around(Point, u, p0, Q)
<1>1. C \subseteq in /\ in \subseteq Point /\ p0 \in Point /\ p0 \in in
  BY DEF Sound
<1>2. \A x, y \in Point : Found(w, x) = Found(w, y) <=> Found(u, x) = Found(u, y) \/ (x \in A /\ y \in A)
  BY DEF Joined
<1>3. Q \subseteq R /\ \A x \in R : x \in Q <=> x \notin in \/ x \in C
  BY DEF Available
<1>4. A \subseteq Point /\ \A x \in Point : x \in A <=> \E q \in Q \cup {p0} : Found(u, x) = Found(u, q)
  BY DEF Around
<1> HIDE DEF Q, A
<1>5. ASSUME NEW x \in C, x \in A PROVE Leads(C, x, p0) /\ Leads(C, p0, x)
  <2>1. PICK q \in Q \cup {p0} : Found(u, x) = Found(u, q)
    BY <1>4, <1>5
  <2>2. q \in C
    <3>1. SUFFICES ASSUME q \notin C PROVE FALSE
      OBVIOUS
    <3>2. q \in R /\ q \notin in
      BY <1>3, <2>1, <3>1
    <3>3. q = x
      BY <1>1, <2>1, <3>2 DEF Sound, OthersAlone
    <3> QED BY <1>5, <3>1, <3>3
  <2>3. Leads(C, x, q) /\ Leads(C, q, x)
    BY <2>1, <2>2 DEF Sound, ChainsJoin
  <2>4. q = p0 \/ ({p0, q} \in near /\ {q, p0} \in near)
    <3>1. {p0, q} = {q, p0}
      OBVIOUS
    <3> QED BY <1>3, <2>1, <3>1
  <2>5. Leads(C, q, p0) /\ Leads(C, p0, q)
    BY <1>1, <2>2, <2>4, LeadsOn
  <2> QED BY <1>1, <2>2, <2>3, <2>5, LeadsOn
<1>6. ChainsJoin(w, C)
  <2>1. SUFFICES ASSUME NEW x \in C, NEW y \in C, Found(w, x) = Found(w, y)
                 PROVE  Leads(C, x, y)
    BY DEF ChainsJoin
  <2>2. x \in Point /\ y \in Point
    BY <1>1
  <2>3. CASE Found(u, x) = Found(u, y)
    BY <2>3 DEF Sound, ChainsJoin
  <2>4. CASE x \in A /\ y \in A
    BY <1>1, <1>5, <2>2, <2>4, LeadsOn
  <2> QED BY <1>2, <2>1, <2>2, <2>3, <2>4
<1>7. BordersJoin(w, in \cup R, C)
  <2>1. SUFFICES ASSUME NEW x \in (in \cup R) \ C
                 PROVE  \E c \in C : {c, x} \in near /\ Found(w, c) = Found(w, x)
    BY DEF BordersJoin
  <2>2. CASE x \in in
    <3>1. PICK c \in C : {c, x} \in near /\ Found(u, c) = Found(u, x)
      BY <2>1, <2>2 DEF Sound, BordersJoin
    <3> QED BY <1>1, <1>2, <2>2, <3>1
  <2>3. CASE x \notin in
    <3>1. x \in R /\ x \in Q /\ x \in Point
      BY <1>3, <2>1, <2>3
    <3>2. x \in A /\ p0 \in A
      BY <1>1, <1>4, <3>1
    <3> QED BY <1>1, <1>2, <3>1, <3>2
  <2> QED BY <2>2, <2>3
<1>8. OthersAlone(w, in \cup R)
  <2>1. SUFFICES ASSUME NEW x \in Point \ (in \cup R), NEW y \in Point, Found(w, x) = Found(w, y)
                 PROVE  x = y
    BY DEF OthersAlone
  <2>2. x \notin A
    <3>1. SUFFICES ASSUME NEW q \in Q \cup {p0}, Found(u, x) = Found(u, q) PROVE FALSE
      BY <1>4
    <3>2. q = x
      BY <1>1, <1>3, <2>1, <3>1 DEF Sound, OthersAlone
    <3> QED BY <1>1, <1>3, <2>1, <3>2
  <2>3. Found(u, x) = Found(u, y)
    BY <1>2, <2>1, <2>2
  <2> QED BY <2>1, <2>3 DEF Sound, OthersAlone
<1> QED BY <1>1, <1>6, <1>7, <1>8 DEF Sound

-----------------------------------------------------------------------------
(* The inductive invariant.                                                    *)

\* Of the input: near joins points that are not empty, and the tree finds all that is near.
GivenOK ==
  /\ minPoints \in Nat
  /\ null \subseteq empty /\ empty \subseteq Point
  /\ near \subseteq Pairs(Point \ empty) /\ near \subseteq boxes
  /\ \A i \in Point \ empty : {i, i} \in near

\* Types, and what is not used by one of the two loops.
Shape ==
  /\ Partition(Point, uf)
  /\ inCluster \subseteq Point /\ isCore \subseteq 0..p
  /\ p \in -1..N-1 /\ todo \subseteq Point /\ (p = -1 => todo = {})
  /\ held \in Seq(Point)
  /\ minPoints <= 1 => inCluster = Point /\ isCore = {} /\ held = <<>>
  /\ TooFew => p = -1 /\ inCluster = {}

\* The neighbours set aside are different ones, all met so far as long as they are too few.
HeldOK ==
  /\ \A a, b \in 1..Len(held) : held[a] = held[b] => a = b
  /\ \A a \in 1..Len(held) : held[a] \in Neighbours(p) \ todo
  /\ Len(held) <= minPoints /\ (p \in isCore <=> Len(held) = minPoints)
  /\ p \in Core \ isCore => Neighbours(p) \ todo \subseteq Elements(held, Len(held))

\* is_in_core marks core points, and those before p are marked.
CoresOK == isCore \subseteq Core /\ {i \in Core : i < p} \subseteq isCore

\* The points that unite what is near them: all of them in the loop for min_points 1.
Uniting == IF minPoints <= 1 THEN Point ELSE isCore

\* The neighbours of a core point are in a cluster once they have been met from it, and two
\* core points near each other are in one set once the first has been met from the second.
MetOK ==
  /\ \A a \in Uniting : \A b \in Neighbours(a) :
       a < p \/ (a = p /\ b \notin todo) => b \in inCluster
  /\ \A a, b \in Uniting :
       {a, b} \in near /\ a < b /\ (b < p \/ (b = p /\ a \notin todo)) => Found(uf, a) = Found(uf, b)

\* The ids are handed out at the end.
IdsOK ==
  Done => /\ TooFew \/ (todo = {} /\ p = N - 1)
          /\ ids = [i \in Point |-> IF i \in inCluster \ null
                                      THEN UF_get_collapsed_cluster_ids(uf, inCluster)[i] ELSE None]

IInv ==
  /\ GivenOK /\ Shape
  /\ minPoints > 1 => HeldOK /\ CoresOK
  /\ Sound(uf, inCluster, Uniting) /\ MetOK
  /\ IdsOK

\* A sequence has no more elements than places, and as many when they are different.
LEMMA ElementsCounted ==
  ASSUME NEW S, NEW s \in Seq(S)
  PROVE  /\ IsFiniteSet(Elements(s, Len(s))) /\ Elements(s, Len(s)) \subseteq S
         /\ Cardinality(Elements(s, Len(s))) \in Nat /\ Cardinality(Elements(s, Len(s))) <= Len(s)
         /\ (\A a, b \in 1..Len(s) : s[a] = s[b] => a = b) => Cardinality(Elements(s, Len(s))) = Len(s)
<1> DEFINE n == Len(s)
           T == Elements(s, n)
<1>1. n \in Nat /\ s \in [1..n -> S]
  BY SeqIsFunction
<1>2. IsFiniteSet(1..n) /\ Cardinality(1..n) = n
  BY <1>1, FS_Interval
<1> HIDE DEF n
<1>3. s \in Surjection(1..n, T) /\ T \subseteq S
  BY <1>1 DEF Elements, Surjection
<1>4. IsFiniteSet(T) /\ Cardinality(T) <= n /\ (Cardinality(T) = n <=> s \in Injection(1..n, T))
  <2> HIDE DEF T
  <2> QED BY <1>2, <1>3, FS_Surjection
<1>5. (\A a, b \in 1..n : s[a] = s[b] => a = b) => s \in Injection(1..n, T)
  BY <1>3 DEF Injection, Surjection, IsInjective
<1>6. Cardinality(T) \in Nat
  BY <1>4, FS_CardinalityType
<1> QED BY <1>3, <1>4, <1>5, <1>6 DEF n

\* The invariant holds before the first geometry.
LEMMA InitOK == Init => IInv
<1> SUFFICES ASSUME Init PROVE IInv
  OBVIOUS
<1> USE FinitePoints
<1>1. GivenOK
  <2>1. /\ empty \in SUBSET Point /\ null \in SUBSET empty /\ boxes \in {near, Pairs(Point \ empty)}
        /\ minPoints \in MinPoints
    BY DEF Init, Inputs
  <2>2. minPoints \in Nat
    BY <2>1, ClustersAssumption
  <2>3. PICK e \in SUBSET {x \in Pairs(Point \ empty) : Cardinality(x) = 2} :
          near = Pairs({}) \cup {{i} : i \in Point \ empty} \cup e
    BY DEF Init, Inputs
  <2>4. Pairs({}) = {}
    BY DEF Pairs
  <2>5. \A i \in Point \ empty : {i, i} = {i} /\ {i} \in near
    BY <2>3
  <2>6. near \subseteq Pairs(Point \ empty)
    <3>1. \A i \in Point \ empty : {i} \in Pairs(Point \ empty)
      <4>1. \A i : {i} = {i, i}
        OBVIOUS
      <4> QED BY <4>1 DEF Pairs
    <3> QED BY <2>3, <2>4, <3>1
  <2> QED BY <2>1, <2>2, <2>5, <2>6 DEF GivenOK
<1>2. /\ uf = UF_create(Point) /\ isCore = {} /\ p = -1 /\ todo = {} /\ held = <<>> /\ ids = <<>>
      /\ inCluster = IF minPoints <= 1 THEN Point ELSE {}
  BY DEF Init
<1>3. Partition(Point, uf) /\ \A i \in Point : Found(uf, i) = i
  BY <1>2, CreatePartition
<1>4. p \in -1..N-1 /\ \A i \in Point : i > p /\ i \in Int
  BY <1>2 DEF Point
<1>5. Shape
  <2>1. TooFew => inCluster = {}
    BY <1>1, <1>2 DEF TooFew, GivenOK
  <2>2. held \in Seq(Point)
    BY <1>2
  <2> QED BY <1>2, <1>3, <1>4, <2>1, <2>2 DEF Shape
<1>6. minPoints > 1 => HeldOK /\ CoresOK
  <2>1. Len(held) = 0 /\ 1..0 = {} /\ Neighbours(p) \cap Point = Neighbours(p)
    BY <1>2 DEF Neighbours
  <2>2. p \notin Point
    BY <1>2 DEF Point
  <2>3. minPoints > 1 => HeldOK
    BY <1>1, <1>2, <2>1, <2>2 DEF HeldOK, Core, GivenOK
  <2>4. CoresOK
    BY <1>2, <1>4 DEF CoresOK, Core
  <2> QED BY <2>3, <2>4
<1>7. Sound(uf, inCluster, Uniting)
  <2>1. Uniting = Point \/ Uniting = {}
    BY <1>2 DEF Uniting
  <2>2. Uniting \subseteq inCluster /\ inCluster \subseteq Point /\ inCluster \ Uniting = {}
    BY <1>2 DEF Uniting
  <2>3. ChainsJoin(uf, Uniting)
    <3>1. SUFFICES ASSUME NEW x \in Uniting, NEW y \in Uniting, Found(uf, x) = Found(uf, y)
                   PROVE  Leads(Uniting, x, y)
      BY DEF ChainsJoin
    <3>2. x \in Point /\ x = y
      BY <1>3, <2>1, <3>1
    <3> QED BY <3>2, LeadsOn
  <2> QED BY <1>3, <2>2, <2>3 DEF Sound, BordersJoin, OthersAlone
<1>8. MetOK
  <2>1. Uniting \subseteq Point
    BY <1>2 DEF Uniting
  <2> QED BY <1>2, <1>4, <2>1 DEF MetOK, Neighbours, Point
<1>9. IdsOK
  BY <1>2 DEF IdsOK, Done
<1> QED BY <1>1, <1>5, <1>6, <1>7, <1>8, <1>9 DEF IInv

\* A core point is known to be one when all candidates have been seen.
LEMMA PassedIsCore ==
  ASSUME IInv, minPoints > 1, todo = {}, p \in Core
  PROVE  p \in isCore
<1>1. SUFFICES ASSUME p \notin isCore PROVE FALSE
  OBVIOUS
<1>2. HeldOK /\ held \in Seq(Point) /\ minPoints \in Nat
  BY DEF IInv, Shape, GivenOK
<1>3. Len(held) \in Nat /\ Len(held) < minPoints
  <2>1. Len(held) \in Nat
    BY <1>2, SeqIsFunction
  <2> QED BY <1>1, <1>2, <2>1 DEF HeldOK
<1>4. Neighbours(p) \subseteq Elements(held, Len(held))
  BY <1>1, <1>2 DEF HeldOK
<1>5. Cardinality(Elements(held, Len(held))) <= Len(held) /\ IsFiniteSet(Elements(held, Len(held)))
  BY <1>2, ElementsCounted
<1>6. Cardinality(Neighbours(p)) <= Cardinality(Elements(held, Len(held)))
  BY <1>4, <1>5, FS_Subset
<1>7. Cardinality(Neighbours(p)) \in Nat /\ Cardinality(Elements(held, Len(held))) \in Nat
  BY <1>4, <1>5, FS_Subset, FS_CardinalityType
<1>8. Cardinality(Neighbours(p)) >= minPoints
  BY DEF Core
<1> QED BY <1>2, <1>3, <1>5, <1>6, <1>7, <1>8

\* Points of one set stay in one set.
Kept == \A x, y \in Point : Found(uf, x) = Found(uf, y) => Found(uf', x) = Found(uf', y)

\* The next geometry: that before has been looked at from all sides.
LEMMA AdvanceOK == IInv /\ Advance => IInv' /\ Kept
<1> SUFFICES ASSUME IInv, Advance PROVE IInv' /\ Kept
  OBVIOUS
<1>1. /\ p \in -1..N-1 /\ p' = p + 1 /\ p' \in Point /\ p' \in 0..N-1 /\ todo = {} /\ ~TooFew /\ p \in Int
      /\ N \in Nat /\ held' = <<>>
  BY FinitePoints DEF IInv, Shape, Advance, Point
<1>2. todo' = IF minPoints <= 1 \/ Cardinality(Query(p')) >= minPoints THEN Query(p') ELSE {}
  BY DEF Advance
<1>3. /\ near' = near /\ boxes' = boxes /\ empty' = empty /\ null' = null /\ minPoints' = minPoints
      /\ uf' = uf /\ inCluster' = inCluster /\ isCore' = isCore /\ ids' = ids
  BY DEF Advance, input
<1>4. minPoints \in Nat
  BY DEF IInv, GivenOK
<1>5. todo' \subseteq Query(p') /\ Query(p') \subseteq Point
  BY <1>2 DEF Query
<1>6. GivenOK'
  BY <1>3 DEF IInv, GivenOK
<1>7. isCore \subseteq 0..p /\ p' \notin isCore
  BY <1>1 DEF IInv, Shape
<1>8. Uniting' = Uniting
  BY <1>3 DEF Uniting
<1>9. Shape'
  <2>1. isCore \subseteq 0..p'
    BY <1>1, <1>7
  <2>2. held' \in Seq(Point)
    BY <1>1
  <2>3. ~TooFew'
    BY <1>1, <1>3 DEF TooFew
  <2>4. p' # -1
    BY <1>1
  <2> QED BY <1>1, <1>3, <1>5, <2>1, <2>2, <2>3, <2>4 DEF IInv, Shape
<1>10. ASSUME minPoints > 1 PROVE (HeldOK /\ CoresOK)'
  <2>1. Len(held') = 0 /\ 1..0 = {} /\ ~(0 = minPoints)
    BY <1>1, <1>10
  <2>2. p' \in Core => todo' = Query(p') /\ Neighbours(p') \subseteq Query(p')
    <3>1. SUFFICES ASSUME p' \in Core PROVE todo' = Query(p') /\ Neighbours(p') \subseteq Query(p')
      OBVIOUS
    <3>2. Neighbours(p') \subseteq Query(p')
      BY DEF Neighbours, Query, IInv, GivenOK
    <3>3. IsFiniteSet(Query(p')) /\ IsFiniteSet(Neighbours(p'))
      <4>1. Query(p') \in SUBSET Point /\ Neighbours(p') \in SUBSET Point
        BY DEF Query, Neighbours
      <4> QED BY <4>1, FinitePoints, FS_Subset
    <3>4. Cardinality(Neighbours(p')) <= Cardinality(Query(p'))
      BY <3>2, <3>3, FS_Subset
    <3>5. Cardinality(Neighbours(p')) >= minPoints
      BY <3>1 DEF Core
    <3>6. Cardinality(Query(p')) \in Nat /\ Cardinality(Neighbours(p')) \in Nat
      BY <3>3, FS_CardinalityType
    <3>7. Cardinality(Query(p')) >= minPoints
      BY <1>4, <3>4, <3>5, <3>6
    <3> QED BY <1>2, <3>2, <3>7
  <2>3. Neighbours(p)' = Neighbours(p') /\ Core' = Core
    BY <1>3 DEF Neighbours, Core
  <2>4. HeldOK'
    BY <1>1, <1>3, <1>4, <1>7, <2>1, <2>2, <2>3 DEF HeldOK
  <2>5. p \in Core => p \in isCore
    BY <1>1, <1>10, PassedIsCore
  <2>6. CoresOK'
    <3>1. \A i \in Point : i < p' => i < p \/ i = p
      BY <1>1 DEF Point
    <3>2. Core \subseteq Point
      BY DEF Core
    <3> QED BY <1>3, <1>10, <2>3, <2>5, <3>1, <3>2 DEF CoresOK, IInv
  <2> QED BY <2>4, <2>6
<1>11. Sound(uf, inCluster, Uniting)'
  BY <1>3, <1>8 DEF IInv, Sound, ChainsJoin, BordersJoin, OthersAlone, Leads, ClosedIn
<1>12. MetOK'
  <2>1. Uniting \subseteq Point
    BY DEF IInv, Sound
  <2>2. \A i \in Point : i < p' => i < p \/ i = p
    BY <1>1 DEF Point
  <2>3. p' \in Uniting => inCluster = Point /\ todo' = Query(p')
    BY <1>2, <1>7 DEF Uniting, IInv, Shape
  <2>4. ASSUME NEW a \in Uniting, NEW b \in Neighbours(a), a < p' \/ (a = p' /\ b \notin todo')
        PROVE  b \in inCluster
    <3>1. CASE a = p'
      BY <2>3, <3>1 DEF Neighbours
    <3>2. CASE a < p'
      BY <1>1, <2>1, <2>2, <3>2 DEF IInv, MetOK
    <3> QED BY <2>4, <3>1, <3>2
  <2>5. ASSUME NEW a \in Uniting, NEW b \in Uniting, {a, b} \in near, a < b, b < p' \/ (b = p' /\ a \notin todo')
        PROVE  Found(uf, a) = Found(uf, b)
    <3>1. CASE b = p' /\ a \notin todo'
      <4>1. {b, a} = {a, b}
        OBVIOUS
      <4>2. a \in Query(p')
        BY <2>1, <2>5, <3>1, <4>1 DEF Query, IInv, GivenOK
      <4> QED BY <2>3, <3>1, <4>2
    <3>2. CASE b < p'
      BY <1>1, <2>1, <2>2, <2>5, <3>2 DEF IInv, MetOK
    <3> QED BY <2>5, <3>1, <3>2
  <2>6. \A a : Neighbours(a)' = Neighbours(a)
    BY <1>3 DEF Neighbours
  <2> QED BY <1>3, <1>8, <2>4, <2>5, <2>6 DEF MetOK
<1>13. IdsOK'
  <2>1. ~Done
    BY <1>1, FinitePoints DEF IInv, IdsOK, Advance
  <2> QED BY <1>3, <2>1 DEF IdsOK, Done
<1> QED BY <1>3, <1>6, <1>9, <1>10, <1>11, <1>12, <1>13 DEF IInv, Kept

\* With the same sets the clusters are as sound.
LEMMA SameSound ==
  ASSUME NEW u, NEW w, Same(Point, u, w), NEW in, NEW C, Sound(u, in, C)
  PROVE  Sound(w, in, C)
<1>1. \A i \in Point : Found(w, i) = Found(u, i)
  BY DEF Same
<1>2. C \subseteq Point /\ in \subseteq Point
  BY DEF Sound
<1> QED BY <1>1, <1>2 DEF Sound, ChainsJoin, BordersJoin, OthersAlone

\* A candidate of the loop for min_points 1.
LEMMA UniteNearOK == IInv /\ UniteNear => IInv' /\ Kept
<1> SUFFICES ASSUME IInv, UniteNear PROVE IInv' /\ Kept
  OBVIOUS
<1>1. PICK q \in todo : /\ todo' = todo \ {q}
                        /\ uf' = LET found == UF_find(UF_find(uf, p), q) IN
                                 IF Found(uf, p) # Found(uf, q) /\ {p, q} \in near
                                 THEN UF_union(found, p, q) ELSE found
  BY DEF UniteNear
<1>2. /\ near' = near /\ boxes' = boxes /\ empty' = empty /\ null' = null /\ minPoints' = minPoints
      /\ inCluster' = inCluster /\ isCore' = isCore /\ p' = p /\ held' = held /\ ids' = ids
      /\ minPoints <= 1
  BY DEF UniteNear, input
<1>3. /\ p \in Point /\ q \in Point /\ q \in todo /\ inCluster = Point /\ Uniting = Point /\ Partition(Point, uf)
      /\ minPoints \in Nat
  BY <1>1, <1>2 DEF IInv, Shape, Point, Uniting, GivenOK
<1> DEFINE v == UF_find(UF_find(uf, p), q)
<1>4. Same(Point, uf, v)
  BY <1>3, FinitePoints, FindTwice DEF Partition
<1>5. Partition(Point, v) /\ Joined(Point, uf, v, p, {})
  BY <1>3, <1>4, SamePartition, SameJoined
<1>6. uf' = IF Found(uf, p) # Found(uf, q) /\ {p, q} \in near THEN UF_union(v, p, q) ELSE v
  BY <1>1
<1> HIDE DEF v
<1>7. /\ Partition(Point, uf') /\ Sound(uf', Point, Point)
      /\ \A x, y \in Point : Found(uf, x) = Found(uf, y) => Found(uf', x) = Found(uf', y)
      /\ {p, q} \in near => Found(uf', p) = Found(uf', q)
  <2>0. Sound(uf, Point, Point)
    BY <1>3 DEF IInv
  <2>1. CASE Found(uf, p) # Found(uf, q) /\ {p, q} \in near
    <3> DEFINE w == UF_union(v, p, q)
    <3>1. Joined(Point, v, w, p, {q})
      BY <1>3, <1>5, FinitePoints, UnionJoins
    <3> HIDE DEF w
    <3>2. {q} \in SUBSET Point /\ {} \in SUBSET Point /\ {} \cup {q} = {q}
      BY <1>3
    <3>3. Joined(Point, uf, w, p, {} \cup {q})
      BY <1>3, <1>5, <3>1, <3>2, JoinedTwice
    <3>4. Joined(Point, uf, w, p, {q})
      BY <3>2, <3>3
    <3>5. Available({q}, Point, Point) = {q} /\ Point \cup {q} = Point
      BY <1>3 DEF Available
    <3>6. Sound(w, Point \cup {q}, Point)
      <4>1. Joined(Point, uf, w, p, Available({q}, Point, Point)) /\ \A x \in {q} : {p, x} \in near
        BY <2>1, <3>4, <3>5
      <4> QED BY <1>3, <2>0, <3>2, <4>1, UniteKeeps
    <3>7. {p, q} \subseteq Around(Point, uf, p, {q})
      BY <1>3 DEF Around
    <3>8. Partition(Point, w) /\ Found(w, p) = Found(w, q)
      BY <1>3, <3>4, <3>7 DEF Joined
    <3>9. \A x, y \in Point : Found(uf, x) = Found(uf, y) => Found(w, x) = Found(w, y)
      BY <3>4 DEF Joined
    <3>10. uf' = w
      BY <1>6, <2>1 DEF w
    <3> QED BY <3>5, <3>6, <3>8, <3>9, <3>10
  <2>2. CASE ~(Found(uf, p) # Found(uf, q) /\ {p, q} \in near)
    <3>1. uf' = v
      BY <1>6, <2>2
    <3>2. Sound(v, Point, Point)
      BY <1>4, <2>0, SameSound
    <3>3. \A i \in Point : Found(v, i) = Found(uf, i)
      BY <1>4 DEF Same
    <3> QED BY <1>3, <1>5, <2>2, <3>1, <3>2, <3>3
  <2> QED BY <2>1, <2>2
<1>8. Uniting' = Point
  BY <1>2 DEF Uniting
<1>9. GivenOK'
  BY <1>2 DEF IInv, GivenOK
<1>10. Shape'
  <2>1. TooFew' = TooFew
    BY <1>2 DEF TooFew
  <2>2. todo' \subseteq todo
    BY <1>1
  <2> QED BY <1>2, <1>7, <2>1, <2>2 DEF IInv, Shape
<1>11. Sound(uf, inCluster, Uniting)'
  <2>1. ASSUME NEW C, NEW x, NEW y PROVE Leads(C, x, y)' = Leads(C, x, y)
    BY <1>2 DEF Leads, ClosedIn
  <2> QED BY <1>2, <1>3, <1>7, <1>8 DEF Sound, ChainsJoin, BordersJoin, OthersAlone, Leads, ClosedIn
<1>12. MetOK'
  <2>1. ASSUME NEW a \in Point, NEW b \in Point, {a, b} \in near, a < b, b < p \/ (b = p /\ a \notin todo')
        PROVE  Found(uf', a) = Found(uf', b)
    <3>1. CASE b = p /\ a = q
      <4>1. {a, b} = {b, a}
        OBVIOUS
      <4> QED BY <1>7, <2>1, <3>1, <4>1
    <3>2. CASE ~(b = p /\ a = q)
      <4>1. b < p \/ (b = p /\ a \notin todo)
        BY <1>1, <2>1, <3>2
      <4>2. Found(uf, a) = Found(uf, b)
        BY <1>3, <2>1, <4>1 DEF IInv, MetOK
      <4> QED BY <1>7, <4>2
    <3> QED BY <3>1, <3>2
  <2>2. \A a : Neighbours(a)' = Neighbours(a) /\ Neighbours(a) \subseteq Point
    BY <1>2 DEF Neighbours
  <2> QED BY <1>2, <1>3, <1>8, <2>1, <2>2 DEF MetOK
<1>13. IdsOK'
  <2>1. ~Done
    <3>1. ~TooFew
      BY <1>2, <1>3 DEF TooFew
    <3> QED BY <1>1, <3>1 DEF IInv, IdsOK
  <2> QED BY <1>2, <2>1 DEF IdsOK, Done
<1>14. ~(minPoints' > 1)
  BY <1>2, <1>3
<1> QED BY <1>7, <1>9, <1>10, <1>11, <1>12, <1>13, <1>14 DEF IInv, Kept

\* What a turn of the general loop leaves as it is.
Turn(q) ==
  /\ minPoints > 1 /\ q \in todo /\ todo' = todo \ {q}
  /\ UNCHANGED <<near, boxes, empty, null, minPoints, p, ids>>

\* What is known in such a turn.
LEMMA TurnFacts ==
  ASSUME IInv, NEW q, Turn(q)
  PROVE  /\ p \in Point /\ q \in Point /\ Partition(Point, uf) /\ Uniting = isCore /\ isCore \subseteq Point
         /\ inCluster \subseteq Point /\ isCore \subseteq inCluster /\ isCore \subseteq 0..p
         /\ held \in Seq(Point) /\ Len(held) \in Nat /\ minPoints \in Nat /\ ~(minPoints <= 1) /\ minPoints' > 1
         /\ HeldOK /\ CoresOK /\ Sound(uf, inCluster, isCore) /\ ~Done
         /\ \A a : Neighbours(a)' = Neighbours(a) /\ Neighbours(a) \subseteq Point
         /\ \A a, b \in Point : a < b => ~(b <= a)
<1>1. minPoints \in Nat /\ ~(minPoints <= 1) /\ minPoints' > 1
  BY DEF IInv, GivenOK, Turn
<1>2. p \in Point /\ q \in Point
  BY DEF IInv, Shape, Turn, Point
<1>3. Uniting = isCore
  BY <1>1 DEF Uniting
<1>4. Sound(uf, inCluster, isCore) /\ isCore \subseteq inCluster /\ inCluster \subseteq Point
  BY <1>3 DEF IInv, Sound
<1>5. held \in Seq(Point) /\ Len(held) \in Nat
  <2>1. held \in Seq(Point)
    BY DEF IInv, Shape
  <2> QED BY <2>1, SeqIsFunction
<1>6. ~Done
  BY <1>1, <1>2, FinitePoints DEF IInv, IdsOK, Turn, Shape, Point
<1>7. \A a : Neighbours(a)' = Neighbours(a) /\ Neighbours(a) \subseteq Point
  BY DEF Neighbours, Turn
<1>8. \A a, b \in Point : a < b => ~(b <= a)
  BY DEF Point
<1>9. HeldOK /\ CoresOK
  BY DEF IInv, Turn
<1>10. Partition(Point, uf) /\ isCore \subseteq 0..p
  BY DEF IInv, Shape
<1> QED BY <1>1, <1>2, <1>3, <1>4, <1>5, <1>6, <1>7, <1>8, <1>9, <1>10

\* What a turn of the general loop has to see to.
LEMMA TurnKeeps ==
  ASSUME IInv, NEW q, Turn(q), HeldOK', held' \in Seq(Point),
         Partition(Point, uf'),
         \A x, y \in Point : Found(uf, x) = Found(uf, y) => Found(uf', x) = Found(uf', y),
         inCluster \subseteq inCluster', isCore' \in {isCore, isCore \cup {p}}, isCore' \subseteq Core,
         Sound(uf', inCluster', isCore'),
         p \in isCore' => \A b \in Neighbours(p) \ todo' :
                            b \in inCluster' /\ (b \in isCore => Found(uf', b) = Found(uf', p))
  PROVE  IInv' /\ Kept
<1>1. /\ p \in Point /\ q \in Point /\ Uniting = isCore /\ isCore \subseteq Point /\ isCore \subseteq 0..p
      /\ minPoints \in Nat /\ ~(minPoints <= 1) /\ minPoints' > 1 /\ CoresOK /\ ~Done
      /\ \A a : Neighbours(a)' = Neighbours(a) /\ Neighbours(a) \subseteq Point
  BY TurnFacts
<1>2. /\ near' = near /\ boxes' = boxes /\ empty' = empty /\ null' = null /\ minPoints' = minPoints
      /\ p' = p /\ ids' = ids /\ todo' = todo \ {q}
  BY DEF Turn
<1>3. inCluster' \subseteq Point /\ isCore' \subseteq inCluster'
  BY DEF Sound
<1>4. Uniting' = isCore'
  BY <1>1, <1>2 DEF Uniting
<1>5. GivenOK'
  BY <1>2 DEF IInv, GivenOK
<1>6. Shape'
  <2>1. ~TooFew /\ ~TooFew'
    <3>1. ~(p = -1)
      BY <1>1 DEF Point
    <3>2. ~TooFew
      BY <3>1 DEF IInv, Shape
    <3> QED BY <1>2, <3>2 DEF TooFew
  <2>2. p \in 0..p /\ isCore' \subseteq 0..p'
    BY <1>1, <1>2 DEF Point
  <2>3. ~(minPoints' <= 1)
    BY <1>1, <1>2
  <2>4. p' # -1 /\ p' \in -1..N-1 /\ todo' \subseteq Point
    BY <1>1, <1>2 DEF IInv, Shape, Point
  <2> QED BY <1>3, <2>1, <2>2, <2>3, <2>4 DEF Shape
<1>7. CoresOK'
  <2>1. Core' = Core
    BY <1>1, <1>2 DEF Core
  <2> QED BY <1>1, <1>2, <2>1 DEF CoresOK
<1>8. Sound(uf, inCluster, Uniting)'
  <2>1. Sound(uf', inCluster', isCore')
    OBVIOUS
  <2>2. ChainsJoin(uf, Uniting)'
    <3>1. near' = near /\ Uniting' = isCore'
      BY <1>2, <1>4
    <3>2. SUFFICES ASSUME NEW x \in Uniting', NEW y \in Uniting', Found(uf', x) = Found(uf', y),
                          NEW X \in SUBSET Point, x \in X, ClosedIn(Uniting, X)'
                   PROVE  y \in X
      BY DEF ChainsJoin, Leads
    <3>3. Leads(isCore', x, y)
      BY <2>1, <3>1, <3>2 DEF Sound, ChainsJoin
    <3>4. ClosedIn(isCore', X)
      BY <3>1, <3>2 DEF ClosedIn
    <3> QED BY <3>2, <3>3, <3>4 DEF Leads
  <2>3. BordersJoin(uf, inCluster, Uniting)'
    <3>1. BordersJoin(uf', inCluster', isCore')
      BY <2>1 DEF Sound
    <3> QED BY <1>2, <1>4, <3>1 DEF BordersJoin
  <2>4. OthersAlone(uf, inCluster)' /\ Uniting' \subseteq inCluster' /\ inCluster' \subseteq Point
    BY <1>4, <2>1 DEF Sound, OthersAlone
  <2> QED BY <2>2, <2>3, <2>4 DEF Sound
<1>9. MetOK'
  <2>1. ASSUME NEW a \in isCore', NEW b \in Neighbours(a), a < p \/ (a = p /\ b \notin todo')
        PROVE  b \in inCluster'
    <3>1. CASE a = p
      <4>1. CASE b \notin todo'
        BY <2>1, <3>1, <4>1
      <4>2. CASE b \in todo'
        BY <1>1, <2>1, <3>1, <4>2 DEF Point
      <4> QED BY <4>1, <4>2
    <3>2. CASE a # p
      <4>1. a \in isCore /\ a < p
        BY <2>1, <3>2
      <4>2. b \in inCluster
        BY <1>1, <4>1 DEF IInv, MetOK
      <4> QED BY <4>2
    <3> QED BY <3>1, <3>2
  <2>2. ASSUME NEW a \in isCore', NEW b \in isCore', {a, b} \in near, a < b, b < p \/ (b = p /\ a \notin todo')
        PROVE  Found(uf', a) = Found(uf', b)
    <3>1. a \in Point /\ b \in Point
      BY <1>3
    <3>2. a # p
      BY <1>1, <2>2, <3>1 DEF Point
    <3>3. a \in isCore
      BY <3>2
    <3>4. CASE b = p /\ a \notin todo'
      <4>1. {a, b} = {b, a}
        OBVIOUS
      <4>2. a \in Neighbours(p)
        BY <2>2, <3>1, <3>4, <4>1 DEF Neighbours
      <4> QED BY <2>2, <3>3, <3>4, <4>2
    <3>5. CASE b < p
      <4>1. b # p
        BY <1>1, <3>1, <3>5 DEF Point
      <4>2. b \in isCore
        BY <4>1
      <4>3. Found(uf, a) = Found(uf, b)
        BY <1>1, <2>2, <3>3, <3>5, <4>2 DEF IInv, MetOK
      <4> QED BY <3>1, <4>3
    <3> QED BY <2>2, <3>4, <3>5
  <2> QED BY <1>1, <1>2, <1>4, <2>1, <2>2 DEF MetOK
<1>10. IdsOK'
  BY <1>1, <1>2 DEF IdsOK, Done
<1> QED BY <1>5, <1>6, <1>7, <1>8, <1>9, <1>10 DEF IInv, Kept

\* A candidate that is not near, or from which nothing can be learnt.
LEMMA LookOK ==
  ASSUME IInv, NEW q, Turn(q), Skipped(q) \/ {p, q} \notin near,
         uf' = Looked(q), UNCHANGED <<inCluster, isCore, held>>
  PROVE  IInv' /\ Kept
<1>1. /\ p \in Point /\ q \in Point /\ Partition(Point, uf) /\ Uniting = isCore /\ isCore \subseteq Point
      /\ inCluster \subseteq Point /\ isCore \subseteq inCluster /\ isCore \subseteq 0..p
      /\ held \in Seq(Point) /\ Len(held) \in Nat /\ minPoints \in Nat
      /\ HeldOK /\ CoresOK /\ Sound(uf, inCluster, isCore)
      /\ \A a : Neighbours(a)' = Neighbours(a) /\ Neighbours(a) \subseteq Point
  BY TurnFacts
<1>2. inCluster' = inCluster /\ isCore' = isCore /\ held' = held /\ near' = near /\ minPoints' = minPoints /\ p' = p
  BY DEF Turn
<1>3. todo' = todo \ {q} /\ q \in todo
  BY DEF Turn
<1>4. Same(Point, uf, uf')
  <2>1. Same(Point, uf, UF_find(UF_find(uf, p), q))
    BY <1>1, FinitePoints, FindTwice DEF Partition
  <2>2. Same(Point, uf, uf)
    BY <1>1 DEF Same, Partition
  <2> QED BY <2>1, <2>2 DEF Looked
<1>5. Partition(Point, uf') /\ Sound(uf', inCluster, isCore)
  BY <1>1, <1>4, SamePartition, SameSound
<1>6. \A i \in Point : Found(uf', i) = Found(uf, i)
  BY <1>4 DEF Same
<1>7. HeldOK'
  <2>1. p \in Core \ isCore => q \notin Neighbours(p)
    <3>1. SUFFICES ASSUME p \notin isCore, q \in Neighbours(p) PROVE FALSE
      OBVIOUS
    <3>2. ~(Len(held) >= minPoints)
      BY <1>1, <3>1 DEF HeldOK
    <3>3. ~Skipped(q)
      BY <3>2 DEF Skipped
    <3> QED BY <3>1, <3>3 DEF Neighbours
  <2>2. Core' = Core
    BY <1>1, <1>2 DEF Core, Turn
  <2>3. \A a \in 1..Len(held) : held[a] \in Neighbours(p) \ todo'
    BY <1>1, <1>3 DEF HeldOK
  <2>4. Neighbours(p)' = Neighbours(p)
    BY <1>2 DEF Neighbours
  <2>5. Neighbours(p') = Neighbours(p)
    BY <1>2
  <2> QED BY <1>1, <1>2, <1>3, <2>1, <2>2, <2>3, <2>4, <2>5 DEF HeldOK
<1>8. ASSUME p \in isCore, NEW b \in Neighbours(p) \ todo'
      PROVE  b \in inCluster /\ (b \in isCore => Found(uf', b) = Found(uf', p))
  <2>1. CASE b \notin todo
    <3>1. b \in inCluster
      BY <1>1, <1>8, <2>1 DEF IInv, MetOK
    <3>2. ASSUME b \in isCore PROVE Found(uf', b) = Found(uf', p)
      <4>1. b = p \/ b < p
        BY <1>1, <3>2 DEF Point
      <4>2. CASE b < p
        <5>1. {b, p} = {p, b}
          OBVIOUS
        <5>2. {b, p} \in near
          BY <1>8, <5>1 DEF Neighbours
        <5>3. Found(uf, b) = Found(uf, p)
          BY <1>1, <1>8, <2>1, <3>2, <4>2, <5>2 DEF IInv, MetOK
        <5> QED BY <1>1, <1>6, <5>3
      <4> QED BY <4>1, <4>2
    <3> QED BY <3>1, <3>2
  <2>2. CASE b \in todo
    <3>1. b = q /\ {p, q} \in near
      BY <1>3, <1>8, <2>2 DEF Neighbours
    <3>2. Found(uf, p) = Found(uf, q) \/ (q \in inCluster /\ q \notin isCore)
      BY <3>1 DEF Skipped
    <3>3. CASE Found(uf, p) = Found(uf, q)
      <4>1. q \in inCluster
        BY <1>1, <1>8, <3>3 DEF Sound, OthersAlone
      <4> QED BY <1>1, <1>6, <3>1, <3>3, <4>1
    <3> QED BY <3>1, <3>2, <3>3
  <2> QED BY <2>1, <2>2
<1>9. isCore' \subseteq Core
  BY <1>1, <1>2 DEF CoresOK
<1>10. Sound(uf', inCluster', isCore') /\ held' \in Seq(Point)
  BY <1>1, <1>2, <1>5
<1> QED BY <1>2, <1>5, <1>6, <1>7, <1>8, <1>9, <1>10, TurnKeeps

\* One more neighbour set aside.
LEMMA HeldGrows ==
  ASSUME IInv, NEW q, Turn(q), {p, q} \in near, Len(held) < minPoints, held' = Append(held, q),
         p \in isCore' <=> Len(held) + 1 = minPoints
  PROVE  /\ HeldOK' /\ held' \in Seq(Point) /\ Len(held') = Len(held) + 1
         /\ Elements(held', Len(held')) = Elements(held, Len(held)) \cup {q}
         /\ Elements(held', Len(held')) \subseteq Neighbours(p)
<1>1. /\ p \in Point /\ q \in Point /\ held \in Seq(Point) /\ Len(held) \in Nat /\ minPoints \in Nat
      /\ HeldOK /\ \A a : Neighbours(a)' = Neighbours(a) /\ Neighbours(a) \subseteq Point
  BY TurnFacts
<1>2. near' = near /\ minPoints' = minPoints /\ p' = p /\ todo' = todo \ {q} /\ q \in todo
  BY DEF Turn
<1> DEFINE n == Len(held)
           s == Append(held, q)
<1>3. /\ n \in Nat /\ Len(s) = n + 1 /\ s[n + 1] = q /\ s \in Seq(Point)
      /\ \A a \in 1..n : s[a] = held[a]
  BY <1>1
<1>4. q \in Neighbours(p)
  BY <1>1 DEF Neighbours
<1>5. /\ \A a, b \in 1..n : held[a] = held[b] => a = b
      /\ \A a \in 1..n : held[a] \in Neighbours(p) /\ held[a] \notin todo
  BY <1>1 DEF HeldOK
<1>6. held' = s
  OBVIOUS
<1>7. n < minPoints /\ (p \in isCore' <=> n + 1 = minPoints)
  OBVIOUS
<1>8. Elements(held, n) = {held[a] : a \in 1..n}
  BY DEF Elements
<1>9. p \in Core \ isCore => Neighbours(p) \ todo \subseteq Elements(held, n)
  BY <1>1 DEF HeldOK
<1>10. p \notin isCore
  BY <1>1, <1>7 DEF HeldOK
<1> HIDE DEF n, s
<1>11. \A a \in 1..n+1 : a \in 1..n \/ a = n + 1
  BY <1>3
<1>12. Elements(s, n + 1) = Elements(held, n) \cup {q}
  <2>1. n + 1 \in 1..n+1 /\ 1..n \subseteq 1..n+1
    BY <1>3
  <2> QED BY <1>3, <1>8, <1>11, <2>1 DEF Elements
<1>13. \A a, b \in 1..n+1 : s[a] = s[b] => a = b
  BY <1>2, <1>3, <1>5, <1>11
<1>14. \A a \in 1..n+1 : s[a] \in Neighbours(p) \ todo'
  BY <1>2, <1>3, <1>4, <1>5, <1>11
<1>15. n + 1 <= minPoints
  BY <1>1, <1>3, <1>7
<1>16. p \in Core => Neighbours(p) \ todo' \subseteq Elements(s, n + 1)
  BY <1>2, <1>9, <1>10, <1>12
<1>17. Core' = Core /\ Neighbours(p)' = Neighbours(p) /\ Neighbours(p') = Neighbours(p)
  <2>1. Core' = Core
    BY <1>1, <1>2 DEF Core, Turn
  <2>2. Neighbours(p)' = Neighbours(p)
    BY <1>2 DEF Neighbours
  <2> QED BY <1>2, <2>1, <2>2
<1>18. HeldOK'
  BY <1>2, <1>3, <1>6, <1>7, <1>13, <1>14, <1>15, <1>16, <1>17 DEF HeldOK
<1>19. Elements(s, n + 1) \subseteq Neighbours(p)
  BY <1>4, <1>5, <1>8, <1>12
<1> QED BY <1>3, <1>6, <1>12, <1>18, <1>19 DEF n

\* A neighbour set aside.
LEMMA AsideOK ==
  ASSUME IInv, NEW q, Turn(q), {p, q} \in near, Len(held) + 1 < minPoints, Neighbour(q)
  PROVE  IInv' /\ Kept
<1>1. /\ p \in Point /\ q \in Point /\ Partition(Point, uf) /\ isCore \subseteq Point
      /\ held \in Seq(Point) /\ Len(held) \in Nat /\ minPoints \in Nat
      /\ HeldOK /\ CoresOK /\ Sound(uf, inCluster, isCore)
      /\ \A a : Neighbours(a)' = Neighbours(a) /\ Neighbours(a) \subseteq Point
  BY TurnFacts
<1>2. held' = Append(held, q) /\ isCore' = isCore /\ uf' = uf /\ inCluster' = inCluster
  BY <1>1, NeighbourSetAside
<1>3. p \notin isCore
  BY <1>1 DEF HeldOK
<1>4. HeldOK'
  BY <1>1, <1>2, <1>3, HeldGrows
<1>5. isCore' \subseteq Core /\ held' \in Seq(Point)
  BY <1>1, <1>2 DEF CoresOK
<1>6. Sound(uf', inCluster', isCore') /\ Partition(Point, uf')
  BY <1>1, <1>2
<1> QED BY <1>2, <1>3, <1>4, <1>5, <1>6, TurnKeeps

\* The neighbour that makes p a core point.
LEMMA MakesCoreOK ==
  ASSUME IInv, NEW q, Turn(q), {p, q} \in near, Len(held) + 1 = minPoints, Neighbour(q)
  PROVE  IInv' /\ Kept
<1>1. /\ p \in Point /\ q \in Point /\ Partition(Point, uf) /\ isCore \subseteq Point /\ isCore \subseteq 0..p
      /\ inCluster \subseteq Point /\ isCore \subseteq inCluster
      /\ held \in Seq(Point) /\ Len(held) \in Nat /\ minPoints \in Nat /\ ~(minPoints <= 1)
      /\ HeldOK /\ CoresOK /\ Sound(uf, inCluster, isCore)
      /\ \A a : Neighbours(a) \subseteq Point
  BY TurnFacts
<1> DEFINE set == Append(held, q)
           R == Elements(set, Len(set))
           in == inCluster \cup {p}
           core == isCore \cup {p}
<1>2. /\ held' = set /\ isCore' = core /\ inCluster' = in \cup R
      /\ Joined(Point, uf, uf', p, Available(R, in, core))
  BY <1>1, NeighbourMakesCore
<1>3. Len(held) < minPoints /\ (p \in isCore' <=> Len(held) + 1 = minPoints)
  BY <1>1, <1>2
<1>4. /\ HeldOK' /\ held' \in Seq(Point) /\ Len(held') = minPoints
      /\ R = Elements(held, Len(held)) \cup {q} /\ R \subseteq Neighbours(p)
  <2>1. /\ HeldOK' /\ held' \in Seq(Point) /\ Len(held') = Len(held) + 1
        /\ Elements(held', Len(held')) = Elements(held, Len(held)) \cup {q}
        /\ Elements(held', Len(held')) \subseteq Neighbours(p)
    BY <1>2, <1>3, HeldGrows
  <2> QED BY <1>2, <2>1
<1>5. p \in Core
  <2>1. R = Elements(held', Len(held')) /\ \A a, b \in 1..Len(held') : held'[a] = held'[b] => a = b
    BY <1>2, <1>4 DEF HeldOK
  <2>2. IsFiniteSet(R) /\ Cardinality(R) = minPoints
    <3> HIDE DEF R
    <3>1. /\ IsFiniteSet(Elements(held', Len(held')))
          /\ (\A a, b \in 1..Len(held') : held'[a] = held'[b] => a = b)
               => Cardinality(Elements(held', Len(held'))) = Len(held')
      BY <1>4, ElementsCounted
    <3> QED BY <1>4, <2>1, <3>1
  <2>3. IsFiniteSet(Neighbours(p))
    <3>1. Neighbours(p) \in SUBSET Point
      BY DEF Neighbours
    <3> QED BY <3>1, FinitePoints, FS_Subset
  <2>4. Cardinality(R) <= Cardinality(Neighbours(p)) /\ Cardinality(Neighbours(p)) \in Nat
    <3> HIDE DEF R
    <3>1. R \in SUBSET Neighbours(p)
      BY <1>4
    <3> QED BY <2>3, <3>1, FS_Subset, FS_CardinalityType
  <2>5. Cardinality(Neighbours(p)) >= minPoints
    BY <1>1, <2>2, <2>4
  <2>6. p \notin empty
    <3>1. {p, q} \in Pairs(Point \ empty)
      BY DEF IInv, GivenOK
    <3> QED BY <3>1 DEF Pairs
  <2> QED BY <1>1, <2>5, <2>6 DEF Core
<1>6. p \notin isCore
  BY <1>1 DEF HeldOK
<1>7. Neighbours(p) \ todo' \subseteq R
  <2>1. Neighbours(p) \ todo \subseteq Elements(held, Len(held)) /\ todo' = todo \ {q}
    BY <1>1, <1>5, <1>6 DEF HeldOK, Turn
  <2> QED BY <1>4, <2>1
<1>8. R \in SUBSET Point /\ \A x \in R : {p, x} \in near
  BY <1>4 DEF Neighbours
<1> HIDE DEF set, R, in, core
<1>9. Sound(uf, in, core)
  BY <1>1, PromoteKeeps DEF in, core
<1>10. Sound(uf', in \cup R, core)
  <2>1. p \in core
    BY DEF core
  <2> QED BY <1>2, <1>8, <1>9, <2>1, UniteKeeps
<1>11. /\ Partition(Point, uf')
       /\ \A x, y \in Point : Found(uf, x) = Found(uf, y) => Found(uf', x) = Found(uf', y)
       /\ \A b \in Available(R, in, core) : Found(uf', b) = Found(uf', p)
  <2> DEFINE Q == Available(R, in, core)
  <2>1. Q \subseteq Point
    BY <1>8 DEF Available
  <2> HIDE DEF Q
  <2>2. Joined(Point, uf, uf', p, Q)
    BY <1>2 DEF Q
  <2>3. \A b \in Q : {b, p} \subseteq Around(Point, uf, p, Q)
    BY <1>1, <2>1 DEF Around
  <2>4. \A b \in Q : Found(uf', b) = Found(uf', p)
    BY <1>1, <2>1, <2>2, <2>3 DEF Joined
  <2>5. Partition(Point, uf') /\ \A x, y \in Point : Found(uf, x) = Found(uf, y) => Found(uf', x) = Found(uf', y)
    BY <2>2 DEF Joined
  <2> QED BY <2>4, <2>5 DEF Q
<1>12. ASSUME NEW b \in Neighbours(p) \ todo'
       PROVE  b \in inCluster' /\ (b \in isCore => Found(uf', b) = Found(uf', p))
  <2>1. b \in R
    BY <1>7
  <2>2. b \in isCore => b \in Available(R, in, core)
    BY <2>1 DEF Available, core
  <2> QED BY <1>2, <1>11, <2>1, <2>2
<1>13. isCore' \subseteq Core /\ isCore' \in {isCore, isCore \cup {p}} /\ inCluster \subseteq inCluster'
  BY <1>1, <1>2, <1>5 DEF CoresOK, core, in
<1>14. Sound(uf', inCluster', isCore')
  BY <1>2, <1>10
<1> QED BY <1>4, <1>11, <1>12, <1>13, <1>14, TurnKeeps

\* A neighbour of a point that is known to be core.
LEMMA JoinsOK ==
  ASSUME IInv, NEW q, Turn(q), {p, q} \in near, Len(held) >= minPoints, Neighbour(q)
  PROVE  IInv' /\ Kept
<1>1. /\ p \in Point /\ q \in Point /\ Partition(Point, uf) /\ isCore \subseteq Point /\ isCore \subseteq 0..p
      /\ inCluster \subseteq Point /\ isCore \subseteq inCluster
      /\ held \in Seq(Point) /\ Len(held) \in Nat /\ minPoints \in Nat
      /\ HeldOK /\ CoresOK /\ Sound(uf, inCluster, isCore)
      /\ \A a : Neighbours(a) \subseteq Point
  BY TurnFacts
<1>2. /\ held' = held /\ isCore' = isCore /\ inCluster' = inCluster \cup {q}
      /\ Joined(Point, uf, uf', p, Available({q}, inCluster, isCore))
  BY <1>1, NeighbourJoins
<1>3. p \in isCore
  BY <1>1 DEF HeldOK
<1>4. todo' = todo \ {q} /\ p' = p /\ near' = near /\ minPoints' = minPoints /\ empty' = empty
  BY DEF Turn
<1>5. HeldOK'
  <2>1. Core' = Core /\ Neighbours(p)' = Neighbours(p)
    BY <1>4 DEF Core, Neighbours
  <2>2. Neighbours(p') = Neighbours(p)
    BY <1>4
  <2> QED BY <1>1, <1>2, <1>3, <1>4, <2>1, <2>2 DEF HeldOK
<1>6. {q} \in SUBSET Point /\ \A x \in {q} : {p, x} \in near
  BY <1>1
<1> DEFINE Q == Available({q}, inCluster, isCore)
<1>7. Sound(uf', inCluster \cup {q}, isCore)
  BY <1>1, <1>2, <1>3, <1>6, UniteKeeps
<1>8. Q \subseteq Point /\ (q \in isCore => q \in Q)
  BY <1>1 DEF Available
<1> HIDE DEF Q
<1>9. Joined(Point, uf, uf', p, Q)
  BY <1>2 DEF Q
<1>10. \A b \in Q : {b, p} \subseteq Around(Point, uf, p, Q)
  BY <1>1, <1>8 DEF Around
<1>11. \A b \in Q : Found(uf', b) = Found(uf', p)
  BY <1>1, <1>8, <1>9, <1>10 DEF Joined
<1>12. Partition(Point, uf') /\ \A x, y \in Point : Found(uf, x) = Found(uf, y) => Found(uf', x) = Found(uf', y)
  BY <1>9 DEF Joined
<1>13. ASSUME NEW b \in Neighbours(p) \ todo'
       PROVE  b \in inCluster' /\ (b \in isCore => Found(uf', b) = Found(uf', p))
  <2>1. CASE b = q
    BY <1>2, <1>8, <1>11, <2>1
  <2>2. CASE b # q
    <3>1. b \in Neighbours(p) \ todo /\ b \in Point
      BY <1>1, <1>4, <2>2
    <3>2. p \in Uniting
      BY <1>3, TurnFacts
    <3>3. b \in inCluster
      BY <3>1, <3>2 DEF IInv, MetOK
    <3>4. ASSUME b \in isCore PROVE Found(uf', b) = Found(uf', p)
      <4>1. b = p \/ b < p
        BY <1>1, <3>1, <3>4 DEF Point
      <4>2. CASE b < p
        <5>1. {b, p} = {p, b}
          OBVIOUS
        <5>2. {b, p} \in near /\ b \in Uniting
          BY <3>1, <3>4, <5>1, TurnFacts DEF Neighbours
        <5>3. Found(uf, b) = Found(uf, p)
          BY <3>1, <3>2, <4>2, <5>2 DEF IInv, MetOK
        <5> QED BY <1>1, <1>12, <3>1, <5>3
      <4> QED BY <4>1, <4>2
    <3> QED BY <1>2, <3>3, <3>4
  <2> QED BY <2>1, <2>2
<1>14. isCore' \subseteq Core /\ isCore' \in {isCore, isCore \cup {p}} /\ inCluster \subseteq inCluster'
  BY <1>1, <1>2 DEF CoresOK
<1>15. Sound(uf', inCluster', isCore') /\ held' \in Seq(Point)
  BY <1>1, <1>2, <1>7
<1> QED BY <1>5, <1>12, <1>13, <1>14, <1>15, TurnKeeps

\* A turn of the general loop.
LEMMA VisitCandidateOK == IInv /\ VisitCandidate => IInv' /\ Kept
<1> SUFFICES ASSUME IInv, VisitCandidate PROVE IInv' /\ Kept
  OBVIOUS
<1>1. PICK q \in todo : /\ todo' = todo \ {q}
                        /\ IF ~Skipped(q) /\ {p, q} \in near
                           THEN Neighbour(q)
                           ELSE uf' = Looked(q) /\ UNCHANGED <<inCluster, isCore, held>>
  BY DEF VisitCandidate
<1>2. Turn(q)
  BY <1>1 DEF VisitCandidate, Turn, input
<1>3. CASE Skipped(q) \/ {p, q} \notin near
  <2>1. uf' = Looked(q) /\ UNCHANGED <<inCluster, isCore, held>>
    BY <1>1, <1>3
  <2> QED BY <1>2, <1>3, <2>1, LookOK
<1>4. CASE ~Skipped(q) /\ {p, q} \in near
  <2>1. Neighbour(q)
    BY <1>1, <1>4
  <2>2. Len(held) \in Nat /\ minPoints \in Nat
    BY <1>2, TurnFacts
  <2>3. Len(held) + 1 < minPoints \/ Len(held) + 1 = minPoints \/ Len(held) >= minPoints
    BY <2>2
  <2> QED BY <1>2, <1>4, <2>1, <2>3, AsideOK, MakesCoreOK, JoinsOK
<1> QED BY <1>3, <1>4

\* The end.
LEMMA FinishOK == IInv /\ Finish => IInv' /\ Kept
<1> SUFFICES ASSUME IInv, Finish PROVE IInv' /\ Kept
  OBVIOUS
<1>1. /\ near' = near /\ boxes' = boxes /\ empty' = empty /\ null' = null /\ minPoints' = minPoints
      /\ uf' = uf /\ inCluster' = inCluster /\ isCore' = isCore /\ p' = p /\ todo' = todo /\ held' = held
  BY DEF Finish, input
<1>2. TooFew \/ (todo = {} /\ p = N - 1)
  BY DEF Finish
<1>3. ids' = [i \in Point |-> IF i \in inCluster \ null
                                THEN UF_get_collapsed_cluster_ids(uf, inCluster)[i] ELSE None]
  BY DEF Finish
<1>4. Neighbours(p)' = Neighbours(p) /\ Core' = Core /\ TooFew' = TooFew /\ Uniting' = Uniting
  BY <1>1 DEF Neighbours, Core, TooFew, Uniting
<1>5. GivenOK' /\ Shape'
  BY <1>1, <1>4 DEF IInv, GivenOK, Shape
<1>6. HeldOK' = HeldOK
  BY <1>1, <1>4 DEF HeldOK
<1>7. CoresOK' = CoresOK
  BY <1>1, <1>4 DEF CoresOK
<1>8. Sound(uf, inCluster, Uniting)'
  BY <1>1, <1>4 DEF IInv, Sound, ChainsJoin, BordersJoin, OthersAlone, Leads, ClosedIn
<1>9. MetOK'
  BY <1>1, <1>4 DEF IInv, MetOK, Neighbours
<1>10. IdsOK'
  BY <1>1, <1>2, <1>3, <1>4 DEF IdsOK
<1> QED BY <1>1, <1>5, <1>6, <1>7, <1>8, <1>9, <1>10 DEF IInv, Kept

\* Every step keeps the invariant, and takes no point out of its set.
LEMMA NextOK == IInv /\ [Next]_vars => IInv' /\ Kept
<1> SUFFICES ASSUME IInv, [Next]_vars PROVE IInv' /\ Kept
  OBVIOUS
<1>1. CASE UNCHANGED vars
  <2>1. /\ near' = near /\ boxes' = boxes /\ empty' = empty /\ null' = null /\ minPoints' = minPoints
        /\ uf' = uf /\ inCluster' = inCluster /\ isCore' = isCore /\ p' = p /\ todo' = todo /\ held' = held
        /\ ids' = ids
    BY <1>1 DEF vars, input
  <2>2. Neighbours(p)' = Neighbours(p) /\ Core' = Core /\ TooFew' = TooFew /\ Uniting' = Uniting /\ Done' = Done
    BY <2>1 DEF Neighbours, Core, TooFew, Uniting, Done
  <2>3. GivenOK' /\ Shape'
    BY <2>1, <2>2 DEF IInv, GivenOK, Shape
  <2>4. HeldOK' = HeldOK /\ CoresOK' = CoresOK
    BY <2>1, <2>2 DEF HeldOK, CoresOK
  <2>5. Sound(uf, inCluster, Uniting)'
    BY <2>1, <2>2 DEF IInv, Sound, ChainsJoin, BordersJoin, OthersAlone, Leads, ClosedIn
  <2>6. MetOK'
    BY <2>1, <2>2 DEF IInv, MetOK, Neighbours
  <2>7. IdsOK'
    BY <2>1, <2>2 DEF IInv, IdsOK
  <2> QED BY <2>1, <2>3, <2>4, <2>5, <2>6, <2>7 DEF IInv, Kept
<1> QED BY <1>1, AdvanceOK, UniteNearOK, VisitCandidateOK, FinishOK DEF Next

\* The invariant holds in every state.
LEMMA AlwaysIInv == Spec => []IInv
<1>1. Init => IInv
  BY InitOK
<1>2. IInv /\ [Next]_vars => IInv'
  BY NextOK
<1> QED BY <1>1, <1>2, PTL DEF Spec

-----------------------------------------------------------------------------
(* What follows for the union-find.                                            *)

\* The set of an element.
LEMMA SetOfMembers ==
  ASSUME NEW E, NEW u \in Arrays(E), NEW i
  PROVE  DOMAIN u.clusters = E /\ SetOf(u, i) = Members(E, u, Found(u, i))
BY DEF Arrays, SetOf, Members

\* Between any two steps the arrays of the union-find are one partition: sizes count the
\* sets at their roots, num_clusters the sets (src/liblwgeom/lwunionfind.c).
THEOREM PartitionCorrect == Spec => []PartitionCounted
<1>1. IInv => PartitionCounted
  <2> SUFFICES ASSUME IInv PROVE PartitionCounted
    OBVIOUS
  <2>1. Partition(Point, uf) /\ uf \in Trees(Point) /\ uf \in Arrays(Point) /\ IsFiniteSet(Point)
    BY FinitePoints DEF IInv, Shape, Partition, Trees
  <2> DEFINE roots == {i \in Point : uf.clusters[i] = i}
  <2>2. roots = Roots(Point, uf)
    BY <2>1, RootIsFound DEF Roots
  <2>3. \A i \in Point : Found(uf, i) \in roots
    BY <2>1, FoundRoot
  <2>4. \A i \in roots : SetOf(uf, i) = Members(Point, uf, i)
    <3>1. \A i \in roots : Found(uf, i) = i
      BY <2>2 DEF Roots
    <3> QED BY <2>1, <3>1, SetOfMembers
  <2> HIDE DEF roots
  <2>5. \A i \in Point : uf.sizes[i] = IF i \in roots THEN Cardinality(SetOf(uf, i)) ELSE 0
    <3> SUFFICES ASSUME NEW i \in Point
                 PROVE  uf.sizes[i] = IF i \in roots THEN Cardinality(SetOf(uf, i)) ELSE 0
      OBVIOUS
    <3>1. uf.sizes[i] = IF i \in Roots(Point, uf) THEN Cardinality(Members(Point, uf, i)) ELSE 0
      BY <2>1 DEF Partition, Counted
    <3> QED BY <2>2, <2>4, <3>1
  <2>6. uf.num = Cardinality(roots)
    BY <2>1, <2>2 DEF Partition, Counted
  <2> QED BY <2>3, <2>5, <2>6 DEF PartitionCounted, roots
<1> QED BY <1>1, AlwaysIInv, PTL

\* A cluster never loses a point it was given (union_dbscan of
\* src/liblwgeom/lwgeom_geos_cluster.c).
THEOREM OnlyGrow == Spec => ClustersOnlyGrow
<1>1. IInv /\ IInv' /\ [Next]_vars => \A S \in Sets(uf) : \E T \in Sets(uf') : S \subseteq T
  <2> SUFFICES ASSUME IInv, IInv', [Next]_vars, NEW S \in Sets(uf)
               PROVE  \E T \in Sets(uf') : S \subseteq T
    OBVIOUS
  <2>1. Kept
    BY NextOK
  <2>2. uf \in Trees(Point) /\ uf \in Arrays(Point) /\ uf' \in Trees(Point) /\ uf' \in Arrays(Point) /\ IsFiniteSet(Point)
    BY FinitePoints DEF IInv, Shape, Partition, Trees
  <2>3. PICK i \in Point : uf.clusters[i] = i /\ S = SetOf(uf, i)
    BY <2>2, SetOfMembers DEF Sets
  <2>4. Found(uf, i) = i /\ S = Members(Point, uf, i)
    BY <2>2, <2>3, FoundOfRoot, SetOfMembers
  <2> DEFINE r == Found(uf', i)
             T == SetOf(uf', r)
  <2>5. r \in Point /\ uf'.clusters[r] = r /\ Found(uf', r) = r
    BY <2>2, FoundRoot, FoundOfRoot
  <2>6. T \in Sets(uf')
    BY <2>2, <2>5, SetOfMembers DEF Sets
  <2>7. T = Members(Point, uf', r)
    BY <2>2, <2>5, SetOfMembers
  <2>8. S \subseteq T
    BY <2>1, <2>4, <2>7 DEF Members, Kept
  <2> QED BY <2>6, <2>8
<1> QED BY <1>1, AlwaysIInv, PTL DEF Spec, ClustersOnlyGrow

-----------------------------------------------------------------------------
(* The ids: the sets in clusters are numbered in the order of their roots.     *)

\* The elements that come before i in the order of the roots.
Prior(E, u, i) ==
  {j \in E : Found(u, j) < Found(u, i) \/ (Found(u, j) = Found(u, i) /\ j < i)}

\* The order is total: of two elements the one that comes first has the fewer before it.
LEMMA PriorOrders ==
  ASSUME NEW E \in SUBSET Nat, IsFiniteSet(E), NEW u \in Trees(E), NEW i \in E, NEW j \in E
  PROVE  /\ Cardinality(Prior(E, u, i)) \in Nat /\ Cardinality(Prior(E, u, i)) < Cardinality(E)
         /\ i # j => i \in Prior(E, u, j) \/ j \in Prior(E, u, i)
         /\ i \in Prior(E, u, j) => Cardinality(Prior(E, u, i)) < Cardinality(Prior(E, u, j))
<1> DEFINE A == Prior(E, u, i)
           B == Prior(E, u, j)
<1>1. \A k \in E : Found(u, k) \in E /\ Found(u, k) \in Nat /\ k \in Nat
  BY FoundRoot
<1>2. A \in SUBSET E /\ B \in SUBSET E /\ i \notin A
  BY <1>1 DEF Prior
<1>3. IsFiniteSet(A) /\ IsFiniteSet(B)
  <2> HIDE DEF A, B
  <2> QED BY <1>2, FS_Subset
<1>4. i # j => i \in B \/ j \in A
  BY <1>1 DEF Prior
<1>5. i \in B => A \cup {i} \subseteq B
  <2>1. SUFFICES ASSUME i \in B, NEW k \in A PROVE k \in B
    OBVIOUS
  <2>2. k \in E /\ (Found(u, k) < Found(u, i) \/ (Found(u, k) = Found(u, i) /\ k < i))
    BY <2>1 DEF Prior
  <2>3. Found(u, i) < Found(u, j) \/ (Found(u, i) = Found(u, j) /\ i < j)
    BY <2>1 DEF Prior
  <2>4. /\ Found(u, k) \in Nat /\ Found(u, i) \in Nat /\ Found(u, j) \in Nat
        /\ k \in Nat /\ i \in Nat /\ j \in Nat
    BY <1>1, <2>2
  <2>5. Found(u, k) < Found(u, j) \/ (Found(u, k) = Found(u, j) /\ k < j)
    BY <2>2, <2>3, <2>4
  <2> QED BY <2>2, <2>5 DEF Prior
<1> HIDE DEF A, B
<1>6. /\ Cardinality(A) \in Nat /\ Cardinality(B) \in Nat /\ Cardinality(E) \in Nat
      /\ Cardinality(A \cup {i}) = Cardinality(A) + 1 /\ IsFiniteSet(A \cup {i})
  BY <1>2, <1>3, FS_CardinalityType, FS_AddElement
<1>7. i \in B => Cardinality(A \cup {i}) <= Cardinality(B)
  BY <1>3, <1>5, FS_Subset
<1>8. Cardinality(A \cup {i}) <= Cardinality(E)
  <2>1. A \cup {i} \in SUBSET E
    BY <1>2
  <2> QED BY <2>1, FS_Subset
<1>9. Cardinality(A) < Cardinality(E) /\ (i \in B => Cardinality(A) < Cardinality(B))
  BY <1>6, <1>7, <1>8
<1> QED BY <1>4, <1>6, <1>9 DEF A, B

\* UF_ordered_by_cluster has every element once, those with smaller roots first.
LEMMA Ordered ==
  ASSUME NEW E \in SUBSET Nat, IsFiniteSet(E), NEW u \in Trees(E), NEW n, n = Cardinality(E),
         NEW order, order = UF_ordered_by_cluster(u)
  PROVE  /\ n \in Nat /\ order \in [1..n -> E]
         /\ \A i \in E : \E k \in 1..n : order[k] = i
         /\ \A k, l \in 1..n : order[k] = order[l] => k = l
         /\ \A k, l \in 1..n : k <= l => Found(u, order[k]) <= Found(u, order[l])
<1>1. n \in Nat /\ DOMAIN u.clusters = E
  BY FS_CardinalityType DEF Trees, Arrays
<1> DEFINE rank == [i \in E |-> Cardinality(Prior(E, u, i)) + 1]
<1>2. ASSUME NEW i \in E PROVE rank[i] \in 1..n /\ Cardinality(Prior(E, u, i)) = rank[i] - 1
  <2>1. Cardinality(Prior(E, u, i)) \in Nat /\ Cardinality(Prior(E, u, i)) < n
    BY PriorOrders
  <2> QED BY <1>1, <2>1
<1>3. ASSUME NEW i \in E, NEW j \in E, rank[i] = rank[j] PROVE i = j
  <2>1. Cardinality(Prior(E, u, i)) = Cardinality(Prior(E, u, j))
    BY <1>2, <1>3
  <2>2. Cardinality(Prior(E, u, i)) \in Nat
    BY PriorOrders
  <2> QED BY <2>1, <2>2, PriorOrders
<1>4. rank \in Injection(E, 1..n)
  BY <1>2, <1>3 DEF Injection, IsInjective
<1>5. rank \in Surjection(E, 1..n)
  <2> HIDE DEF rank
  <2>1. IsFiniteSet(1..n) /\ Cardinality(1..n) = n
    BY <1>1, FS_Interval
  <2> QED BY <1>4, <2>1, FS_Injection
<1>6. order = [k \in 1..n |-> CHOOSE i \in E : Cardinality(Prior(E, u, i)) = k - 1]
  BY <1>1 DEF UF_ordered_by_cluster, Prior
<1>7. ASSUME NEW k \in 1..n PROVE order[k] \in E /\ rank[order[k]] = k
  <2>1. PICK i \in E : rank[i] = k
    BY <1>5 DEF Surjection
  <2>2. \E x \in E : Cardinality(Prior(E, u, x)) = k - 1
    BY <1>2, <2>1
  <2>3. order[k] \in E /\ Cardinality(Prior(E, u, order[k])) = k - 1
    BY <1>6, <2>2
  <2> QED BY <1>2, <2>3
<1>8. order \in [1..n -> E]
  BY <1>6, <1>7
<1>9. ASSUME NEW i \in E PROVE \E k \in 1..n : order[k] = i
  <2>1. rank[i] \in 1..n
    BY <1>2
  <2>2. order[rank[i]] \in E /\ rank[order[rank[i]]] = rank[i]
    <3> HIDE DEF rank
    <3> QED BY <1>7, <2>1
  <2>3. order[rank[i]] = i
    BY <1>3, <2>2
  <2> QED BY <2>1, <2>3
<1>10. ASSUME NEW k \in 1..n, NEW l \in 1..n, k <= l PROVE Found(u, order[k]) <= Found(u, order[l])
  <2> DEFINE i == order[k]
             j == order[l]
  <2>1. i \in E /\ j \in E /\ rank[i] = k /\ rank[j] = l
    BY <1>7
  <2> HIDE DEF i, j
  <2>2. Found(u, i) \in Nat /\ Found(u, j) \in Nat
    BY <2>1, FoundRoot
  <2>3. SUFFICES ASSUME Found(u, j) < Found(u, i) PROVE FALSE
    BY <2>2 DEF i, j
  <2>4. j \in Prior(E, u, i)
    BY <2>1, <2>3 DEF Prior
  <2>5. Cardinality(Prior(E, u, j)) < Cardinality(Prior(E, u, i))
    BY <2>1, <2>4, PriorOrders
  <2>6. Cardinality(Prior(E, u, i)) = k - 1 /\ Cardinality(Prior(E, u, j)) = l - 1
    BY <1>2, <2>1
  <2> QED BY <1>1, <1>10, <2>5, <2>6
<1> HIDE DEF rank
<1>11. \A k, l \in 1..n : order[k] = order[l] => k = l
  BY <1>7
<1> QED BY <1>1, <1>8, <1>9, <1>10, <1>11

\* The roots of the sets in clusters, and those below that of i.
InRoots(u, in) == {Found(u, i) : i \in in}
Below(u, in, i) == {r \in InRoots(u, in) : r < Found(u, i)}

\* The roots met in the first k turns of the walk.
Walked(u, in, order, k) == {r \in InRoots(u, in) : \E m \in 1..k : order[m] \in in /\ Found(u, order[m]) = r}

\* The walk, turn by turn.
Walks(f, n, u, in, order) ==
  f = [k \in 0..n |-> IF k = 0 THEN [id |-> 0, last |-> -1]
                      ELSE IF order[k] \in in THEN Numbered(f[k - 1], Found(u, order[k]))
                      ELSE f[k - 1]]

\* There is such a walk.
LEMMA WalkExists ==
  ASSUME NEW E \in SUBSET Nat, IsFiniteSet(E), NEW u \in Trees(E), NEW in, NEW n \in Nat, NEW order \in [1..n -> E]
  PROVE  \E f : Walks(f, n, u, in, order)
<1> DEFINE X == [id : Nat, last : Int]
           base == [id |-> 0, last |-> -1]
           G == [x \in X \X (1..n) |-> IF order[x[2]] \in in THEN Numbered(x[1], Found(u, order[x[2]])) ELSE x[1]]
<1>1. base \in X
  OBVIOUS
<1>2. ASSUME NEW x \in X, NEW k \in 1..n PROVE Numbered(x, Found(u, order[k])) \in X
  <2>1. Found(u, order[k]) \in Int
    <3>1. order[k] \in E
      OBVIOUS
    <3>2. Found(u, order[k]) \in E
      BY <3>1, FoundRoot
    <3>3. E \subseteq Int
      OBVIOUS
    <3> QED BY <3>2, <3>3
  <2> QED BY <2>1 DEF Numbered
<1>3. G \in [X \X (1..n) -> X]
  BY <1>2
<1>4. ASSUME NEW x \in X, NEW k \in 1..n
      PROVE  G[<<x, k>>] = IF order[k] \in in THEN Numbered(x, Found(u, order[k])) ELSE x
  OBVIOUS
<1> HIDE DEF X, base, G
<1>5. PICK f \in [0..n -> X] : Iterates(f, n, base, G)
  BY <1>1, <1>3, Recursion
<1>6. ASSUME NEW k \in 1..n
      PROVE  f[k] = IF order[k] \in in THEN Numbered(f[k - 1], Found(u, order[k])) ELSE f[k - 1]
  <2>1. k - 1 \in 0..n /\ f[k - 1] \in X
    BY <1>5
  <2> QED BY <1>4, <1>5, <2>1 DEF Iterates
<1>7. Walks(f, n, u, in, order)
  BY <1>5, <1>6 DEF Iterates, Walks, base
<1> QED BY <1>7

\* Until a root is met the id is 0; then last is the greatest of the roots met, and the id
\* one less than their number.
Reached(x, M) ==
  \/ M = {} /\ x = [id |-> 0, last |-> -1]
  \/ x.last \in M /\ (\A r \in M : r <= x.last) /\ x.id \in Nat /\ Cardinality(M) = x.id + 1

LEMMA WalkReaches ==
  ASSUME NEW E \in SUBSET Nat, IsFiniteSet(E), NEW u \in Trees(E), NEW in \in SUBSET E, NEW n, n = Cardinality(E),
         NEW order, order = UF_ordered_by_cluster(u), NEW f, Walks(f, n, u, in, order), NEW k \in 0..n
  PROVE  Reached(f[k], Walked(u, in, order, k))
<1>1. /\ n \in Nat /\ order \in [1..n -> E]
      /\ \A i, l \in 1..n : i <= l => Found(u, order[i]) <= Found(u, order[l])
  BY Ordered
<1>2. IsFiniteSet(InRoots(u, in)) /\ InRoots(u, in) \subseteq E /\ InRoots(u, in) \subseteq Nat
  <2>1. InRoots(u, in) \in SUBSET E
    BY FoundRoot DEF InRoots
  <2> QED BY <2>1, FS_Subset
<1> DEFINE W(m) == Walked(u, in, order, m)
           S == {m \in 0..n : Reached(f[m], W(m))}
<1>3. 0 \in S
  <2>1. W(0) = {} /\ 0 \in 0..n /\ f[0] = [id |-> 0, last |-> -1]
    BY <1>1 DEF Walked, Walks
  <2> QED BY <2>1 DEF Reached
<1>4. ASSUME NEW m \in 0..n, m < n, m \in S PROVE m + 1 \in S
  <2> DEFINE i == order[m + 1]
             r == Found(u, i)
             x == f[m]
             y == f[m + 1]
             M == W(m)
  <2>1. m + 1 \in 1..n /\ m + 1 \in 0..n /\ (m + 1) - 1 = m /\ i \in E /\ m \in Nat
    BY <1>1, <1>4
  <2>2. y = IF i \in in THEN Numbered(x, r) ELSE x
    BY <2>1 DEF Walks
  <2>3. \A l \in 1..m+1 : l \in 1..m \/ l = m + 1
    BY <2>1
  <2>4. 1..m \subseteq 1..m+1 /\ m + 1 \in 1..m+1
    BY <2>1
  <2>5. Reached(x, M)
    BY <1>4
  <2>6. CASE i \notin in
    <3>1. W(m + 1) = M
      BY <2>3, <2>4, <2>6 DEF Walked
    <3> QED BY <2>1, <2>2, <2>5, <2>6, <3>1
  <2>7. CASE i \in in
    <3>1. r \in InRoots(u, in) /\ r \in Nat /\ M \subseteq Nat
      BY <1>2, <2>7 DEF InRoots, Walked
    <3>2. W(m + 1) = M \cup {r}
      BY <2>3, <2>4, <2>7, <3>1 DEF Walked
    <3>3. \A s \in M : s <= r
      <4>1. SUFFICES ASSUME NEW l \in 1..m PROVE Found(u, order[l]) <= r
        BY DEF Walked
      <4>2. l \in 1..n /\ l <= m + 1
        BY <1>1, <2>1
      <4> QED BY <1>1, <2>1, <4>2
    <3>4. IsFiniteSet(M)
      <4>1. M \in SUBSET InRoots(u, in)
        BY DEF Walked
      <4> QED BY <1>2, <4>1, FS_Subset
    <3> HIDE DEF M, W, r, x, y
    <3>5. y = [id |-> IF x.last \in {-1, r} THEN x.id ELSE x.id + 1, last |-> r]
      BY <2>2, <2>7 DEF Numbered
    <3>6. CASE M = {} /\ x = [id |-> 0, last |-> -1]
      <4>1. y = [id |-> 0, last |-> r] /\ W(m + 1) = {r}
        BY <3>2, <3>5, <3>6
      <4>2. Cardinality({r}) = 0 + 1
        BY FS_Singleton
      <4>3. Reached(y, W(m + 1))
        BY <3>1, <4>1, <4>2 DEF Reached
      <4> QED BY <2>1, <4>3 DEF y
    <3>7. CASE x.last \in M /\ (\A s \in M : s <= x.last) /\ x.id \in Nat /\ Cardinality(M) = x.id + 1
      <4>1. CASE x.last = r
        <5>1. y.id = x.id /\ y.last = r /\ W(m + 1) = M
          BY <3>2, <3>5, <3>7, <4>1
        <5>2. Reached(y, W(m + 1))
          BY <3>7, <4>1, <5>1 DEF Reached
        <5> QED BY <2>1, <5>2 DEF y
      <4>2. CASE x.last # r
        <5>1. x.last \in Nat /\ x.last <= r
          BY <3>1, <3>3, <3>7
        <5>2. x.last # -1 /\ x.last < r
          BY <3>1, <4>2, <5>1
        <5>3. y.id = x.id + 1 /\ y.last = r
          BY <3>5, <4>2, <5>2
        <5>4. r \notin M
          <6>1. SUFFICES ASSUME r \in M PROVE FALSE
            OBVIOUS
          <6>2. r <= x.last
            BY <3>7, <6>1
          <6> QED BY <3>1, <5>1, <5>2, <6>2
        <5>5. Cardinality(M \cup {r}) = x.id + 1 + 1
          BY <3>4, <3>7, <5>4, FS_AddElement
        <5>6. r \in M \cup {r} /\ \A s \in M \cup {r} : s <= r
          BY <3>1, <3>3
        <5>7. Reached(y, M \cup {r})
          BY <3>7, <5>3, <5>5, <5>6 DEF Reached
        <5> QED BY <2>1, <3>2, <5>7 DEF y
      <4> QED BY <4>1, <4>2
    <3> QED BY <2>5, <3>6, <3>7 DEF Reached
  <2> QED BY <2>6, <2>7
<1>5. 0..n \subseteq S
  <2> HIDE DEF S
  <2> QED BY <1>1, <1>3, <1>4, UpTo
<1> QED BY <1>5

\* The id of an element is the number of sets in clusters whose roots are smaller.
LEMMA CollapsedIds ==
  ASSUME NEW E \in SUBSET Nat, IsFiniteSet(E), NEW u \in Trees(E), NEW in \in SUBSET E, NEW i \in in
  PROVE  UF_get_collapsed_cluster_ids(u, in)[i] = Cardinality(Below(u, in, i))
<1> DEFINE n == Cardinality(E)
           order == UF_ordered_by_cluster(u)
           walk == CHOOSE f : f = [k \in 0..n |-> IF k = 0 THEN [id |-> 0, last |-> -1]
                                     ELSE IF order[k] \in in THEN Numbered(f[k - 1], Found(u, order[k]))
                                     ELSE f[k - 1]]
           at == CHOOSE k \in 1..n : order[k] = i
<1>1. /\ n \in Nat /\ order \in [1..n -> E]
      /\ \A j \in E : \E k \in 1..n : order[k] = j
      /\ \A k, l \in 1..n : k <= l => Found(u, order[k]) <= Found(u, order[l])
  <2> HIDE DEF order
  <2>1. order = UF_ordered_by_cluster(u)
    BY DEF order
  <2> QED BY <2>1, Ordered
<1>2. UF_get_collapsed_cluster_ids(u, in)[i] = walk[at].id
  <2>1. DOMAIN u.clusters = E
    BY DEF Trees, Arrays
  <2> HIDE DEF order
  <2> QED BY <2>1 DEF UF_get_collapsed_cluster_ids, order
<1> HIDE DEF order
<1>3. Walks(walk, n, u, in, order)
  <2>1. \E f : Walks(f, n, u, in, order)
    BY <1>1, WalkExists
  <2>2. \E f : f = [k \in 0..n |-> IF k = 0 THEN [id |-> 0, last |-> -1]
                                   ELSE IF order[k] \in in THEN Numbered(f[k - 1], Found(u, order[k]))
                                   ELSE f[k - 1]]
    BY <2>1 DEF Walks
  <2> HIDE DEF n
  <2>3. walk = [k \in 0..n |-> IF k = 0 THEN [id |-> 0, last |-> -1]
                               ELSE IF order[k] \in in THEN Numbered(walk[k - 1], Found(u, order[k]))
                               ELSE walk[k - 1]]
    BY <2>2, Zenon
  <2> HIDE DEF walk
  <2> QED BY <2>3 DEF Walks
<1>4. at \in 1..n /\ order[at] = i
  <2>1. \E k \in 1..n : order[k] = i
    BY <1>1
  <2> HIDE DEF n
  <2> QED BY <2>1
<1> HIDE DEF walk, at
<1> DEFINE M == Walked(u, in, order, at)
           r == Found(u, i)
           x == walk[at]
<1>5. Reached(x, M)
  <2>1. at \in 0..n /\ order = UF_ordered_by_cluster(u)
    BY <1>1, <1>4 DEF order
  <2> QED BY <1>3, <2>1, WalkReaches
<1>6. \A k \in in : Found(u, k) \in Nat /\ k \in E
  BY FoundRoot
<1>7. r \in M
  <2>1. r \in InRoots(u, in) /\ at \in 1..at
    BY <1>1, <1>4 DEF InRoots
  <2> QED BY <1>4, <2>1 DEF Walked
<1>8. ASSUME NEW s \in M PROVE s <= r /\ s \in Nat
  <2>1. PICK m \in 1..at : order[m] \in in /\ Found(u, order[m]) = s
    BY DEF Walked
  <2>2. m \in 1..n /\ m <= at
    BY <1>1, <1>4, <2>1
  <2> QED BY <1>1, <1>4, <1>6, <2>1, <2>2
<1>9. ASSUME NEW s \in InRoots(u, in), s < r PROVE s \in M
  <2>1. PICK j \in in : s = Found(u, j)
    BY DEF InRoots
  <2>2. PICK m \in 1..n : order[m] = j
    BY <1>1, <1>6, <2>1
  <2>3. m <= at
    <3>1. SUFFICES ASSUME at <= m PROVE FALSE
      BY <1>1, <1>4
    <3>2. r <= s
      BY <1>1, <1>4, <2>1, <2>2, <3>1
    <3> QED BY <1>6, <1>9, <2>1, <3>2
  <2>4. m \in 1..at
    BY <1>1, <1>4, <2>3
  <2> QED BY <1>9, <2>1, <2>2, <2>4 DEF Walked
<1>10. r \in Nat
  BY <1>6
<1>11. M \ {r} = Below(u, in, i)
  <2>1. \A s \in M : s # r => s < r
    BY <1>8, <1>10
  <2>2. \A s \in Below(u, in, i) : s \in M /\ s # r
    BY <1>9, <1>10 DEF Below
  <2>3. \A s \in M : s \in InRoots(u, in)
    BY DEF Walked
  <2> HIDE DEF M
  <2> QED BY <2>1, <2>2, <2>3 DEF Below
<1>12. IsFiniteSet(M)
  <2>1. M \in SUBSET E
    <3>1. \A k \in in : Found(u, k) \in E
      BY FoundRoot
    <3> QED BY <3>1 DEF Walked, InRoots
  <2> HIDE DEF M
  <2> QED BY <2>1, FS_Subset
<1> HIDE DEF M, x
<1>13. x.id \in Nat /\ Cardinality(M) = x.id + 1
  BY <1>5, <1>7 DEF Reached
<1>14. Cardinality(M \ {r}) = x.id
  <2>1. Cardinality(M \ {r}) = Cardinality(M) - 1
    BY <1>7, <1>12, FS_RemoveElement
  <2> QED BY <1>13, <2>1
<1> QED BY <1>2, <1>11, <1>14 DEF x

\* These ids are different for different sets, and all the numbers below that of the sets.
LEMMA IdsOfSets ==
  ASSUME NEW E \in SUBSET Nat, IsFiniteSet(E), NEW u \in Trees(E), NEW in \in SUBSET E,
         NEW n, n = Cardinality(InRoots(u, in))
  PROVE  /\ n \in Nat /\ n <= Cardinality(E)
         /\ \A i \in in : Cardinality(Below(u, in, i)) \in 0..n-1
         /\ \A i, j \in in : Cardinality(Below(u, in, i)) = Cardinality(Below(u, in, j)) <=> Found(u, i) = Found(u, j)
         /\ \A k \in 0..n-1 : \E i \in in : Cardinality(Below(u, in, i)) = k
<1> DEFINE R == InRoots(u, in)
           B(i) == Below(u, in, i)
<1>0. R \in SUBSET E /\ \A i \in in : Found(u, i) \in R /\ Found(u, i) \in Nat
  BY FoundRoot DEF InRoots
<1>1. IsFiniteSet(R) /\ n \in Nat /\ n <= Cardinality(E)
  <2>1. n = Cardinality(R)
    OBVIOUS
  <2> HIDE DEF R
  <2> QED BY <1>0, <2>1, FS_Subset, FS_CardinalityType
<1>2. \A i \in in : B(i) \in SUBSET R /\ Found(u, i) \notin B(i)
  BY <1>0 DEF Below
<1>3. ASSUME NEW i \in in PROVE IsFiniteSet(B(i)) /\ Cardinality(B(i)) \in 0..n-1
  <2> DEFINE b == B(i)
  <2>1. b \in SUBSET R /\ b \in SUBSET (R \ {Found(u, i)}) /\ Found(u, i) \in R
    BY <1>0, <1>2
  <2> HIDE DEF b, R
  <2>2. IsFiniteSet(b) /\ Cardinality(b) \in Nat
    BY <1>1, <2>1, FS_Subset, FS_CardinalityType
  <2>3. IsFiniteSet(R \ {Found(u, i)}) /\ Cardinality(R \ {Found(u, i)}) = n - 1
    BY <1>1, <2>1, FS_RemoveElement DEF R
  <2>4. Cardinality(b) <= n - 1
    BY <2>1, <2>3, FS_Subset
  <2> QED BY <1>1, <2>2, <2>4 DEF b
<1>4. ASSUME NEW i \in in, NEW j \in in, Found(u, i) < Found(u, j) PROVE Cardinality(B(i)) < Cardinality(B(j))
  <2> DEFINE b == B(i)
             c == B(j)
             r == Found(u, i)
  <2>1. IsFiniteSet(b) /\ IsFiniteSet(c) /\ Cardinality(b) \in Nat /\ Cardinality(c) \in Nat
    BY <1>3, FS_CardinalityType
  <2>2. r \notin b /\ b \cup {r} \subseteq c
    <3>1. ASSUME NEW s \in R, s < Found(u, i) PROVE s < Found(u, j)
      <4>1. s \in Nat /\ Found(u, i) \in Nat /\ Found(u, j) \in Nat
        BY <1>0
      <4> QED BY <1>4, <3>1, <4>1
    <3> QED BY <1>0, <1>4, <3>1 DEF Below
  <2> HIDE DEF b, c, r
  <2>3. IsFiniteSet(b \cup {r}) /\ Cardinality(b \cup {r}) = Cardinality(b) + 1
    BY <2>1, <2>2, FS_AddElement
  <2>4. Cardinality(b \cup {r}) <= Cardinality(c)
    BY <2>1, <2>2, FS_Subset
  <2>5. Cardinality(b) < Cardinality(c)
    BY <2>1, <2>3, <2>4
  <2> QED BY <2>5 DEF b, c
<1>5. ASSUME NEW i \in in, NEW j \in in
      PROVE  Cardinality(B(i)) = Cardinality(B(j)) <=> Found(u, i) = Found(u, j)
  <2>1. Cardinality(B(i)) \in Int /\ Cardinality(B(j)) \in Int /\ Found(u, i) \in Nat /\ Found(u, j) \in Nat
    BY <1>0, <1>3
  <2>2. CASE Found(u, i) = Found(u, j)
    BY <2>2 DEF Below
  <2>3. CASE Found(u, i) < Found(u, j) \/ Found(u, j) < Found(u, i)
    <3> HIDE DEF B
    <3> QED BY <1>4, <2>1, <2>3
  <2> QED BY <2>1, <2>2, <2>3
<1> DEFINE of(r) == CHOOSE i \in in : Found(u, i) = r
           f == [r \in R |-> Cardinality(B(of(r)))]
<1>6. ASSUME NEW r \in R PROVE of(r) \in in /\ Found(u, of(r)) = r
  <2>1. \E i \in in : Found(u, i) = r
    BY DEF InRoots
  <2> QED BY <2>1
<1>7. f \in Injection(R, 0..n-1)
  <2>1. \A r \in R : f[r] \in 0..n-1
    <3> HIDE DEF B, of
    <3> QED BY <1>3, <1>6
  <2>2. \A r, s \in R : f[r] = f[s] => r = s
    <3> HIDE DEF B, of
    <3> QED BY <1>5, <1>6
  <2>3. f \in [R -> 0..n-1]
    <3> HIDE DEF B, of, R
    <3> QED BY <2>1
  <2> QED BY <2>2, <2>3 DEF Injection, IsInjective
<1>8. f \in Surjection(R, 0..n-1)
  <2> HIDE DEF f
  <2>1. IsFiniteSet(0..n-1) /\ Cardinality(0..n-1) = n
    <3>1. n - 1 \in Int /\ (0 > n - 1 <=> n = 0) /\ (n - 1) - 0 + 1 = n
      BY <1>1
    <3> QED BY <1>1, <3>1, FS_Interval
  <2>2. Cardinality(R) = n
    OBVIOUS
  <2> HIDE DEF R
  <2> QED BY <1>1, <1>7, <2>1, <2>2, FS_Injection
<1>9. ASSUME NEW k \in 0..n-1 PROVE \E i \in in : Cardinality(B(i)) = k
  <2>1. PICK r \in R : f[r] = k
    <3> HIDE DEF f
    <3> QED BY <1>8 DEF Surjection
  <2>2. Cardinality(B(of(r))) = k
    BY <2>1
  <2> HIDE DEF of, B
  <2> QED BY <1>6, <2>2
<1> QED BY <1>1, <1>3, <1>5, <1>9

-----------------------------------------------------------------------------
(* What follows for the result.                                                *)

\* The ids that are handed out at the end.
LEMMA DoneIds ==
  ASSUME IInv, Done, NEW n, n = Cardinality(InRoots(uf, inCluster))
  PROVE  /\ uf \in Trees(Point) /\ inCluster \in SUBSET Point /\ n \in Nat /\ n <= N
         /\ DOMAIN ids = Point
         /\ \A i \in Point \ (inCluster \ null) : ids[i] = None
         /\ \A i \in inCluster \ null : ids[i] \in 0..n-1
         /\ \A i, j \in inCluster \ null : ids[i] = ids[j] <=> Found(uf, i) = Found(uf, j)
         /\ null = {} => \A k \in 0..n-1 : \E i \in inCluster : ids[i] = k
<1>1. /\ uf \in Trees(Point) /\ inCluster \in SUBSET Point /\ IsFiniteSet(Point) /\ Point \in SUBSET Nat
      /\ Cardinality(Point) = N
  BY FinitePoints DEF IInv, Shape, Partition, Point
<1>2. ids = [i \in Point |-> IF i \in inCluster \ null
                               THEN UF_get_collapsed_cluster_ids(uf, inCluster)[i] ELSE None]
  BY DEF IInv, IdsOK
<1>3. /\ n \in Nat /\ n <= Cardinality(Point)
      /\ \A i \in inCluster : Cardinality(Below(uf, inCluster, i)) \in 0..n-1
      /\ \A i, j \in inCluster : Cardinality(Below(uf, inCluster, i)) = Cardinality(Below(uf, inCluster, j))
                                   <=> Found(uf, i) = Found(uf, j)
      /\ \A k \in 0..n-1 : \E i \in inCluster : Cardinality(Below(uf, inCluster, i)) = k
  BY <1>1, IdsOfSets
<1>4. ASSUME NEW i \in inCluster \ null PROVE ids[i] = Cardinality(Below(uf, inCluster, i))
  <2>1. UF_get_collapsed_cluster_ids(uf, inCluster)[i] = Cardinality(Below(uf, inCluster, i))
    BY <1>1, CollapsedIds
  <2> QED BY <1>1, <1>2, <2>1
<1>5. null = {} => \A k \in 0..n-1 : \E i \in inCluster : ids[i] = k
  <2>1. SUFFICES ASSUME null = {}, NEW k \in 0..n-1 PROVE \E i \in inCluster : ids[i] = k
    OBVIOUS
  <2>2. PICK i \in inCluster : Cardinality(Below(uf, inCluster, i)) = k
    BY <1>3
  <2>3. ids[i] = k
    BY <1>4, <2>1, <2>2
  <2> QED BY <2>3
<1>6. \A i \in Point \ (inCluster \ null) : ids[i] = None
  BY <1>2
<1>7. DOMAIN ids = Point
  BY <1>2
<1>8. \A i \in inCluster \ null : ids[i] \in 0..n-1
  BY <1>3, <1>4
<1>9. \A i, j \in inCluster \ null : ids[i] = ids[j] <=> Found(uf, i) = Found(uf, j)
  BY <1>3, <1>4
<1> QED BY <1>1, <1>3, <1>5, <1>6, <1>7, <1>8, <1>9

\* There are as many sets in clusters as roots of them.
LEMMA SetsOfRoots ==
  ASSUME NEW E, IsFiniteSet(E), NEW u \in Trees(E), NEW in \in SUBSET E,
         NEW sets, sets = {SetOf(u, i) : i \in in}
  PROVE  Cardinality(sets) = Cardinality(InRoots(u, in))
<1> DEFINE R == InRoots(u, in)
           f == [r \in R |-> Members(E, u, r)]
<1>1. u \in Arrays(E) /\ \A r \in R : r \in E /\ Found(u, r) = r
  BY FoundRoot, RootIsFound DEF Trees, InRoots
<1>2. ASSUME NEW i \in in PROVE SetOf(u, i) = Members(E, u, Found(u, i)) /\ Found(u, i) \in R
  BY <1>1, SetOfMembers DEF InRoots
<1>3. \A r \in R : f[r] \in sets
  <2>1. SUFFICES ASSUME NEW i \in in PROVE Members(E, u, Found(u, i)) \in sets
    BY DEF InRoots
  <2> QED BY <1>2
<1>4. \A S \in sets : \E r \in R : f[r] = S
  <2>1. SUFFICES ASSUME NEW i \in in PROVE \E r \in R : f[r] = SetOf(u, i)
    OBVIOUS
  <2>2. f[Found(u, i)] = SetOf(u, i)
    BY <1>2
  <2> HIDE DEF f
  <2> QED BY <1>2, <2>2
<1>5. \A r, s \in R : f[r] = f[s] => r = s
  <2>1. SUFFICES ASSUME NEW r \in R, NEW s \in R, f[r] = f[s] PROVE r = s
    OBVIOUS
  <2>2. r \in Members(E, u, r)
    BY <1>1 DEF Members
  <2>3. r \in Members(E, u, s)
    BY <2>1, <2>2
  <2> QED BY <1>1, <2>3 DEF Members
<1>6. f \in [R -> sets]
  <2>1. DOMAIN f = R /\ f = [r \in R |-> f[r]]
    OBVIOUS
  <2> HIDE DEF f, R
  <2> QED BY <1>3, <2>1
<1>7. f \in Surjection(R, sets) /\ f \in Injection(R, sets)
  <2> HIDE DEF f
  <2> QED BY <1>4, <1>5, <1>6 DEF Surjection, Injection, IsInjective
<1>8. IsFiniteSet(R)
  <2>1. R \in SUBSET E
    BY <1>1
  <2> HIDE DEF R
  <2> QED BY <2>1, FS_Subset
<1> HIDE DEF f, R
<1>9. Cardinality(sets) = Cardinality(R)
  BY <1>7, <1>8, FS_Surjection
<1> QED BY <1>9 DEF R

\* The ids are those of the sets of the union-find, one each, numbered from 0
\* (UF_get_collapsed_cluster_ids of src/liblwgeom/lwunionfind.c and the window functions).
THEOREM IdsCorrect == Spec => []IdsCountTheSets
<1>1. IInv => IdsCountTheSets
  <2> SUFFICES ASSUME IInv, Done
               PROVE  LET sets == {SetOf(uf, i) : i \in inCluster}
                          used == {ids[i] : i \in inCluster \ null}
                      IN  /\ used \subseteq 0..Cardinality(sets) - 1
                          /\ null = {} => used = 0..Cardinality(sets) - 1
                          /\ \A i, j \in inCluster \ null : ids[i] = ids[j] <=> Found(uf, i) = Found(uf, j)
    BY DEF IdsCountTheSets
  <2> DEFINE sets == {SetOf(uf, i) : i \in inCluster}
             used == {ids[i] : i \in inCluster \ null}
             n == Cardinality(InRoots(uf, inCluster))
  <2>1. /\ uf \in Trees(Point) /\ inCluster \in SUBSET Point
        /\ \A i \in inCluster \ null : ids[i] \in 0..n-1
        /\ \A i, j \in inCluster \ null : ids[i] = ids[j] <=> Found(uf, i) = Found(uf, j)
        /\ null = {} => \A k \in 0..n-1 : \E i \in inCluster : ids[i] = k
    BY DoneIds
  <2>2. Cardinality(sets) = n
    BY <2>1, FinitePoints, SetsOfRoots
  <2> HIDE DEF n
  <2>3. used \subseteq 0..n-1
    BY <2>1
  <2>4. null = {} => 0..n-1 \subseteq used
    BY <2>1
  <2> QED BY <2>1, <2>2, <2>3, <2>4
<1> QED BY <1>1, AlwaysIInv, PTL

\* One step from near to near within S.
Spread(S, r) == r \cup {j \in S : \E x \in r : {x, j} \in near}


\* Connected is where such steps lead to: N of them, for after each that adds nothing no
\* other does.
LEMMA ConnectedIsClosed ==
  ASSUME NEW S \in SUBSET Point, NEW i \in S
  PROVE  /\ i \in Connected(S, i) /\ Connected(S, i) \subseteq S /\ ClosedIn(S, Connected(S, i))
         /\ \A X : i \in X /\ ClosedIn(S, X) => Connected(S, i) \subseteq X
<1>0. N \in Nat /\ IsFiniteSet(S) /\ Cardinality(S) <= N /\ Cardinality(S) \in Nat
  BY FinitePoints, FS_Subset, FS_CardinalityType
<1> DEFINE reach == CHOOSE f : f = [k \in 0..N |-> IF k = 0 THEN {i} ELSE Spread(S, f[k - 1])]
           G == [x \in (SUBSET S) \X (1..N) |-> Spread(S, x[1])]
<1>1. G \in [(SUBSET S) \X (1..N) -> SUBSET S] /\ {i} \in SUBSET S
  BY DEF Spread
<1>2. \A x \in SUBSET S, k \in 1..N : G[<<x, k>>] = Spread(S, x)
  OBVIOUS
<1> HIDE DEF G
<1>3. PICK f \in [0..N -> SUBSET S] : Iterates(f, N, {i}, G)
  BY <1>0, <1>1, Recursion
<1>4. ASSUME NEW k \in 1..N PROVE f[k] = Spread(S, f[k - 1])
  <2>1. k - 1 \in 0..N /\ f[k - 1] \in SUBSET S
    BY <1>0, <1>3
  <2> QED BY <1>2, <1>3, <2>1 DEF Iterates
<1>5. f = [k \in 0..N |-> IF k = 0 THEN {i} ELSE Spread(S, f[k - 1])]
  BY <1>3, <1>4 DEF Iterates
<1>6. reach = [k \in 0..N |-> IF k = 0 THEN {i} ELSE Spread(S, reach[k - 1])]
  BY <1>5, Zenon
<1>7. Connected(S, i) = reach[N]
  BY DEF Connected, Spread
<1> HIDE DEF reach
<1>8. reach[0] = {i} /\ \A k \in 0..N : k < N => reach[k + 1] = Spread(S, reach[k])
  <2>1. reach[0] = {i}
    BY <1>0, <1>6
  <2>2. ASSUME NEW k \in 0..N, k < N PROVE reach[k + 1] = Spread(S, reach[k])
    <3>1. k + 1 \in 0..N /\ k + 1 # 0 /\ (k + 1) - 1 = k
      BY <1>0, <2>2
    <3>2. reach[k + 1] = IF k + 1 = 0 THEN {i} ELSE Spread(S, reach[(k + 1) - 1])
      BY <1>6, <3>1
    <3> QED BY <3>1, <3>2
  <2> QED BY <2>1, <2>2
<1> DEFINE A == {k \in 0..N : i \in reach[k] /\ reach[k] \subseteq S}
<1>9. 0..N \subseteq A
  <2>1. 0 \in A
    BY <1>0, <1>8
  <2>2. \A k \in 0..N : k < N /\ k \in A => k + 1 \in A
    BY <1>0, <1>8 DEF Spread
  <2> HIDE DEF A
  <2> QED BY <1>0, <2>1, <2>2, UpTo
<1>10. N \in 0..N /\ i \in reach[N] /\ reach[N] \subseteq S
  BY <1>0, <1>9
<1> DEFINE B == {k \in 0..N : ClosedIn(S, reach[k]) \/ Cardinality(reach[k]) >= k + 1}
<1>11. 0..N \subseteq B
  <2>1. 0 \in B
    <3>1. Cardinality({i}) = 1
      BY FS_Singleton
    <3>2. reach[0] = {i} /\ 0 \in 0..N
      BY <1>0, <1>8
    <3>3. Cardinality(reach[0]) = 1
      BY <3>1, <3>2
    <3>4. Cardinality(reach[0]) >= 0 + 1
      BY <3>3
    <3> QED BY <3>2, <3>4
  <2>2. ASSUME NEW k \in 0..N, k < N, k \in B PROVE k + 1 \in B
    <3> DEFINE r == reach[k]
               s == reach[k + 1]
    <3>1. s = Spread(S, r) /\ k + 1 \in 0..N /\ r \subseteq S /\ k \in Nat /\ s \subseteq S
      BY <1>0, <1>8, <1>9, <2>2
    <3> HIDE DEF r, s
    <3>2. CASE ClosedIn(S, r)
      <4>1. s = r
        BY <3>1, <3>2 DEF Spread, ClosedIn
      <4> QED BY <3>1, <3>2, <4>1 DEF s
    <3>3. CASE ~ClosedIn(S, r)
      <4>1. Cardinality(r) >= k + 1
        BY <2>2, <3>3 DEF r
      <4>2. PICK x \in s : x \notin r
        BY <3>1, <3>3 DEF Spread, ClosedIn
      <4>3. IsFiniteSet(r) /\ IsFiniteSet(s)
        BY <1>0, <3>1, FS_Subset
      <4>4. r \cup {x} \subseteq s /\ IsFiniteSet(r \cup {x}) /\ Cardinality(r \cup {x}) = Cardinality(r) + 1
        BY <3>1, <4>2, <4>3, FS_AddElement DEF Spread
      <4>5. Cardinality(r \cup {x}) <= Cardinality(s)
        BY <4>3, <4>4, FS_Subset
      <4>6. Cardinality(r) \in Nat /\ Cardinality(s) \in Nat
        BY <4>3, FS_CardinalityType
      <4>7. Cardinality(s) >= (k + 1) + 1
        BY <3>1, <4>1, <4>4, <4>5, <4>6
      <4> QED BY <3>1, <4>7 DEF s
    <3> QED BY <3>2, <3>3
  <2> HIDE DEF B
  <2> QED BY <1>0, <2>1, <2>2, UpTo
<1>12. ClosedIn(S, reach[N])
  <2>1. SUFFICES ASSUME Cardinality(reach[N]) >= N + 1 PROVE FALSE
    BY <1>10, <1>11
  <2>2. Cardinality(reach[N]) <= Cardinality(S) /\ Cardinality(reach[N]) \in Nat
    BY <1>0, <1>10, FS_Subset, FS_CardinalityType
  <2> QED BY <1>0, <2>1, <2>2
<1>13. ASSUME NEW X, i \in X, ClosedIn(S, X) PROVE reach[N] \subseteq X
  <2> DEFINE D == {k \in 0..N : reach[k] \subseteq X}
  <2>1. 0 \in D
    BY <1>0, <1>8, <1>13
  <2>2. ASSUME NEW k \in 0..N, k < N, k \in D PROVE k + 1 \in D
    <3> DEFINE r == reach[k]
    <3>1. reach[k + 1] = Spread(S, r) /\ k + 1 \in 0..N /\ r \subseteq X
      BY <1>0, <1>8, <2>2
    <3> HIDE DEF r
    <3>2. Spread(S, r) \subseteq X
      BY <1>13, <3>1 DEF Spread, ClosedIn
    <3> QED BY <3>1, <3>2
  <2>3. 0..N \subseteq D
    <3> HIDE DEF D
    <3> QED BY <1>0, <2>1, <2>2, UpTo
  <2> QED BY <1>10, <2>3
<1> QED BY <1>7, <1>10, <1>12, <1>13

\* At the end the points that unite others are the core points, and those that are empty.
LEMMA AtTheEnd ==
  ASSUME IInv, Done, ~TooFew
  PROVE  /\ Sound(uf, inCluster, Uniting) /\ inCluster \subseteq Point
         /\ \A i \in Point \ empty : i \in Uniting <=> i \in Core
         /\ Core \subseteq Uniting
         /\ \A a \in Uniting : Neighbours(a) \subseteq inCluster
         /\ \A a, b \in Uniting : {a, b} \in near => Found(uf, a) = Found(uf, b)
<1>1. todo = {} /\ p = N - 1 /\ \A i \in Point : i < p \/ i = p
  BY FinitePoints DEF IInv, IdsOK, Point
<1>2. Sound(uf, inCluster, Uniting) /\ Uniting \subseteq Point /\ inCluster \subseteq Point
  BY DEF IInv, Sound
<1>3. minPoints \in Nat /\ Core \subseteq Point
  BY DEF IInv, GivenOK, Core
<1>4. \A i \in Point \ empty : i \in Uniting <=> i \in Core
  <2>1. CASE minPoints <= 1
    <3>1. SUFFICES ASSUME NEW i \in Point \ empty PROVE i \in Core
      BY <2>1 DEF Uniting
    <3>2. i \in Neighbours(i) /\ Neighbours(i) \in SUBSET Point
      BY DEF IInv, GivenOK, Neighbours
    <3>3. IsFiniteSet(Neighbours(i)) /\ Cardinality(Neighbours(i)) \in Nat /\ Cardinality(Neighbours(i)) # 0
      BY <3>2, FinitePoints, FS_Subset, FS_CardinalityType, FS_EmptySet
    <3>4. Cardinality(Neighbours(i)) >= minPoints
      BY <1>3, <2>1, <3>3
    <3> QED BY <3>4 DEF Core
  <2>2. CASE ~(minPoints <= 1)
    <3>1. minPoints > 1
      BY <1>3, <2>2
    <3>2. CoresOK /\ Uniting = isCore
      BY <2>2, <3>1 DEF IInv, Uniting
    <3>3. p \in Core => p \in isCore
      BY <1>1, <3>1, PassedIsCore
    <3> QED BY <1>1, <1>3, <3>2, <3>3 DEF CoresOK
  <2> QED BY <2>1, <2>2
<1>5. Core \subseteq Uniting
  BY <1>4 DEF Core
<1>6. \A a \in Uniting : Neighbours(a) \subseteq inCluster
  BY <1>1, <1>2 DEF IInv, MetOK
<1>7. ASSUME NEW a \in Uniting, NEW b \in Uniting, {a, b} \in near PROVE Found(uf, a) = Found(uf, b)
  <2>1. a \in Point /\ b \in Point /\ {b, a} = {a, b}
    BY <1>2
  <2>2. a < b \/ b < a \/ a = b
    BY <2>1 DEF Point
  <2>3. a < b => Found(uf, a) = Found(uf, b)
    BY <1>1, <1>7, <2>1 DEF IInv, MetOK
  <2>4. b < a => Found(uf, b) = Found(uf, a)
    BY <1>1, <1>7, <2>1 DEF IInv, MetOK
  <2> QED BY <2>2, <2>3, <2>4
<1> QED BY <1>2, <1>4, <1>5, <1>6, <1>7

\* When there are too few geometries there is no core point, and no id.
LEMMA NoneOfTooFew ==
  ASSUME IInv, TooFew
  PROVE  Core = {} /\ inCluster = {}
<1>1. inCluster = {}
  BY DEF IInv, Shape
<1>2. ASSUME NEW i \in Core PROVE FALSE
  <2>1. Neighbours(i) \in SUBSET Point
    BY DEF Neighbours
  <2>2. Cardinality(Neighbours(i)) <= N /\ Cardinality(Neighbours(i)) \in Nat
    BY <2>1, FinitePoints, FS_Subset, FS_CardinalityType
  <2>3. Cardinality(Neighbours(i)) >= minPoints
    BY <1>2 DEF Core
  <2> QED BY <2>2, <2>3, FinitePoints DEF TooFew, IInv, GivenOK
<1> QED BY <1>1, <1>2

\* Core points have one id exactly when a chain of core points joins them.
LEMMA CoresJoined == IInv => CoresJoinedByChains
<1> SUFFICES ASSUME IInv, Done, NEW i \in Core \ null
             PROVE  Connected(Core, i) \ null = {j \in Core \ null : ids[i] = ids[j]}
  BY DEF CoresJoinedByChains
<1>1. ~TooFew
  BY NoneOfTooFew
<1>2. /\ Sound(uf, inCluster, Uniting) /\ inCluster \subseteq Point
      /\ \A x \in Point \ empty : x \in Uniting <=> x \in Core
      /\ Core \subseteq Uniting
      /\ \A a, b \in Uniting : {a, b} \in near => Found(uf, a) = Found(uf, b)
  BY <1>1, AtTheEnd
<1>3. Core \in SUBSET Point /\ Uniting \subseteq inCluster /\ i \in Core
  BY <1>2 DEF Core, Sound
<1>4. \A j \in Core \ null : ids[i] = ids[j] <=> Found(uf, i) = Found(uf, j)
  BY <1>2, <1>3, DoneIds
<1> DEFINE C == Connected(Core, i)
           X == {j \in Core : Found(uf, i) = Found(uf, j)}
<1>5. i \in C /\ C \subseteq Core /\ ClosedIn(Core, C) /\ (i \in X /\ ClosedIn(Core, X) => C \subseteq X)
  BY <1>3, ConnectedIsClosed
<1>6. ClosedIn(Core, X)
  BY <1>2 DEF ClosedIn
<1>7. C \subseteq X
  BY <1>3, <1>5, <1>6
<1> HIDE DEF C
<1>8. ASSUME NEW j \in X PROVE j \in C
  <2>1. Leads(Uniting, i, j)
    BY <1>2, <1>3 DEF Sound, ChainsJoin
  <2>2. ClosedIn(Uniting, C)
    <3>1. SUFFICES ASSUME NEW a \in C, NEW b \in Uniting, {a, b} \in near PROVE b \in C
      BY DEF ClosedIn
    <3>2. b \in Point \ empty
      <4>1. {a, b} \in Pairs(Point \ empty)
        BY <3>1 DEF IInv, GivenOK
      <4> QED BY <4>1 DEF Pairs
    <3>3. b \in Core
      BY <1>2, <3>1, <3>2
    <3> QED BY <1>5, <3>1, <3>3 DEF ClosedIn
  <2>3. C \in SUBSET Point
    BY <1>3, <1>5
  <2> QED BY <1>5, <2>1, <2>2, <2>3 DEF Leads
<1>9. C = X
  BY <1>7, <1>8
<1>10. C \ null = {j \in Core \ null : ids[i] = ids[j]}
  BY <1>4, <1>9
<1> QED BY <1>10 DEF C

\* A border point has the id of a core point beside it, noise has none.
LEMMA BordersJoined == IInv => BordersBesideACore
<1> SUFFICES ASSUME IInv, Done, NEW i \in Point \ (Core \cup empty)
             PROVE  LET beside == Neighbours(i) \cap Core
                    IN  IF beside = {} THEN ids[i] = None
                        ELSE \E c \in beside : ids[i] = ids[c]
  BY DEF BordersBesideACore
<1> DEFINE beside == Neighbours(i) \cap Core
<1>0. null \subseteq empty /\ near \subseteq Pairs(Point \ empty)
  BY DEF IInv, GivenOK
<1>1. i \notin null /\ \A c \in Core : c \notin null
  BY <1>0 DEF Core
<1>2. CASE TooFew
  <2>1. Core = {} /\ inCluster = {}
    BY <1>2, NoneOfTooFew
  <2>2. ids[i] = None
    BY <2>1, DoneIds
  <2> QED BY <2>1, <2>2
<1>3. CASE ~TooFew
  <2>1. /\ Sound(uf, inCluster, Uniting) /\ inCluster \subseteq Point
        /\ \A x \in Point \ empty : x \in Uniting <=> x \in Core
        /\ Core \subseteq Uniting
        /\ \A a \in Uniting : Neighbours(a) \subseteq inCluster
    BY <1>3, AtTheEnd
  <2>2. i \notin Uniting
    BY <2>1
  <2>3. i \in inCluster => \E c \in beside : Found(uf, c) = Found(uf, i)
    <3>1. SUFFICES ASSUME i \in inCluster PROVE \E c \in beside : Found(uf, c) = Found(uf, i)
      OBVIOUS
    <3>2. PICK c \in Uniting : {c, i} \in near /\ Found(uf, c) = Found(uf, i)
      BY <2>1, <2>2, <3>1 DEF Sound, BordersJoin
    <3>3. {c, i} = {i, c} /\ c \in Point \ empty
      <4>1. {c, i} \in Pairs(Point \ empty)
        BY <1>0, <3>2
      <4> QED BY <4>1 DEF Pairs
    <3>4. c \in Core /\ c \in Neighbours(i)
      BY <2>1, <3>2, <3>3 DEF Neighbours
    <3> QED BY <3>2, <3>4
  <2>4. CASE beside = {}
    <3>1. i \notin inCluster
      BY <2>3, <2>4
    <3>2. ids[i] = None
      BY <3>1, DoneIds
    <3> QED BY <2>4, <3>2
  <2>5. CASE beside # {}
    <3>1. PICK a \in Core : a \in Neighbours(i)
      BY <2>5
    <3>2. i \in Neighbours(a)
      <4>1. {i, a} = {a, i}
        OBVIOUS
      <4> QED BY <3>1, <4>1 DEF Neighbours
    <3>3. i \in inCluster
      BY <2>1, <3>1, <3>2
    <3>4. PICK c \in beside : Found(uf, c) = Found(uf, i)
      BY <2>3, <3>3
    <3>5. c \in inCluster \ null /\ i \in inCluster \ null
      BY <1>1, <2>1, <3>3 DEF Sound
    <3>6. ids[i] = ids[c]
      BY <3>4, <3>5, DoneIds
    <3> QED BY <2>5, <3>6
  <2> QED BY <2>4, <2>5
<1> QED BY <1>2, <1>3

\* The result is that of DBSCAN, whatever the order in which the tree returns candidates and
\* whichever distances are passed over (union_dbscan of src/liblwgeom/lwgeom_geos_cluster.c).
THEOREM ClustersCorrect == Spec => []ClustersAreDensityConnected
<1>1. IInv => ClustersAreDensityConnected
  BY CoresJoined, BordersJoined DEF ClustersAreDensityConnected
<1> QED BY <1>1, AlwaysIInv, PTL

-----------------------------------------------------------------------------
(* Types.                                                                      *)

\* Sizes and numbers of sets stay within the number of points.
LEMMA PartitionBounds ==
  ASSUME NEW u, Partition(Point, u)
  PROVE  u \in [clusters : [Point -> Point], sizes : [Point -> 0..N], num : 1..N]
<1>1. /\ IsFiniteSet(Point) /\ Cardinality(Point) = N /\ N \in Nat /\ 0 \in Point
      /\ u \in Trees(Point) /\ u \in Arrays(Point)
  BY FinitePoints DEF Partition, Trees, Point
<1>2. ASSUME NEW S, S \subseteq Point PROVE Cardinality(S) \in 0..N /\ (S # {} => Cardinality(S) \in 1..N)
  <2>1. IsFiniteSet(S) /\ Cardinality(S) <= N /\ Cardinality(S) \in Nat /\ (Cardinality(S) = 0 <=> S = {})
    BY <1>1, <1>2, FS_Subset, FS_CardinalityType, FS_EmptySet
  <2> QED BY <1>1, <2>1
<1>3. Roots(Point, u) \subseteq Point /\ Found(u, 0) \in Roots(Point, u)
  BY <1>1, FoundRoot, RootIsFound DEF Roots
<1>4. u.num \in 1..N
  BY <1>2, <1>3 DEF Partition, Counted
<1>5. ASSUME NEW i \in Point PROVE u.sizes[i] \in 0..N
  <2>1. Members(Point, u, i) \subseteq Point
    BY DEF Members
  <2>2. u.sizes[i] = IF i \in Roots(Point, u) THEN Cardinality(Members(Point, u, i)) ELSE 0
    BY DEF Partition, Counted
  <2> QED BY <1>1, <1>2, <2>1, <2>2
<1>6. u.sizes \in [Point -> 0..N]
  BY <1>1, <1>5 DEF Arrays
<1> QED BY <1>1, <1>4, <1>6 DEF Arrays

\* The state has its types (src/liblwgeom/lwgeom_geos_cluster.c).
THEOREM TypeCorrect == Spec => []TypeOK
<1>1. IInv => TypeOK
  <2> SUFFICES ASSUME IInv PROVE TypeOK
    OBVIOUS
  <2>1. uf \in [clusters : [Point -> Point], sizes : [Point -> 0..N], num : 1..N]
    BY PartitionBounds DEF IInv, Shape
  <2>2. minPoints \in Nat /\ inCluster \subseteq Point /\ p \in -1..N-1 /\ todo \subseteq Point /\ held \in Seq(Point)
    BY DEF IInv, GivenOK, Shape
  <2>3. isCore \subseteq inCluster /\ Len(held) <= N
    <3>1. CASE minPoints <= 1
      <4>1. isCore = {} /\ held = <<>>
        BY <3>1 DEF IInv, Shape
      <4> QED BY <4>1, FinitePoints
    <3>2. CASE minPoints > 1
      <4>1. isCore \subseteq inCluster
        BY <2>2, <3>2 DEF IInv, Uniting, Sound
      <4>2. \A a, b \in 1..Len(held) : held[a] = held[b] => a = b
        BY <3>2 DEF IInv, HeldOK
      <4>3. Elements(held, Len(held)) \subseteq Point /\ Cardinality(Elements(held, Len(held))) = Len(held)
        BY <2>2, <4>2, ElementsCounted
      <4>4. Cardinality(Elements(held, Len(held))) <= N
        BY <4>3, FinitePoints, FS_Subset
      <4> QED BY <4>1, <4>3, <4>4
    <3> QED BY <2>2, <3>1, <3>2
  <2>4. ids = <<>> \/ ids \in [Point -> None..N-1]
    <3>1. SUFFICES ASSUME Done PROVE ids \in [Point -> None..N-1]
      BY DEF Done
    <3> DEFINE n == Cardinality(InRoots(uf, inCluster))
    <3>2. /\ n \in Nat /\ n <= N /\ DOMAIN ids = Point
          /\ \A i \in Point \ (inCluster \ null) : ids[i] = None
          /\ \A i \in inCluster \ null : ids[i] \in 0..n-1
      BY <3>1, DoneIds
    <3> HIDE DEF n
    <3>3. \A i \in Point : ids[i] \in None..N-1
      BY <3>2, FinitePoints DEF None
    <3>4. ids = [i \in Point |-> ids[i]]
      BY <3>1 DEF IInv, IdsOK
    <3> QED BY <3>3, <3>4
  <2> QED BY <2>1, <2>2, <2>3, <2>4 DEF TypeOK
<1> QED BY <1>1, AlwaysIInv, PTL

=============================================================================
